--------------------------- MODULE ExecutorProofs ---------------------------
(***************************************************************************)
(* Proofs about Executor, for any number of workers, clients, operations   *)
(* and guards, any width of job_count_ and, but for the last theorem, in   *)
(* every configuration.                                                    *)
(***************************************************************************)
EXTENDS Executor, TLAPS, FiniteSetTheorems

(* The remainder that keeps job_count_ in its width. *)
LEMMA ModRange == \A a \in Int, m \in Nat \ {0} : a % m \in 0..m - 1
  BY Z3

LEMMA AddJobsType ==
  ASSUME TypeOK, NEW n \in Int, AddJobs(n)
  PROVE  job_count_' \in 0..JobCountMod - 1
  <1>1. job_count_ + n \in Int
    BY DEF TypeOK
  <1>2. QED
    BY <1>1, ModRange, NumbersAssumption, Zenon DEF AddJobs

(* The three ways to wake threads keep the types of what they change. *)
LEMMA WakeType ==
  ASSUME TypeOK, WakeOne \/ WakeAll \/ DoNotWake
  PROVE  cvBlocked' \subseteq Workers /\ unblock_fd_' \in BOOLEAN
  BY Zenon DEF TypeOK, WakeOne, WakeAll, DoNotWake, NotifyOne

LEMMA TransferType ==
  ASSUME TypeOK, NEW w \in Workers
  PROVE  Transferred(w) \in Seq(Operations)
  BY DEF TypeOK, Transferred, Operations, Threads

-----------------------------------------------------------------------------
(* Type correctness, with the operation a thread has in hand. *)

TypeInv == TypeOK /\ OperationInHand

LEMMA AppendType ==
  ASSUME TypeOK
  PROVE  /\ \A j \in Jobs : Append(operation_queue_, j) \in Seq(Operations)
         /\ Append(operation_queue_, NullTask) \in Seq(Operations)
  BY DEF TypeOK, Operations

LEMMA PrivatePushType ==
  ASSUME TypeOK, NEW t \in Threads, NEW j \in Jobs
  PROVE  [private_op_queue_ EXCEPT ![t] = Append(@, j)] \in [Threads -> Seq(Jobs)]
  <1>1. private_op_queue_ \in [Threads -> Seq(Jobs)]
    BY Zenon DEF TypeOK
  <1>2. QED
    BY <1>1

LEMMA PrivateClearType ==
  ASSUME TypeOK, NEW t \in Threads
  PROVE  [private_op_queue_ EXCEPT ![t] = <<>>] \in [Threads -> Seq(Jobs)]
  <1>1. private_op_queue_ \in [Threads -> Seq(Jobs)] /\ <<>> \in Seq(Jobs)
    BY DEF TypeOK
  <1>2. QED
    BY <1>1, Zenon

LEMMA PopType ==
  ASSUME TypeOK, operation_queue_ # <<>>
  PROVE  /\ Tail(operation_queue_) \in Seq(Operations)
         /\ Head(operation_queue_) \in Operations
  <1>1. operation_queue_ \in Seq(Operations)
    BY Zenon DEF TypeOK
  <1>2. QED
    BY <1>1

LEMMA TypeInit == Init => TypeInv
  <1> SUFFICES ASSUME Init PROVE TypeInv
    BY Zenon
  <1>1. operation_queue_ \in Seq(Operations)
    <2>1. <<NullTask>> \in Seq(Operations) /\ <<>> \in Seq(Operations)
      BY DEF Operations
    <2>2. QED
      BY <2>1, Zenon DEF Init
  <1>2. job_count_ \in 0..JobCountMod - 1
    BY NumbersAssumption DEF Init
  <1>3. TypeOK
    <2>1. private_op_queue_ \in [Threads -> Seq(Jobs)]
      BY DEF Init
    <2>2. reactor_service_ \in BOOLEAN
      BY FlagsAssumption, Zenon DEF Init
    <2>3. pc \in [Threads -> {"out"}] /\ op \in [Threads -> {NoJob}]
      BY Zenon DEF Init
    <2>4. runOne \in [Threads -> BOOLEAN] /\ blocking \in [Threads -> BOOLEAN]
      BY Zenon DEF Init
    <2>5. private_job_count_ \in [Threads -> Nat] /\ cv_wait_count_ \in Int /\ guards \in Nat
      BY DEF Init
    <2>6. /\ stop_requested_ \in BOOLEAN /\ reactor_needs_interrupt_ \in BOOLEAN
          /\ unblock_fd_ \in BOOLEAN /\ reactor_error \in BOOLEAN
      BY Zenon DEF Init
    <2>7. /\ mtx_ \in Workers \cup {NoThread} /\ cvBlocked \subseteq Workers
          /\ armed \subseteq Jobs /\ fresh \subseteq Jobs /\ done \subseteq Jobs
      BY Zenon DEF Init
    <2>8. QED
      BY <1>1, <1>2, <2>1, <2>2, <2>3, <2>4, <2>5, <2>6, <2>7, Zenon DEF TypeOK, Labels
  <1>4. OperationInHand
    BY Zenon DEF Init, OperationInHand
  <1>5. QED
    BY <1>3, <1>4, Zenon DEF TypeInv

LEMMA TypeClient ==
  ASSUME TypeInv, NEW c \in Clients, Client(c)
  PROVE  TypeInv'
  <1> USE JobsAssumption DEF TypeInv, TypeOK, Labels, OperationInHand, Threads, env, local, Goto
  <1>1. ASSUME NEW j \in Jobs, Post(c, j) PROVE TypeInv'
    BY <1>1, AddJobsType DEF Post, Outside
  <1>2. CASE PostEnqueue(c)
    <2>1. op[c] \in Jobs
      BY <1>2, Zenon DEF PostEnqueue
    <2>2. Append(operation_queue_, op[c]) \in Seq(Operations)
      BY <2>1 DEF Operations
    <2>3. cvBlocked' \subseteq Workers /\ unblock_fd_' \in BOOLEAN
      BY <1>2, WakeType, Zenon DEF PostEnqueue, EnqueueLocked
    <2>4. QED
      BY <1>2, <2>2, <2>3, Zenon DEF PostEnqueue, EnqueueLocked
  <1>3. CASE GuardCreate(c)
    BY <1>3, AddJobsType DEF GuardCreate
  <1>4. CASE GuardDestroy(c)
    <2>1. job_count_' \in 0..JobCountMod - 1
      BY <1>4, AddJobsType, -1 \in Int, Zenon DEF GuardDestroy
    <2>2. guards' \in Nat
      BY <1>4 DEF GuardDestroy
    <2>3. pc' = [pc EXCEPT ![c] = "out"] \/ pc' = [pc EXCEPT ![c] = "stopping"]
      BY <1>4, Zenon DEF GuardDestroy
    <2>4. QED
      BY <1>4, <2>1, <2>2, <2>3, Zenon DEF GuardDestroy, Outside
  <1>5. CASE Restart(c)
    BY <1>5, Zenon DEF Restart
  <1>6. QED
    BY <1>1, <1>2, <1>3, <1>4, <1>5, Zenon DEF Client

LEMMA TypeCaller ==
  ASSUME TypeInv, NEW t \in Threads, Caller(t) \/ StopForLackOfJobs(t)
  PROVE  TypeInv'
  <1> USE DEF TypeInv, TypeOK, Labels, OperationInHand, env, local, Goto
  <1>1. ASSUME NEW j \in Jobs, StartAsync(t, j) PROVE TypeInv'
    BY <1>1, AddJobsType DEF StartAsync
  <1>2. ASSUME NEW j \in Jobs, EnqueuePostJobArrival(t, j) PROVE TypeInv'
    <2>1. cvBlocked' \subseteq Workers /\ unblock_fd_' \in BOOLEAN
      BY <1>2, WakeType, Zenon DEF EnqueuePostJobArrival, EnqueueLocked
    <2>2. operation_queue_' \in Seq(Operations)
      BY <1>2, AppendType, Zenon DEF EnqueuePostJobArrival, EnqueueLocked
    <2>3. private_op_queue_' \in [Threads -> Seq(Jobs)]
      <3>1. \/ private_op_queue_' = private_op_queue_
            \/ private_op_queue_' = [private_op_queue_ EXCEPT ![t] = Append(@, j)]
        BY <1>2, Zenon DEF EnqueuePostJobArrival
      <3>2. [private_op_queue_ EXCEPT ![t] = Append(@, j)] \in [Threads -> Seq(Jobs)]
        BY PrivatePushType, Zenon
      <3>3. private_op_queue_ \in [Threads -> Seq(Jobs)]
        BY Zenon
      <3>4. QED
        BY <3>1, <3>2, <3>3, Zenon
    <2>4. QED
      BY <1>2, <2>1, <2>2, <2>3, Zenon DEF EnqueuePostJobArrival
  <1>3. ASSUME NEW j \in Jobs, PostImmediate(t, j) PROVE TypeInv'
    <2>1. cvBlocked' \subseteq Workers /\ unblock_fd_' \in BOOLEAN
      BY <1>3, WakeType, Zenon DEF PostImmediate, EnqueueLocked
    <2>2. operation_queue_' \in Seq(Operations)
      BY <1>3, AppendType, Zenon DEF PostImmediate, EnqueueLocked
    <2>3. QED
      BY <1>3, <2>1, <2>2, AddJobsType DEF PostImmediate
  <1>4. CASE Stop(t)
    BY <1>4, WakeType, Zenon DEF Stop, StopLocked
  <1>5. CASE UseReactorService(t)
    <2>1. cvBlocked' \subseteq Workers /\ unblock_fd_' \in BOOLEAN
      BY <1>5, WakeType, Zenon DEF UseReactorService, StartReactorTask
    <2>2. operation_queue_' \in Seq(Operations)
      BY <1>5, AppendType, Zenon DEF UseReactorService, StartReactorTask
    <2>3. QED
      BY <1>5, <2>1, <2>2, Zenon DEF UseReactorService, StartReactorTask
  <1>6. CASE StopForLackOfJobs(t)
    BY <1>6, WakeType, Zenon DEF StopForLackOfJobs, StopLocked
  <1>7. QED
    BY <1>1, <1>2, <1>3, <1>4, <1>5, <1>6, Zenon DEF Caller

LEMMA TypeWorker ==
  ASSUME TypeInv, NEW w \in Workers, Worker(w)
  PROVE  TypeInv'
  <1> w \in Threads
    BY Zenon DEF Threads
  <1> USE DEF TypeInv, TypeOK, Labels, OperationInHand, shared, env, local, Goto
  <1>1. ASSUME NEW one \in BOOLEAN, Run(w, one) PROVE TypeInv'
    BY <1>1, Zenon DEF Run
  <1>2. ASSUME NEW j \in Jobs, PostPrivate(w, j) PROVE TypeInv'
    <2>1. private_op_queue_' \in [Threads -> Seq(Jobs)]
      BY <1>2, PrivatePushType, Zenon DEF PostPrivate
    <2>2. QED
      BY <1>2, <2>1 DEF PostPrivate
  <1>3. ASSUME NEW j \in Jobs, DispatchInline(w, j) PROVE TypeInv'
    BY <1>3, Zenon DEF DispatchInline
  <1>4. ASSUME NEW j \in Jobs, ReactorReady(w, j) PROVE TypeInv'
    <2>1. private_op_queue_' \in [Threads -> Seq(Jobs)]
      BY <1>4, PrivatePushType, Zenon DEF ReactorReady
    <2>2. QED
      BY <1>4, <2>1, Zenon DEF ReactorReady
  <1>5. CASE Lock(w)
    BY <1>5, Zenon DEF Lock
  <1>6. CASE Leave(w)
    BY <1>6, Zenon DEF Leave, AtLoop
  <1>7. CASE WaitForWork(w)
    BY <1>7 DEF WaitForWork, AtLoop
  <1>8. CASE Woken(w)
    <2>1. CASE operation_queue_ = <<>>
      BY <1>8, <2>1, Zenon DEF Woken
    <2>2. CASE operation_queue_ # <<>>
      <3>1. cv_wait_count_' \in Int /\ mtx_' = w /\ pc' = [pc EXCEPT ![w] = "loop"]
        BY <1>8, <2>2 DEF Woken
      <3>2. UNCHANGED cvBlocked
        BY <1>8, <2>2, Zenon DEF Woken
      <3>3. QED
        BY <1>8, <3>1, <3>2, Zenon DEF Woken
    <2>3. QED
      BY <2>1, <2>2, Zenon
  <1>9. CASE StartOperation(w) \/ StartReactor(w)
    <2>1. cvBlocked' \subseteq Workers /\ unblock_fd_' \in BOOLEAN
      BY <1>9, WakeType, Zenon DEF StartOperation, StartReactor, PopFront
    <2>2. /\ operation_queue_' \in Seq(Operations)
          /\ Head(operation_queue_) \in Operations
      BY <1>9, PopType, Zenon DEF StartOperation, StartReactor, PopFront
    <2>3. CASE StartOperation(w)
      BY <2>1, <2>2, <2>3, JobsAssumption, Zenon DEF StartOperation, PopFront, AtLoop, Operations
    <2>4. CASE StartReactor(w)
      BY <2>1, <2>2, <2>4, Zenon DEF StartReactor, PopFront, AtLoop
    <2>5. QED
      BY <1>9, <2>3, <2>4, Zenon
  <1>10. CASE ReactorReturn(w)
    <2>1. job_count_' \in 0..JobCountMod - 1
      BY <1>10, AddJobsType DEF ReactorReturn
    <2>2. unblock_fd_' \in BOOLEAN
      BY <1>10, Zenon DEF ReactorReturn
    <2>3. QED
      BY <1>10, <2>1, <2>2, Zenon DEF ReactorReturn
  <1>11. CASE FinishReactor(w)
    <2>1. Append(Transferred(w), NullTask) \in Seq(Operations)
      BY TransferType DEF Operations
    <2>2. private_op_queue_' \in [Threads -> Seq(Jobs)]
      BY <1>11, PrivateClearType, Zenon DEF FinishReactor, ClearPrivate, TokenReturned
    <2>3. QED
      BY <1>11, <2>1, <2>2, Zenon DEF FinishReactor, ClearPrivate, TokenReturned
  <1>12. CASE FinishOperation(w)
    <2>1. job_count_' \in 0..JobCountMod - 1
      BY <1>12, AddJobsType, private_job_count_[w] - 1 \in Int, Zenon DEF FinishOperation, Completed
    <2>2. QED
      BY <1>12, <2>1, Zenon DEF FinishOperation, InOperation
  <1>13. CASE AfterOperation(w)
    <2>1. operation_queue_' \in Seq(Operations)
      BY <1>13, TransferType, Zenon DEF AfterOperation, ClearPrivate
    <2>2. private_op_queue_' \in [Threads -> Seq(Jobs)]
      BY <1>13, PrivateClearType, Zenon DEF AfterOperation, ClearPrivate
    <2>3. QED
      BY <1>13, <2>1, <2>2, Zenon DEF AfterOperation, ClearPrivate
  <1>14. CASE SpuriousWake(w)
    BY <1>14, Zenon DEF SpuriousWake
  <1>15. CASE ReactorFail(w)
    BY <1>15, Zenon DEF ReactorFail
  <1>16. QED
    BY Zenon, <1>1, <1>2, <1>3, <1>4, <1>5, <1>6, <1>7, <1>8, <1>9, <1>10, <1>11, <1>12, <1>13,
       <1>14, <1>15 DEF Worker, Step

LEMMA TypeNext == TypeInv /\ [Next]_vars => TypeInv'
  <1> SUFFICES ASSUME TypeInv, [Next]_vars PROVE TypeInv'
    BY Zenon
  <1>1. CASE Next
    BY <1>1, TypeClient, TypeCaller, TypeWorker, Zenon DEF Next
  <1>2. CASE UNCHANGED vars
    BY <1>2, Zenon DEF vars, shared, local, env, TypeInv, TypeOK, Labels, OperationInHand
  <1>3. QED
    BY <1>1, <1>2, Zenon

(* Every variable of the executor keeps its type, job_count_ its width,    *)
(* and a thread has an operation in hand exactly while it posts or runs it.*)
THEOREM TypeCorrect == Spec => [](TypeOK /\ OperationInHand)
  <1>1. Spec => []TypeInv
    BY TypeInit, TypeNext, PTL DEF Spec
  <1>2. QED
    BY <1>1, PTL DEF TypeInv
-----------------------------------------------------------------------------
(* Mutual exclusion on mtx_. *)

LEMMA MutexNext == TypeInv /\ MutualExclusion /\ [Next]_vars => MutualExclusion'
  <1> SUFFICES ASSUME TypeInv, MutualExclusion, [Next]_vars PROVE MutualExclusion'
    BY Zenon
  <1> USE ThreadsAssumption
          DEF TypeInv, TypeOK, MutualExclusion, Threads, Goto, shared, local, env
  <1>1. ASSUME NEW c \in Clients, Client(c) PROVE MutualExclusion'
    <2>1. ASSUME NEW j \in Jobs, Post(c, j) PROVE MutualExclusion'
      BY <2>1, Zenon DEF Post
    <2>2. CASE PostEnqueue(c)
      BY <2>2, Zenon DEF PostEnqueue
    <2>3. CASE GuardCreate(c) \/ GuardDestroy(c) \/ Restart(c)
      BY <2>3 DEF GuardCreate, GuardDestroy, Restart
    <2>4. QED
      BY <1>1, <2>1, <2>2, <2>3, Zenon DEF Client
  <1>2. ASSUME NEW t \in Threads, Caller(t) PROVE MutualExclusion'
    BY <1>2, Zenon DEF Caller, StartAsync, EnqueuePostJobArrival, PostImmediate, Stop,
           UseReactorService, StartReactorTask
  <1>3. ASSUME NEW t \in Threads, StopForLackOfJobs(t) PROVE MutualExclusion'
    BY <1>3, Zenon DEF StopForLackOfJobs
  <1>4. ASSUME NEW w \in Workers, Worker(w) PROVE MutualExclusion'
    <2>1. ASSUME NEW one \in BOOLEAN, Run(w, one) PROVE MutualExclusion'
      BY <2>1, Zenon DEF Run
    <2>2. ASSUME NEW j \in Jobs, PostPrivate(w, j) \/ DispatchInline(w, j) \/ ReactorReady(w, j)
          PROVE  MutualExclusion'
      BY <2>2, Zenon DEF PostPrivate, DispatchInline, ReactorReady
    <2>3. CASE Lock(w)
      BY <2>3, Zenon DEF Lock
    <2>4. CASE Leave(w)
      BY <2>4, Zenon DEF Leave, AtLoop
    <2>5. CASE WaitForWork(w)
      BY <2>5, Zenon DEF WaitForWork, AtLoop
    <2>6. CASE Woken(w)
      BY <2>6 DEF Woken
    <2>7. CASE StartOperation(w)
      BY <2>7, Zenon DEF StartOperation, PopFront, AtLoop
    <2>8. CASE StartReactor(w)
      BY <2>8, Zenon DEF StartReactor, PopFront, AtLoop
    <2>9. CASE ReactorReturn(w)
      BY <2>9, Zenon DEF ReactorReturn
    <2>10. CASE FinishReactor(w)
      BY <2>10, Zenon DEF FinishReactor
    <2>11. CASE FinishOperation(w)
      BY <2>11, Zenon DEF FinishOperation, InOperation
    <2>12. CASE AfterOperation(w)
      BY <2>12, Zenon DEF AfterOperation
    <2>13. CASE SpuriousWake(w)
      BY <2>13, Zenon DEF SpuriousWake
    <2>14. CASE ReactorFail(w)
      BY <2>14, Zenon DEF ReactorFail
    <2>15. QED
      BY Zenon, <1>4, <2>1, <2>2, <2>3, <2>4, <2>5, <2>6, <2>7, <2>8, <2>9, <2>10, <2>11, <2>12,
         <2>13, <2>14 DEF Worker, Step
  <1>5. CASE UNCHANGED vars
    BY <1>5, Zenon DEF vars
  <1>6. QED
    BY <1>1, <1>2, <1>3, <1>4, <1>5, Zenon DEF Next

(* At most one worker at a time is in ProcessNextOperation with the lock,  *)
(* and mtx_ is free when none is.                                          *)
THEOREM ExecutorMutualExclusion == Spec => []MutualExclusion
  <1>1. Init => MutualExclusion
    BY ThreadsAssumption, Zenon DEF Init, MutualExclusion, Threads
  <1>2. QED
    BY <1>1, TypeInit, TypeNext, MutexNext, PTL DEF Spec

-----------------------------------------------------------------------------
(* The tokens in a queue after each of the ways in which queues change. *)

LEMMA TokensAppendJob ==
  ASSUME NEW q \in Seq(Operations), NEW j \in Jobs
  PROVE  Tokens(Append(q, j)) = Tokens(q)
  BY JobsAssumption DEF Tokens

LEMMA TokensAppendNull ==
  ASSUME NEW q \in Seq(Operations), Tokens(q) = {}
  PROVE  Tokens(Append(q, NullTask)) = {Len(q) + 1}
  BY DEF Tokens, Operations

LEMMA TokensConcat ==
  ASSUME NEW q \in Seq(Operations), NEW p \in Seq(Jobs)
  PROVE  Tokens(q \o p) = Tokens(q)
  BY JobsAssumption DEF Tokens, Operations

LEMMA TokensTail ==
  ASSUME NEW q \in Seq(Operations), q # <<>>, \A i, k \in Tokens(q) : i = k
  PROVE  /\ \A i, k \in Tokens(Tail(q)) : i = k
         /\ Head(q) = NullTask => Tokens(Tail(q)) = {}
         /\ Tokens(Tail(q)) # {} => Tokens(q) # {}
         /\ Head(q) # NullTask /\ Tokens(q) # {} => Tokens(Tail(q)) # {}
  <1>1. /\ Len(q) \in Nat \ {0} /\ Len(Tail(q)) = Len(q) - 1 /\ Head(q) = q[1]
        /\ \A i \in 1..Len(q) - 1 : Tail(q)[i] = q[i + 1]
    OBVIOUS
  <1>2. \A i : i \in Tokens(Tail(q)) <=> i \in 1..Len(q) - 1 /\ i + 1 \in Tokens(q)
    BY <1>1 DEF Tokens
  <1>3. ASSUME Head(q) # NullTask, NEW i \in Tokens(q) PROVE i - 1 \in Tokens(Tail(q))
    BY <1>1, <1>3 DEF Tokens
  <1>4. \A i \in Tokens(q) : i \in Nat
    BY DEF Tokens
  <1>5. ASSUME Head(q) = NullTask PROVE Tokens(Tail(q)) = {}
    <2>1. 1 \in Tokens(q)
      BY <1>1, <1>5 DEF Tokens
    <2>2. QED
      BY <1>2, <2>1
  <1>6. \A i, k \in Tokens(Tail(q)) : i = k
    BY <1>2
  <1>7. QED
    BY <1>2, <1>3, <1>5, <1>6, Zenon

-----------------------------------------------------------------------------
(* The token. *)

(* Once an error has lost the token there is none, and none is created.    *)
TokenLostByError == reactor_error => reactor_service_ /\ ~TokenExists

TokenInv == SingleReactorRunner /\ TokenNeedsReactor /\ TokenLostByError

(* A step after which the reactor is still served, if it was. *)
StaysServed == TokenExists => TokenExists' \/ (reactor_error' /\ ~reactor_error)

(* A step that moves no token and does not remove the reactor. *)
LEMMA TokenFrame ==
  ASSUME TokenInv, QueuedTokens' = QueuedTokens,
         \A w \in Workers : HasToken(w)' <=> HasToken(w),
         reactor_service_ => reactor_service_', reactor_error' = reactor_error
  PROVE  TokenInv' /\ StaysServed
  BY Zenon DEF TokenInv, SingleReactorRunner, TokenNeedsReactor, TokenLostByError, TokenExists,
         StaysServed

LEMMA TokenClient ==
  ASSUME TypeInv, TokenInv, NEW c \in Clients, Client(c)
  PROVE  TokenInv' /\ StaysServed
  <1> USE ThreadsAssumption DEF TypeInv, TypeOK, Threads, Goto, HasToken, local
  <1>1. \A w \in Workers : HasToken(w)' <=> HasToken(w)
    <2>1. pc' = pc \/ \E l \in Labels : pc' = [pc EXCEPT ![c] = l]
      BY Zenon DEF Client, Post, PostEnqueue, GuardCreate, GuardDestroy, Restart, Labels
    <2>2. \A w \in Workers : pc'[w] = pc[w]
      BY <2>1, Zenon
    <2>3. QED
      BY <2>2, Zenon
  <1>2. reactor_service_' = reactor_service_ /\ reactor_error' = reactor_error
    BY Zenon DEF Client, Post, PostEnqueue, GuardCreate, GuardDestroy, Restart, env
  <1>3. operation_queue_' = operation_queue_
        \/ (op[c] \in Jobs /\ operation_queue_' = Append(operation_queue_, op[c]))
    <2>1. CASE PostEnqueue(c)
      BY <2>1, Zenon DEF PostEnqueue, EnqueueLocked, OperationInHand
    <2>2. CASE ~PostEnqueue(c)
      BY <2>2, Zenon DEF Client, Post, GuardCreate, GuardDestroy, Restart, shared
    <2>3. QED
      BY <2>1, <2>2, Zenon
  <1>4. QueuedTokens' = QueuedTokens
    BY <1>3, TokensAppendJob, Zenon DEF QueuedTokens
  <1>5. QED
    BY <1>1, <1>2, <1>4, TokenFrame, Zenon

LEMMA TokenCaller ==
  ASSUME TypeInv, TokenInv, NEW t \in Threads, Caller(t)
  PROVE  TokenInv' /\ StaysServed
  <1>1. operation_queue_ \in Seq(Operations)
    BY Zenon DEF TypeInv, TypeOK
  <1>2. \A w \in Workers : HasToken(w)' <=> HasToken(w)
    BY Zenon DEF Caller, StartAsync, EnqueuePostJobArrival, PostImmediate, Stop,
           UseReactorService, StartReactorTask, local, HasToken
  <1>3. CASE UseReactorService(t)
    <2>1. ~TokenExists
      BY <1>3, Zenon DEF UseReactorService, TokenInv, TokenNeedsReactor
    <2>2. reactor_service_' /\ ~reactor_error'
      BY <1>3, Zenon DEF UseReactorService, env, TokenInv, TokenLostByError
    <2>3. operation_queue_' = operation_queue_ \/ operation_queue_' = Append(operation_queue_, NullTask)
      BY <1>3, Zenon DEF UseReactorService, StartReactorTask
    <2>4. QueuedTokens' = {} \/ QueuedTokens' = {Len(operation_queue_) + 1}
      BY <1>1, <2>1, <2>3, TokensAppendNull, Zenon DEF QueuedTokens, TokenExists
    <2>5. QED
      BY <1>2, <2>1, <2>2, <2>4, Zenon
         DEF TokenInv, SingleReactorRunner, TokenNeedsReactor, TokenLostByError, TokenExists, StaysServed
  <1>4. CASE ~UseReactorService(t)
    <2>1. reactor_service_' = reactor_service_ /\ reactor_error' = reactor_error
      BY <1>4, Zenon DEF Caller, StartAsync, EnqueuePostJobArrival, PostImmediate, Stop, env
    <2>2. operation_queue_' = operation_queue_
          \/ \E j \in Jobs : operation_queue_' = Append(operation_queue_, j)
      BY <1>4, Zenon DEF Caller, StartAsync, EnqueuePostJobArrival, PostImmediate, Stop, EnqueueLocked
    <2>3. QueuedTokens' = QueuedTokens
      BY <1>1, <2>2, TokensAppendJob, Zenon DEF QueuedTokens
    <2>4. QED
      BY <1>2, <2>1, <2>3, TokenFrame, Zenon
  <1>5. QED
    BY <1>3, <1>4, Zenon

(* The steps of a worker that move the token, ... *)
LEMMA TokenMoves ==
  ASSUME TypeInv, TokenInv, NEW w \in Workers,
         StartReactor(w) \/ StartOperation(w) \/ FinishReactor(w) \/ ReactorFail(w)
  PROVE  TokenInv' /\ StaysServed
  <1>1. operation_queue_ \in Seq(Operations) /\ private_op_queue_[w] \in Seq(Jobs)
    BY Zenon DEF TypeInv, TypeOK, Threads
  <1>2. pc \in [Threads -> Labels] /\ w \in Threads /\ Workers \subseteq Threads
    BY Zenon DEF TypeInv, TypeOK, Threads
  <1>3. \A v \in Workers \ {w} : HasToken(v)' <=> HasToken(v)
    BY <1>2, Zenon DEF StartReactor, StartOperation, FinishReactor, ReactorFail, Goto, HasToken
  <1>4. reactor_service_' = reactor_service_
    BY Zenon DEF StartReactor, StartOperation, FinishReactor, ReactorFail, shared
  <1>5. ASSUME StartReactor(w) \/ StartOperation(w)
        PROVE  /\ operation_queue_ # <<>> /\ operation_queue_' = Tail(operation_queue_)
               /\ ~HasToken(w)
    BY <1>5, Zenon DEF StartReactor, StartOperation, PopFront, AtLoop, HasToken
  <1>6. CASE StartReactor(w)
    <2>1. HasToken(w)' /\ Head(operation_queue_) = NullTask /\ reactor_error' = reactor_error
      BY <1>2, <1>6, Zenon DEF StartReactor, Goto, HasToken, env
    <2>2. 1 \in QueuedTokens
      BY <1>1, <1>5, <1>6, <2>1 DEF QueuedTokens, Tokens
    <2>3. QueuedTokens' = {}
      BY <1>1, <1>5, <1>6, <2>1, TokensTail, Zenon DEF QueuedTokens, TokenInv, SingleReactorRunner
    <2>4. QED
      BY <1>3, <1>4, <1>5, <1>6, <2>1, <2>2, <2>3, Zenon
         DEF TokenInv, SingleReactorRunner, TokenNeedsReactor, TokenLostByError, TokenExists, StaysServed
  <1>7. CASE StartOperation(w)
    <2>1. ~HasToken(w)' /\ reactor_error' = reactor_error
      BY <1>2, <1>7, Zenon DEF StartOperation, Goto, HasToken, env
    <2>2. /\ \A i, k \in QueuedTokens' : i = k
          /\ QueuedTokens' # {} <=> QueuedTokens # {}
      <3>1. Head(operation_queue_) # NullTask
        BY <1>7, Zenon DEF StartOperation
      <3>2. QED
        BY <1>1, <1>5, <1>7, <3>1, TokensTail, Zenon DEF QueuedTokens, TokenInv, SingleReactorRunner
    <2>3. QED
      BY <1>3, <1>4, <1>5, <1>7, <2>1, <2>2, Zenon
         DEF TokenInv, SingleReactorRunner, TokenNeedsReactor, TokenLostByError, TokenExists, StaysServed
  <1>8. CASE FinishReactor(w)
    <2>1. HasToken(w) /\ ~HasToken(w)' /\ reactor_error' = reactor_error
      BY <1>2, <1>8, Zenon DEF FinishReactor, Goto, HasToken, env
    <2>2. operation_queue_' = Append(Transferred(w), NullTask)
      BY <1>8, Zenon DEF FinishReactor, TokenReturned
    <2>3. QueuedTokens = {}
      BY <2>1, Zenon DEF TokenInv, SingleReactorRunner
    <2>4. Transferred(w) \in Seq(Operations) /\ Tokens(Transferred(w)) = {}
      BY <1>1, <2>3, TokensConcat DEF Transferred, QueuedTokens, Operations
    <2>5. QueuedTokens' = {Len(Transferred(w)) + 1}
      BY <2>2, <2>4, TokensAppendNull, Zenon DEF QueuedTokens
    <2>6. QED
      BY <1>3, <1>4, <2>1, <2>5, Zenon
         DEF TokenInv, SingleReactorRunner, TokenNeedsReactor, TokenLostByError, TokenExists, StaysServed
  <1>9. CASE ReactorFail(w)
    <2>1. HasToken(w) /\ ~HasToken(w)' /\ QueuedTokens' = QueuedTokens /\ reactor_error'
      BY <1>2, <1>9, Zenon DEF ReactorFail, Goto, HasToken, QueuedTokens, shared
    <2>2. TokenExists /\ ~reactor_error
      BY <2>1, Zenon DEF TokenExists, TokenInv, TokenLostByError
    <2>3. ~TokenExists' /\ reactor_service_
      BY <1>3, <2>1, <2>2, Zenon DEF TokenExists, TokenInv, SingleReactorRunner, TokenNeedsReactor
    <2>4. QED
      BY <1>3, <1>4, <2>1, <2>2, <2>3, Zenon DEF TokenInv, SingleReactorRunner, TokenNeedsReactor, TokenLostByError, TokenExists, StaysServed
  <1>10. QED
    BY <1>6, <1>7, <1>8, <1>9, Zenon

(* ... and those that leave it where it is. *)
LEMMA TokenStays ==
  ASSUME TypeInv, TokenInv, NEW w \in Threads,
         \/ StopForLackOfJobs(w)
         \/ w \in Workers /\ Worker(w)
            /\ ~(StartReactor(w) \/ StartOperation(w) \/ FinishReactor(w) \/ ReactorFail(w))
  PROVE  TokenInv' /\ StaysServed
  <1>1. operation_queue_ \in Seq(Operations) /\ private_op_queue_[w] \in Seq(Jobs)
    BY Zenon DEF TypeInv, TypeOK
  <1>2. pc \in [Threads -> Labels] /\ Workers \subseteq Threads
    BY Zenon DEF TypeInv, TypeOK, Threads
  <1>3. operation_queue_' = operation_queue_ \/ operation_queue_' = Transferred(w)
    BY Zenon DEF StopForLackOfJobs, Worker, Step, Run, PostPrivate, DispatchInline, ReactorReady, Lock,
           Leave, WaitForWork, Woken, ReactorReturn, FinishOperation, AfterOperation,
           SpuriousWake, shared
  <1>4. QueuedTokens' = QueuedTokens
    BY <1>1, <1>3, TokensConcat, Zenon DEF QueuedTokens, Transferred
  <1>5. reactor_service_' = reactor_service_ /\ reactor_error' = reactor_error
    BY Zenon DEF StopForLackOfJobs, Worker, Step, Run, PostPrivate, DispatchInline, ReactorReady, Lock,
           Leave, WaitForWork, Woken, ReactorReturn, FinishOperation, AfterOperation,
           SpuriousWake, ReactorFail, shared, env
  <1>6. \A v \in Workers : HasToken(v)' <=> HasToken(v)
    BY <1>2, Zenon DEF StopForLackOfJobs, Worker, Step, Run, PostPrivate, DispatchInline, ReactorReady, Lock,
           Leave, WaitForWork, Woken, ReactorReturn, FinishOperation, AfterOperation,
           SpuriousWake, AtLoop, InOperation, local, Goto, HasToken
  <1>7. QED
    BY <1>4, <1>5, <1>6, TokenFrame, Zenon

LEMMA TokenNext == TypeInv /\ TokenInv /\ [Next]_vars => TokenInv' /\ StaysServed
  <1> SUFFICES ASSUME TypeInv, TokenInv, [Next]_vars PROVE TokenInv' /\ StaysServed
    BY Zenon
  <1>1. ASSUME NEW w \in Workers, Worker(w) PROVE TokenInv' /\ StaysServed
    BY <1>1, TokenMoves, TokenStays, Zenon DEF Threads
  <1>2. CASE UNCHANGED vars
    BY <1>2, TokenFrame, Zenon DEF vars, shared, local, env, QueuedTokens, HasToken
  <1>3. QED
    BY <1>1, <1>2, TokenClient, TokenCaller, TokenStays, Zenon DEF Next

LEMMA TokenInit == Init => TokenInv
  <1> SUFFICES ASSUME Init PROVE TokenInv
    BY Zenon
  <1>1. (\A w \in Workers : ~HasToken(w)) /\ ~reactor_error
    BY Zenon DEF Init, HasToken, Threads
  <1>2. CASE ReactorAtConstruction
    <2>1. reactor_service_ /\ operation_queue_ = <<NullTask>>
      BY <1>2, Zenon DEF Init
    <2>2. QueuedTokens = {1}
      BY <2>1 DEF QueuedTokens, Tokens
    <2>3. QED
      BY <1>1, <2>1, <2>2, Zenon
         DEF TokenInv, SingleReactorRunner, TokenNeedsReactor, TokenLostByError, TokenExists
  <1>3. CASE ~ReactorAtConstruction
    <2>1. QueuedTokens = {}
      BY <1>3 DEF Init, QueuedTokens, Tokens
    <2>2. QED
      BY <1>1, <2>1, Zenon
         DEF TokenInv, SingleReactorRunner, TokenNeedsReactor, TokenLostByError, TokenExists
  <1>4. QED
    BY <1>2, <1>3, Zenon

(* The comment `only one thread gets to execute the reactor Run()' is true *)
(* of every executor: the null task is in the queue once or in the hands   *)
(* of one worker, never both, however many workers, posts, stops, restarts *)
(* and failures of the reactor there are.                                  *)
THEOREM OnlyOneReactorRunner == Spec => []SingleReactorRunner
  <1>1. TokenInv => SingleReactorRunner
    BY Zenon DEF TokenInv
  <1>2. QED
    BY <1>1, TokenInit, TypeInit, TypeNext, TokenNext, PTL DEF Spec

(* A reactor that is served stays served: stops, restarts, transfers of    *)
(* private queues and returns from RunOne() never lose the null task, only *)
(* an error returned by the reactor does.                                  *)
THEOREM ExecutorReactorStaysServed == Spec => ReactorStaysServed
  <1>1. TypeInv /\ TokenInv /\ [Next]_vars
        => [TokenExists => TokenExists' \/ (reactor_error' /\ ~reactor_error)]_vars
    BY TokenNext, Zenon DEF StaysServed
  <1>2. QED
    BY <1>1, TokenInit, TypeInit, TypeNext, TokenNext, PTL DEF Spec, ReactorStaysServed

-----------------------------------------------------------------------------
(* No lost wake-up.                                                        *)

(* Threads that call Run() only, and a reactor that does not fail: the     *)
(* executor as a thread pool drives it.                                    *)
Pooled == ~RunOneAllowed /\ ~ReactorMayFail

Sleepers == {w \in Workers : pc[w] = "waiting"}

(* What WakeOne() relies on when it chooses between cv_ and the eventfd:   *)
(* the count is that of the threads in cv_.wait(), only those can be       *)
(* notified, and a reactor that blocks has asked to be interrupted.        *)
WaitersCounted == IsFiniteSet(Sleepers) /\ cv_wait_count_ = Cardinality(Sleepers)
BlockedAreSleepers == cvBlocked \subseteq Sleepers
BlockingIsInterruptible ==
    \A w \in Workers : pc[w] = "reactor" /\ blocking[w] => reactor_needs_interrupt_ /\ reactor_service_
NoRunOne == \A t \in Threads : ~runOne[t]
OnlyClientsPost == \A w \in Workers : pc[w] # "posting"

WakeInv ==
    /\ WaitersCounted /\ BlockedAreSleepers /\ BlockingIsInterruptible
    /\ NoRunOne /\ OnlyClientsPost /\ NoStrandedWork

(* Some worker looks at the queue again. *)
SomeoneAwake == \E w \in Workers : Awake(w) \/ pc[w] = "stopping"

(* The threads that wait are those that waited before. *)
LEMMA WaitersStay ==
  ASSUME WakeInv, Sleepers' = Sleepers, cv_wait_count_' = cv_wait_count_, cvBlocked' \subseteq cvBlocked
  PROVE  WaitersCounted' /\ BlockedAreSleepers'
  BY Zenon DEF WakeInv, WaitersCounted, BlockedAreSleepers

LEMMA WakesNone ==
  ASSUME WakeOne \/ WakeAll \/ DoNotWake \/ \E w \in Workers : SpuriousWake(w)
  PROVE  cvBlocked' \subseteq cvBlocked /\ (unblock_fd_ => unblock_fd_')
  <1>1. cvBlocked' \subseteq cvBlocked
    BY Zenon DEF WakeOne, WakeAll, DoNotWake, NotifyOne, SpuriousWake
  <1>2. unblock_fd_ => unblock_fd_'
    BY Zenon DEF WakeOne, WakeAll, DoNotWake, SpuriousWake
  <1>3. QED
    BY <1>1, <1>2, Zenon

(* No step of this kind puts a worker to sleep. *)
LEMMA StayAwake ==
  ASSUME \A w \in Workers : pc'[w] = pc[w] /\ blocking'[w] = blocking[w],
         \A w \in Workers : private_op_queue_[w] # <<>> => private_op_queue_'[w] # <<>>,
         cvBlocked' \subseteq cvBlocked, unblock_fd_ => unblock_fd_'
  PROVE  SomeoneAwake => SomeoneAwake'
  BY Zenon DEF SomeoneAwake, Awake

(* A push that is followed by WakeOne() leaves somebody awake, if any      *)
(* worker is in Run().                                                     *)
LEMMA WakeOneWakes ==
  ASSUME TypeInv, WakeInv, WakeOne,
         \A w \in Workers : pc'[w] = pc[w] /\ blocking'[w] = blocking[w],
         private_op_queue_' = private_op_queue_,
         NEW w \in Workers, InRun(w)
  PROVE  SomeoneAwake'
  <1>1. cvBlocked' \subseteq cvBlocked /\ (unblock_fd_ => unblock_fd_')
    BY WakesNone, Zenon
  <1>2. CASE SomeoneAwake
    BY <1>1, <1>2, StayAwake, Zenon
  <1>3. CASE ~SomeoneAwake
    <2>1. CASE cv_wait_count_ # 0
      <3>1. PICK v \in Workers : pc[v] = "waiting"
        <4>1. Sleepers # {}
          BY <2>1, FS_EmptySet, Zenon DEF WakeInv, WaitersCounted
        <4>2. QED
          BY <4>1, Zenon DEF Sleepers
      <3>2. v \in cvBlocked
        BY <1>3, <3>1, Zenon DEF SomeoneAwake, Awake
      <3>3. PICK u \in cvBlocked : cvBlocked' = cvBlocked \ {u}
        BY <2>1, <3>2, Zenon DEF WakeOne, NotifyOne
      <3>4. u \in Workers /\ pc'[u] = "waiting" /\ u \notin cvBlocked'
        BY <3>3, Zenon DEF WakeInv, BlockedAreSleepers, Sleepers
      <3>5. QED
        BY <3>4, Zenon DEF SomeoneAwake, Awake
    <2>2. CASE cv_wait_count_ = 0
      <3>1. Sleepers = {}
        BY <2>2, FS_EmptySet, Zenon DEF WakeInv, WaitersCounted
      <3>2. pc[w] \in Labels \ {"waiting", "out"}
        BY <3>1, Zenon DEF Sleepers, InRun, TypeInv, TypeOK, Threads
      <3>3. pc[w] # "posting"
        BY Zenon DEF WakeInv, OnlyClientsPost
      <3>4. pc[w] = "reactor" /\ blocking[w]
        BY <1>3, <3>2, <3>3, Zenon DEF SomeoneAwake, Awake, Labels
      <3>5. unblock_fd_'
        BY <2>2, <3>4, Zenon DEF WakeOne, WakeInv, BlockingIsInterruptible
      <3>6. QED
        BY <3>4, <3>5, Zenon DEF SomeoneAwake, Awake
    <2>3. QED
      BY <2>1, <2>2, Zenon
  <1>4. QED
    BY <1>2, <1>3, Zenon

(* A step in which no worker moves. *)
LEMMA WakeQuiet ==
  ASSUME WakeInv, UNCHANGED <<blocking, runOne, cv_wait_count_, reactor_needs_interrupt_>>,
         \A w \in Workers : pc'[w] = pc[w],
         \A w \in Workers : private_op_queue_[w] # <<>> => private_op_queue_'[w] # <<>>,
         reactor_service_ => reactor_service_', 
         WakeOne \/ WakeAll \/ DoNotWake \/ \E w \in Workers : SpuriousWake(w),
         \/ UNCHANGED <<operation_queue_, stop_requested_>>
         \/ stop_requested_'
         \/ (\E w \in Workers : InRun(w)) => SomeoneAwake'
  PROVE  WakeInv'
  <1>1. cvBlocked' \subseteq cvBlocked /\ (unblock_fd_ => unblock_fd_')
    BY WakesNone, Zenon
  <1>2. Sleepers' = Sleepers
    BY Zenon DEF Sleepers
  <1>3. WaitersCounted' /\ BlockedAreSleepers'
    BY <1>1, <1>2, WaitersStay, Zenon
  <1>4. BlockingIsInterruptible' /\ NoRunOne' /\ OnlyClientsPost'
    BY Zenon DEF WakeInv, BlockingIsInterruptible, NoRunOne, OnlyClientsPost
  <1>5. SomeoneAwake => SomeoneAwake'
    BY <1>1, StayAwake, Zenon
  <1>6. (\E w \in Workers : InRun(w))' <=> \E w \in Workers : InRun(w)
    BY Zenon DEF InRun
  <1>7. NoStrandedWork'
    BY <1>5, <1>6, Zenon DEF WakeInv, NoStrandedWork, SomeoneAwake
  <1>8. QED
    BY <1>3, <1>4, <1>7, Zenon DEF WakeInv

LEMMA WakeClient ==
  ASSUME TypeInv, WakeInv, NEW c \in Clients, Client(c)
  PROVE  WakeInv'
  <1>1. \A w \in Workers : pc'[w] = pc[w]
    <2>1. pc' = pc \/ \E l \in Labels : pc' = [pc EXCEPT ![c] = l]
      BY Zenon DEF Client, Post, PostEnqueue, GuardCreate, GuardDestroy, Restart, Labels, Goto, local
    <2>2. QED
      BY <2>1, ThreadsAssumption, Zenon DEF TypeInv, TypeOK, Threads
  <1>2. /\ UNCHANGED <<blocking, runOne, cv_wait_count_, reactor_needs_interrupt_>>
        /\ UNCHANGED <<reactor_service_, private_op_queue_>>
    BY Zenon DEF Client, Post, PostEnqueue, GuardCreate, GuardDestroy, Restart, local, env
  <1>3. CASE PostEnqueue(c)
    <2>1. WakeOne
      BY <1>3, Zenon DEF PostEnqueue, EnqueueLocked
    <2>2. (\E w \in Workers : InRun(w)) => SomeoneAwake'
      BY <1>1, <1>2, <2>1, WakeOneWakes, Zenon
    <2>3. QED
      BY <1>1, <1>2, <2>1, <2>2, WakeQuiet, Zenon
  <1>4. CASE Restart(c)
    <2>1. DoNotWake /\ ~\E w \in Workers : InRun(w)
      BY <1>4, Zenon DEF Restart, DoNotWake
    <2>2. QED
      BY <1>1, <1>2, <2>1, WakeQuiet, Zenon
  <1>5. CASE ~PostEnqueue(c) /\ ~Restart(c)
    <2>1. DoNotWake /\ UNCHANGED <<operation_queue_, stop_requested_>>
      BY <1>5, Zenon DEF Client, Post, GuardCreate, GuardDestroy, DoNotWake
    <2>2. QED
      BY <1>1, <1>2, <2>1, WakeQuiet, Zenon
  <1>6. QED
    BY <1>3, <1>4, <1>5, Zenon

LEMMA WakeCaller ==
  ASSUME TypeInv, WakeInv, NEW t \in Threads, Caller(t)
  PROVE  WakeInv'
  <1>1. /\ UNCHANGED <<pc, blocking, runOne, cv_wait_count_, reactor_needs_interrupt_>>
        /\ reactor_service_ => reactor_service_'
    <2>1. CASE UseReactorService(t)
      BY <2>1, Zenon DEF UseReactorService, local
    <2>2. CASE Stop(t)
      BY <2>2, Zenon DEF Stop, local
    <2>3. ASSUME NEW j \in Jobs, StartAsync(t, j) \/ PostImmediate(t, j)
          PROVE  UNCHANGED <<local, cv_wait_count_, reactor_needs_interrupt_, reactor_service_>>
      BY <2>3, Zenon DEF StartAsync, PostImmediate
    <2>4. ASSUME NEW j \in Jobs, EnqueuePostJobArrival(t, j)
          PROVE  UNCHANGED <<pc, blocking, runOne, cv_wait_count_, reactor_needs_interrupt_,
                             reactor_service_>>
      BY <2>4, Zenon DEF EnqueuePostJobArrival
    <2>5. QED
      BY <2>1, <2>2, <2>3, <2>4, Zenon DEF Caller, local
  <1>2. ASSUME UNCHANGED private_op_queue_, WakeOne PROVE WakeInv'
    <2>1. (\E w \in Workers : InRun(w)) => SomeoneAwake'
      BY <1>1, <1>2, WakeOneWakes, Zenon
    <2>2. QED
      BY <1>1, <1>2, <2>1, WakeQuiet, Zenon
  <1>3. ASSUME UNCHANGED <<private_op_queue_, operation_queue_, stop_requested_>>, DoNotWake
        PROVE  WakeInv'
    BY <1>1, <1>3, WakeQuiet, Zenon
  <1>4. ASSUME NEW j \in Jobs, StartAsync(t, j) PROVE WakeInv'
    BY <1>3, <1>4, Zenon DEF StartAsync, DoNotWake, local
  <1>5. ASSUME NEW j \in Jobs, EnqueuePostJobArrival(t, j) PROVE WakeInv'
    <2>1. CASE InOperation(t) /\ single_thread_
      <3>1. /\ private_op_queue_' = [private_op_queue_ EXCEPT ![t] = Append(@, j)] /\ DoNotWake
            /\ UNCHANGED <<operation_queue_, stop_requested_>>
        BY <1>5, <2>1, Zenon DEF EnqueuePostJobArrival, DoNotWake
      <3>2. \A w \in Workers : private_op_queue_[w] # <<>> => private_op_queue_'[w] # <<>>
        BY <3>1 DEF TypeInv, TypeOK, Threads
      <3>3. QED
        BY <1>1, <3>1, <3>2, WakeQuiet, Zenon
    <2>2. CASE ~(InOperation(t) /\ single_thread_)
      BY <1>2, <1>5, <2>2, Zenon DEF EnqueuePostJobArrival, EnqueueLocked
    <2>3. QED
      BY <2>1, <2>2, Zenon
  <1>6. ASSUME NEW j \in Jobs, PostImmediate(t, j) PROVE WakeInv'
    BY <1>2, <1>6, Zenon DEF PostImmediate, EnqueueLocked, local
  <1>7. CASE Stop(t)
    <2>1. WakeAll /\ stop_requested_' /\ UNCHANGED private_op_queue_
      BY <1>7, Zenon DEF Stop, StopLocked, local
    <2>2. QED
      BY <1>1, <2>1, WakeQuiet, Zenon
  <1>8. CASE UseReactorService(t)
    <2>1. UNCHANGED private_op_queue_ /\ (WakeOne \/ (DoNotWake /\ UNCHANGED <<operation_queue_, stop_requested_>>))
      BY <1>8, Zenon DEF UseReactorService, StartReactorTask, local
    <2>2. QED
      BY <1>2, <1>3, <2>1, Zenon
  <1>9. QED
    BY <1>4, <1>5, <1>6, <1>7, <1>8, Zenon DEF Caller

(* A worker moves, and is awake afterwards or has nothing left to do. *)
LEMMA WakeMove ==
  ASSUME TypeInv, WakeInv, NEW w \in Workers, NEW l \in Labels \ {"waiting", "posting"},
         pc[w] # "waiting", pc' = [pc EXCEPT ![w] = l], UNCHANGED cv_wait_count_,
         cvBlocked' \subseteq cvBlocked, NoRunOne', BlockingIsInterruptible',
         Awake(w)' \/ l = "stopping" \/ operation_queue_' = <<>> \/ stop_requested_'
  PROVE  WakeInv'
  <1>1. pc'[w] = l /\ \A v \in Threads \ {w} : pc'[v] = pc[v]
    BY Zenon DEF TypeInv, TypeOK, Threads
  <1>2. Sleepers' = Sleepers /\ OnlyClientsPost'
    BY <1>1, Zenon DEF Sleepers, WakeInv, OnlyClientsPost, Threads
  <1>3. WaitersCounted' /\ BlockedAreSleepers'
    BY <1>2, WaitersStay, Zenon
  <1>4. NoStrandedWork'
    BY <1>1, Zenon DEF NoStrandedWork
  <1>5. QED
    BY <1>2, <1>3, <1>4, Zenon DEF WakeInv

(* What keeps a blocking reactor interruptible: the flag is reset only by  *)
(* the thread that has the token.                                          *)
LEMMA StaysInterruptible ==
  ASSUME TypeInv, TokenInv, WakeInv, NEW w \in Workers, NEW l \in Labels, pc' = [pc EXCEPT ![w] = l],
         UNCHANGED reactor_service_, \A v \in Workers \ {w} : blocking'[v] = blocking[v],
         l # "reactor", UNCHANGED reactor_needs_interrupt_ \/ HasToken(w)
  PROVE  BlockingIsInterruptible'
  <1> SUFFICES ASSUME NEW v \in Workers, pc'[v] = "reactor", blocking'[v]
               PROVE  reactor_needs_interrupt_' /\ reactor_service_'
    BY Zenon DEF BlockingIsInterruptible
  <1>1. v # w /\ pc[v] = "reactor" /\ blocking[v]
    BY Zenon DEF TypeInv, TypeOK, Threads
  <1>2. reactor_needs_interrupt_ /\ reactor_service_
    BY <1>1, Zenon DEF WakeInv, BlockingIsInterruptible
  <1>3. ~HasToken(w)
    BY <1>1, Zenon DEF HasToken, TokenInv, SingleReactorRunner
  <1>4. QED
    BY <1>2, <1>3, Zenon

LEMMA WakeEnter ==
  ASSUME Pooled, TypeInv, TokenInv, WakeInv, NEW w \in Workers,
         (\E one \in BOOLEAN : Run(w, one)) \/ Lock(w) \/ Leave(w)
  PROVE  WakeInv'
  <1>1. PICK l \in {"stopping", "enter", "loop", "out"} : pc' = [pc EXCEPT ![w] = l]
                /\ (l = "out" => stop_requested_')
    <2>1. CASE \E one \in BOOLEAN : Run(w, one)
      BY <2>1, Zenon DEF Run, Goto
    <2>2. CASE Lock(w)
      BY <2>2, Zenon DEF Lock, Goto
    <2>3. CASE Leave(w)
      BY <2>3, Zenon DEF Leave, Goto, WakeInv, NoRunOne, Threads
    <2>4. QED
      BY <2>1, <2>2, <2>3, Zenon
  <1>2. /\ pc[w] # "waiting"
        /\ UNCHANGED <<cv_wait_count_, cvBlocked, reactor_service_, reactor_needs_interrupt_, blocking>>
    BY Zenon DEF Run, Lock, Leave, AtLoop, shared
  <1>3. NoRunOne'
    <2>1. runOne' = runOne \/ runOne' = [runOne EXCEPT ![w] = FALSE]
      BY Zenon DEF Run, Lock, Leave, Pooled
    <2>2. QED
      BY <2>1, Zenon DEF WakeInv, NoRunOne, TypeInv, TypeOK
  <1>4. BlockingIsInterruptible'
    BY <1>1, <1>2, StaysInterruptible, Zenon DEF Labels
  <1>5. pc'[w] = l
    BY <1>1, Zenon DEF TypeInv, TypeOK, Threads
  <1>6. Awake(w)' \/ l = "stopping" \/ stop_requested_'
    BY <1>1, <1>5, Zenon DEF Awake
  <1>7. QED
    BY <1>1, <1>2, <1>3, <1>4, <1>6, WakeMove, Zenon DEF Labels

(* Into cv_.wait(), out of it, and back to sleep. *)
LEMMA WakeWait ==
  ASSUME TypeInv, TokenInv, WakeInv, NEW w \in Workers, WaitForWork(w) \/ Woken(w)
  PROVE  WakeInv'
  <1>1. /\ UNCHANGED <<operation_queue_, blocking, runOne, reactor_service_, reactor_needs_interrupt_>>
        /\ NoRunOne'
    BY Zenon DEF WaitForWork, Woken, WakeInv, NoRunOne
  <1>2. CASE WaitForWork(w)
    <2>1. /\ pc' = [pc EXCEPT ![w] = "waiting"] /\ operation_queue_' = <<>> /\ pc[w] = "loop"
          /\ cv_wait_count_' = cv_wait_count_ + 1 /\ cvBlocked' = cvBlocked \cup {w}
      BY <1>2, Zenon DEF WaitForWork, AtLoop, Goto
    <2>2. Sleepers' = Sleepers \cup {w} /\ w \notin Sleepers
      BY <2>1, Zenon DEF Sleepers, TypeInv, TypeOK, Threads
    <2>3. WaitersCounted' /\ BlockedAreSleepers'
      BY <2>1, <2>2, FS_AddElement, Zenon DEF WakeInv, WaitersCounted, BlockedAreSleepers
    <2>4. BlockingIsInterruptible'
      BY <1>1, <2>1, StaysInterruptible, Zenon DEF Labels
    <2>5. OnlyClientsPost'
      BY <2>1, Zenon DEF WakeInv, OnlyClientsPost, TypeInv, TypeOK, Threads
    <2>6. QED
      BY <1>1, <2>1, <2>3, <2>4, <2>5, Zenon DEF WakeInv, NoStrandedWork
  <1>3. CASE Woken(w) /\ operation_queue_ = <<>>
    <2>1. UNCHANGED <<pc, cv_wait_count_>> /\ cvBlocked' = cvBlocked \cup {w} /\ pc[w] = "waiting"
      BY <1>3, Zenon DEF Woken
    <2>2. Sleepers' = Sleepers /\ w \in Sleepers
      BY <2>1, Zenon DEF Sleepers
    <2>3. WaitersCounted' /\ BlockedAreSleepers'
      BY <2>1, <2>2, Zenon DEF WakeInv, WaitersCounted, BlockedAreSleepers
    <2>4. QED
      BY <1>1, <1>3, <2>1, <2>3, Zenon
      DEF WakeInv, NoStrandedWork, BlockingIsInterruptible, OnlyClientsPost
  <1>4. CASE Woken(w) /\ operation_queue_ # <<>>
    <2>1. /\ pc' = [pc EXCEPT ![w] = "loop"] /\ UNCHANGED cvBlocked /\ pc[w] = "waiting"
          /\ cv_wait_count_' = cv_wait_count_ - 1 /\ w \notin cvBlocked
      BY <1>4, Zenon DEF Woken, Goto
    <2>2. Sleepers' = Sleepers \ {w} /\ w \in Sleepers /\ pc'[w] = "loop"
      BY <2>1, Zenon DEF Sleepers, TypeInv, TypeOK, Threads
    <2>3. WaitersCounted' /\ BlockedAreSleepers'
      BY <2>1, <2>2, FS_RemoveElement, Zenon DEF WakeInv, WaitersCounted, BlockedAreSleepers
    <2>4. BlockingIsInterruptible'
      BY <1>1, <2>1, StaysInterruptible, Zenon DEF Labels
    <2>5. OnlyClientsPost'
      BY <2>1, Zenon DEF WakeInv, OnlyClientsPost, TypeInv, TypeOK, Threads
    <2>6. NoStrandedWork'
      BY <2>2, Zenon DEF NoStrandedWork, Awake
    <2>7. QED
      BY <1>1, <2>3, <2>4, <2>5, <2>6, Zenon DEF WakeInv
  <1>5. QED
    BY <1>2, <1>3, <1>4, Zenon

(* Whatever is left in the queue is looked at by the worker that popped    *)
(* its front: it does not block.                                           *)
LEMMA WakePop ==
  ASSUME TypeInv, TokenInv, WakeInv, NEW w \in Workers, StartOperation(w) \/ StartReactor(w)
  PROVE  WakeInv'
  <1>1. /\ pc[w] = "loop" /\ operation_queue_' = Tail(operation_queue_) /\ operation_queue_ # <<>>
        /\ UNCHANGED <<runOne, cv_wait_count_, reactor_service_>> /\ (WakeOne \/ DoNotWake)
    BY Zenon DEF StartOperation, StartReactor, PopFront, AtLoop
  <1>2. NoRunOne' /\ cvBlocked' \subseteq cvBlocked
    BY <1>1, WakesNone, Zenon DEF WakeInv, NoRunOne
  <1>3. CASE StartOperation(w)
    <2>1. pc' = [pc EXCEPT ![w] = "running"] /\ UNCHANGED <<blocking, reactor_needs_interrupt_>>
      BY <1>3, Zenon DEF StartOperation, Goto
    <2>2. Awake(w)'
      BY <2>1, Zenon DEF Awake, TypeInv, TypeOK, Threads
    <2>3. BlockingIsInterruptible'
      BY <1>1, <2>1, StaysInterruptible, Zenon DEF Labels
    <2>4. QED
      BY <1>1, <1>2, <2>1, <2>2, <2>3, WakeMove, Zenon DEF Labels
  <1>4. CASE StartReactor(w)
    <2>1. /\ pc' = [pc EXCEPT ![w] = "reactor"] /\ Head(operation_queue_) = NullTask
          /\ blocking' = [blocking EXCEPT ![w] = (operation_queue_' = <<>>)]
          /\ reactor_needs_interrupt_' = (operation_queue_' = <<>>)
      BY <1>1, <1>4, Zenon DEF StartReactor, Goto
    <2>2. /\ pc'[w] = "reactor" /\ blocking'[w] = (operation_queue_' = <<>>)
          /\ \A v \in Workers \ {w} : pc'[v] = pc[v] /\ blocking'[v] = blocking[v]
      BY <2>1, Zenon DEF TypeInv, TypeOK, Threads
    <2>3. Awake(w)' \/ operation_queue_' = <<>>
      BY <2>2, Zenon DEF Awake
    <2>4. 1 \in QueuedTokens
      BY <1>1, <2>1 DEF QueuedTokens, Tokens, TypeInv, TypeOK
    <2>5. reactor_service_ /\ \A v \in Workers : pc[v] # "reactor"
      BY <2>4, Zenon DEF TokenInv, TokenNeedsReactor, TokenExists, SingleReactorRunner, HasToken
    <2>6. BlockingIsInterruptible'
      BY <1>1, <2>1, <2>2, <2>5, Zenon DEF BlockingIsInterruptible
    <2>7. QED
      BY <1>1, <1>2, <2>1, <2>3, <2>6, WakeMove, Zenon DEF Labels
  <1>5. QED
    BY <1>3, <1>4, Zenon

LEMMA WakeReactor ==
  ASSUME TypeInv, TokenInv, WakeInv, NEW w \in Workers, ReactorReturn(w) \/ FinishReactor(w)
  PROVE  WakeInv'
  <1>1. PICK l \in {"reactor_done", "loop"} : pc' = [pc EXCEPT ![w] = l]
    BY Zenon DEF ReactorReturn, FinishReactor, Goto
  <1>2. /\ HasToken(w) /\ pc[w] # "waiting"
        /\ UNCHANGED <<runOne, cv_wait_count_, reactor_service_, cvBlocked>>
    BY Zenon DEF ReactorReturn, FinishReactor, HasToken
  <1>3. \A v \in Workers \ {w} : blocking'[v] = blocking[v]
    BY Zenon DEF ReactorReturn, FinishReactor, TypeInv, TypeOK, Threads
  <1>4. BlockingIsInterruptible'
    BY <1>1, <1>2, <1>3, StaysInterruptible, Zenon DEF Labels
  <1>5. Awake(w)' /\ NoRunOne'
    <2>1. Awake(w)'
      BY <1>1, Zenon DEF Awake, TypeInv, TypeOK, Threads
    <2>2. NoRunOne'
      BY <1>2, Zenon DEF WakeInv, NoRunOne
    <2>3. QED
      BY <2>1, <2>2, Zenon
  <1>6. QED
    BY <1>1, <1>2, <1>4, <1>5, WakeMove, Zenon DEF Labels

LEMMA WakeOperation ==
  ASSUME TypeInv, TokenInv, WakeInv, NEW w \in Workers, FinishOperation(w) \/ AfterOperation(w)
  PROVE  WakeInv'
  <1>1. PICK l \in {"op_stop", "op_done", "loop"} : pc' = [pc EXCEPT ![w] = l]
    BY Zenon DEF FinishOperation, AfterOperation, Goto, WakeInv, NoRunOne, Threads
  <1>2. /\ pc[w] # "waiting"
        /\ UNCHANGED <<blocking, cv_wait_count_, reactor_service_, reactor_needs_interrupt_, cvBlocked>>
    BY Zenon DEF FinishOperation, AfterOperation, InOperation
  <1>3. NoRunOne'
    <2>1. runOne' = runOne \/ runOne' = [runOne EXCEPT ![w] = FALSE]
      BY Zenon DEF FinishOperation, AfterOperation
    <2>2. QED
      BY <2>1, Zenon DEF WakeInv, NoRunOne, TypeInv, TypeOK
  <1>4. BlockingIsInterruptible'
    BY <1>1, <1>2, StaysInterruptible, Zenon DEF Labels
  <1>5. Awake(w)'
    BY <1>1, Zenon DEF Awake, TypeInv, TypeOK, Threads
  <1>6. QED
    BY <1>1, <1>2, <1>3, <1>4, <1>5, WakeMove, Zenon DEF Labels

LEMMA WakeWithin ==
  ASSUME TypeInv, WakeInv, NEW w \in Workers,
         \/ \E j \in Jobs : PostPrivate(w, j) \/ DispatchInline(w, j) \/ ReactorReady(w, j)
         \/ SpuriousWake(w)
  PROVE  WakeInv'
  <1>1. /\ UNCHANGED <<pc, blocking, runOne, operation_queue_, stop_requested_, reactor_service_>>
        /\ UNCHANGED <<cv_wait_count_, reactor_needs_interrupt_>>
    BY Zenon DEF PostPrivate, DispatchInline, ReactorReady, SpuriousWake, local, shared
  <1>2. DoNotWake \/ SpuriousWake(w)
    BY Zenon DEF PostPrivate, DispatchInline, ReactorReady, DoNotWake, shared
  <1>3. \A v \in Workers : private_op_queue_[v] # <<>> => private_op_queue_'[v] # <<>>
    <2>1. CASE UNCHANGED private_op_queue_
      BY <2>1, Zenon
    <2>2. ASSUME NEW j \in Jobs, private_op_queue_' = [private_op_queue_ EXCEPT ![w] = Append(@, j)]
          PROVE  \A v \in Workers : private_op_queue_[v] # <<>> => private_op_queue_'[v] # <<>>
      <3>1. private_op_queue_ \in [Threads -> Seq(Jobs)] /\ Workers \subseteq Threads
        BY Zenon DEF TypeInv, TypeOK, Threads
      <3>2. \A q \in Seq(Jobs) : Append(q, j) # <<>>
        OBVIOUS
      <3>3. QED
        BY <2>2, <3>1, <3>2, Zenon
    <2>3. QED
      BY <2>1, <2>2, Zenon DEF PostPrivate, DispatchInline, ReactorReady, SpuriousWake, local
  <1>4. QED
    BY <1>1, <1>2, <1>3, WakeQuiet, Zenon

LEMMA WakeStop ==
  ASSUME TypeInv, TokenInv, WakeInv, NEW t \in Threads, StopForLackOfJobs(t)
  PROVE  WakeInv'
  <1>1. /\ WakeAll /\ stop_requested_' /\ pc[t] # "waiting"
        /\ UNCHANGED <<blocking, cv_wait_count_, reactor_service_, reactor_needs_interrupt_, private_op_queue_>>
    BY Zenon DEF StopForLackOfJobs, StopLocked
  <1>2. PICK l \in {"out", "op_done"} : pc' = [pc EXCEPT ![t] = l]
    BY Zenon DEF StopForLackOfJobs, Goto
  <1>3. \A u \in Threads : ~runOne'[u]
    BY Zenon DEF StopForLackOfJobs, WakeInv, NoRunOne, TypeInv, TypeOK
  <1>4. cvBlocked' \subseteq cvBlocked
    BY <1>1, WakesNone, Zenon
  <1>5. CASE t \in Workers
    <2>1. BlockingIsInterruptible'
      BY <1>1, <1>2, <1>5, StaysInterruptible, Zenon DEF Labels
    <2>2. QED
      BY <1>1, <1>2, <1>3, <1>4, <1>5, <2>1, WakeMove, Zenon DEF Labels, NoRunOne
  <1>6. CASE t \notin Workers
    <2>1. \A v \in Workers : pc'[v] = pc[v]
      BY <1>2, <1>6, Zenon DEF TypeInv, TypeOK, Threads
    <2>2. runOne' = runOne
      BY <1>3, Zenon DEF StopForLackOfJobs, WakeInv, NoRunOne, TypeInv, TypeOK
    <2>3. QED
      BY <1>1, <2>1, <2>2, WakeQuiet, Zenon
  <1>7. QED
    BY <1>5, <1>6, Zenon

LEMMA WakeInit == Init => WakeInv
  <1> SUFFICES ASSUME Init PROVE WakeInv
    BY Zenon
  <1>1. \A t \in Threads : pc[t] = "out" /\ ~runOne[t]
    BY Zenon DEF Init
  <1>2. Sleepers = {}
    BY <1>1, Zenon DEF Sleepers, Threads
  <1>3. WaitersCounted /\ BlockedAreSleepers
    BY <1>2, FS_EmptySet, Zenon DEF WaitersCounted, BlockedAreSleepers, Init
  <1>4. BlockingIsInterruptible /\ NoRunOne /\ OnlyClientsPost
    BY <1>1, Zenon DEF BlockingIsInterruptible, NoRunOne, OnlyClientsPost, Threads
  <1>5. NoStrandedWork
    BY <1>1, Zenon DEF NoStrandedWork, InRun, Threads
  <1>6. QED
    BY <1>3, <1>4, <1>5, Zenon DEF WakeInv

LEMMA WakeNext == Pooled /\ TypeInv /\ TokenInv /\ WakeInv /\ [Next]_vars => WakeInv'
  <1> SUFFICES ASSUME Pooled, TypeInv, TokenInv, WakeInv, [Next]_vars PROVE WakeInv'
    BY Zenon
  <1>1. ASSUME NEW w \in Workers, Worker(w) PROVE WakeInv'
    BY <1>1, WakeEnter, WakeWait, WakePop, WakeReactor, WakeOperation, WakeWithin, Zenon
    DEF Worker, Step, Pooled, ReactorFail
  <1>2. CASE UNCHANGED vars
    BY <1>2, WakeQuiet, Zenon DEF vars, shared, local, env, DoNotWake
  <1>3. QED
    BY <1>1, <1>2, WakeClient, WakeCaller, WakeStop, Zenon DEF Next

(* An executor that is run as a thread pool never leaves an operation in   *)
(* the queue while all of its threads sleep: the push of Post(), of        *)
(* EnqueuePostJobArrival() or of the reactor's null task always leaves a   *)
(* thread that will look at the queue.                                     *)
THEOREM ExecutorNoStrandedWork == ASSUME Pooled PROVE Spec => []NoStrandedWork
  <1>1. Init => TypeInv /\ TokenInv /\ WakeInv
    BY TypeInit, TokenInit, WakeInit, Zenon
  <1>2. TypeInv /\ TokenInv /\ WakeInv /\ [Next]_vars => (TypeInv /\ TokenInv /\ WakeInv)'
    BY TypeNext, TokenNext, WakeNext, Zenon
  <1>3. WakeInv => NoStrandedWork
    BY Zenon DEF WakeInv
  <1>4. QED
    BY <1>1, <1>2, <1>3, PTL DEF Spec

=============================================================================
