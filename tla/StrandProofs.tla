---------------------------- MODULE StrandProofs ----------------------------
(***************************************************************************)
(* Proofs about Strand, for any number of threads, strands and jobs.       *)
(***************************************************************************)
EXTENDS Strand, SequenceTheorems, TLAPS

LEMMA FrontType ==
  ASSUME NEW S, NEW q \in Seq(S), q # <<>>
  PROVE  /\ SubSeq(q, 1, Len(q) - 1) \in Seq(S)
         /\ Len(SubSeq(q, 1, Len(q) - 1)) = Len(q) - 1
         /\ \A i \in 1..Len(q) - 1 : SubSeq(q, 1, Len(q) - 1)[i] = q[i]
         /\ q[Len(q)] \in S
  BY SubSeqProperties

LEMMA TypeNext == TypeOK /\ [Next]_vars => TypeOK'
  <1> SUFFICES ASSUME TypeOK, [Next]_vars PROVE TypeOK'
    BY Zenon
  <1> USE StrandAssumption DEF TypeOK
  <1>1. ASSUME NEW t \in Threads, NEW s \in Strands, NEW j \in Jobs, Post(t, s, j)
        PROVE  TypeOK'
    BY <1>1 DEF Post, Enqueue
  <1>2. ASSUME NEW t \in Threads, NEW s \in Strands, NEW j \in Jobs, DispatchDirect(t, s, j)
        PROVE  TypeOK'
    <2>1. Append(nest[t], <<s, j>>) \in Seq(Strands \X Jobs)
      OBVIOUS
    <2>2. QED
      BY <1>2, <2>1, Zenon DEF DispatchDirect
  <1>3. ASSUME NEW t \in Threads, NEW s \in Strands, NEW j \in Jobs, DispatchEnqueue(t, s, j)
        PROVE  TypeOK'
    BY <1>3 DEF DispatchEnqueue, Enqueue
  <1>4. ASSUME NEW t \in Threads, NEW s \in Strands, NEW j \in Jobs, DispatchNow(t, s, j)
        PROVE  TypeOK'
    <2>1. <<<<s, j>>>> \in Seq(Strands \X Jobs)
      OBVIOUS
    <2>2. QED
      BY <1>4, <2>1, Zenon DEF DispatchNow
  <1>5. ASSUME NEW t \in Threads, PostTrigger(t) PROVE TypeOK'
    BY <1>5 DEF PostTrigger
  <1>6. ASSUME NEW t \in Threads, FinishTask(t) \/ RunTask(t) PROVE TypeOK'
    BY <1>6, Zenon DEF FinishTask, RunTask
  <1>7. ASSUME NEW t \in Threads, FinishJob(t) PROVE TypeOK'
    <2>1. /\ SubSeq(nest[t], 1, Len(nest[t]) - 1) \in Seq(Strands \X Jobs)
          /\ nest[t][Len(nest[t])] \in Strands \X Jobs
      BY <1>7, FrontType, Zenon DEF FinishJob
    <2>2. nest[t][Len(nest[t])][2] \in Jobs
      BY <2>1, Zenon
    <2>3. QED
      BY <1>7, <2>1, <2>2, Zenon DEF FinishJob
  <1>8. ASSUME NEW t \in Threads, NEW s \in Strands, ExecutePendingJobs(t, s) PROVE TypeOK'
    BY <1>8 DEF ExecutePendingJobs
  <1>9. ASSUME NEW t \in Threads, NEW s \in Strands, NextJob(t, s) PROVE TypeOK'
    <2>1. Head(jobs_[s]) \in Jobs /\ Tail(jobs_[s]) \in Seq(Jobs)
      BY <1>9 DEF NextJob
    <2>2. <<<<s, Head(jobs_[s])>>>> \in Seq(Strands \X Jobs)
      BY <2>1
    <2>3. QED
      BY <1>9, <2>1, <2>2, Zenon DEF NextJob
  <1>10. ASSUME NEW t \in Threads, NEW s \in Strands, NoMoreJobs(t, s) PROVE TypeOK'
    BY <1>10, Zenon DEF NoMoreJobs
  <1>11. CASE UNCHANGED vars
    BY <1>11, Zenon DEF vars
  <1>12. QED
    BY <1>1, <1>2, <1>3, <1>4, <1>5, <1>6, <1>7, <1>8, <1>9, <1>10, <1>11, Zenon DEF Next, Call, Work

(* Every reachable state of the strands is well typed. *)
THEOREM StrandTypes == Spec => []TypeOK
  <1>1. Init => TypeOK
    BY DEF Init, TypeOK
  <1>2. QED
    BY <1>1, TypeNext, PTL DEF Spec

-----------------------------------------------------------------------------
(* One is responsible for a running strand. *)

RunnerInv == MarkerInv /\ OneResponsible

LEMMA RunnerNext == TypeOK /\ RunnerInv /\ [Next]_vars => RunnerInv'
  <1> SUFFICES ASSUME TypeOK, RunnerInv, [Next]_vars PROVE RunnerInv'
    BY Zenon
  <1> USE StrandAssumption DEF TypeOK, RunnerInv, MarkerInv, OneResponsible, Responsible
  <1>1. ASSUME NEW t \in Threads, NEW s \in Strands, NEW j \in Jobs, Post(t, s, j)
        PROVE  RunnerInv'
    <2>1. trigger[t] = NoStrand
      BY <1>1, Zenon DEF Post, Calling
    <2>2. CASE is_running_[s]
      BY <1>1, <2>1, <2>2 DEF Post, Enqueue
    <2>3. CASE ~is_running_[s]
      BY <1>1, <2>1, <2>3 DEF Post, Enqueue
    <2>4. QED
      BY <2>2, <2>3, Zenon
  <1>2. ASSUME NEW t \in Threads, NEW s \in Strands, NEW j \in Jobs, DispatchDirect(t, s, j)
        PROVE  RunnerInv'
    BY <1>2 DEF DispatchDirect, IsContinuation
  <1>3. ASSUME NEW t \in Threads, NEW s \in Strands, NEW j \in Jobs, DispatchEnqueue(t, s, j)
        PROVE  RunnerInv'
    BY <1>3 DEF DispatchEnqueue, Enqueue
  <1>4. ASSUME NEW t \in Threads, NEW s \in Strands, NEW j \in Jobs, DispatchNow(t, s, j)
        PROVE  RunnerInv'
    BY <1>4 DEF DispatchNow, IsContinuation, Calling
  <1>5. ASSUME NEW t \in Threads, PostTrigger(t) PROVE RunnerInv'
    BY <1>5 DEF PostTrigger
  <1>6. ASSUME NEW t \in Threads, FinishTask(t) \/ RunTask(t) \/ FinishJob(t) PROVE RunnerInv'
    BY <1>6 DEF FinishTask, RunTask, FinishJob
  <1>7. ASSUME NEW t \in Threads, NEW s \in Strands, ExecutePendingJobs(t, s) PROVE RunnerInv'
    BY <1>7 DEF ExecutePendingJobs, Idle
  <1>8. ASSUME NEW t \in Threads, NEW s \in Strands, NextJob(t, s) PROVE RunnerInv'
    BY <1>8 DEF NextJob, AtLoop
  <1>9. ASSUME NEW t \in Threads, NEW s \in Strands, NoMoreJobs(t, s) PROVE RunnerInv'
    BY <1>9 DEF NoMoreJobs, AtLoop
  <1>10. CASE UNCHANGED vars
    BY <1>10 DEF vars
  <1>11. QED
    BY <1>1, <1>2, <1>3, <1>4, <1>5, <1>6, <1>7, <1>8, <1>9, <1>10, Zenon DEF Next, Call, Work

(* is_running_ is true exactly while one thread, or one posted operation,  *)
(* is responsible for the strand: the hand-over between the thread that    *)
(* finds no more jobs and the one that posts the next never fails.         *)
THEOREM StrandOneResponsible == Spec => []OneResponsible
  <1>1. Init => TypeOK /\ RunnerInv
    BY StrandAssumption DEF Init, TypeOK, RunnerInv, MarkerInv, OneResponsible, Responsible
  <1>2. RunnerInv => OneResponsible
    BY Zenon DEF RunnerInv
  <1>3. QED
    BY <1>1, <1>2, TypeNext, RunnerNext, PTL DEF Spec

-----------------------------------------------------------------------------
(* Without calls of Dispatch() across strands, jobs are executed serially. *)

(* A step that gives one thread other jobs, or another strand. *)
LEMMA SerialFrame ==
  ASSUME TypeOK, Serial, NEW t \in Threads, NEW q, NEW d,
         nest' = [nest EXCEPT ![t] = q], draining' = [draining EXCEPT ![t] = d],
         \A i \in 1..Len(q) : d = q[i][1]
  PROVE  Serial'
  <1>1. \A u \in Threads \ {t} : nest'[u] = nest[u] /\ draining'[u] = draining[u]
    BY Zenon DEF TypeOK
  <1>2. nest'[t] = q /\ draining'[t] = d
    BY Zenon DEF TypeOK
  <1>3. QED
    BY <1>1, <1>2 DEF Serial

LEMMA SerialNext ==
  ASSUME ~CrossDispatch
  PROVE  TypeOK /\ RunnerInv /\ Serial /\ [Next]_vars => Serial'
  <1> SUFFICES ASSUME TypeOK, RunnerInv, Serial, [Next]_vars PROVE Serial'
    BY Zenon
  <1>1. \A t \in Threads : /\ nest = [nest EXCEPT ![t] = nest[t]]
                           /\ draining = [draining EXCEPT ![t] = draining[t]]
                           /\ nest[t] \in Seq(Strands \X Jobs)
                           /\ \A i \in 1..Len(nest[t]) : draining[t] = nest[t][i][1]
    BY Zenon DEF TypeOK, Serial
  <1>2. ASSUME NEW t \in Threads, NEW s \in Strands, NEW j \in Jobs, DispatchDirect(t, s, j)
        PROVE  Serial'
    <2>1. /\ draining' = draining /\ nest' = [nest EXCEPT ![t] = Append(nest[t], <<s, j>>)]
          /\ draining[t] = s
      BY <1>2, Zenon DEF DispatchDirect, IsContinuation, RunnerInv, MarkerInv
    <2> DEFINE longer == Append(nest[t], <<s, j>>)
    <2>2. /\ Len(longer) = Len(nest[t]) + 1 /\ longer[Len(nest[t]) + 1] = <<s, j>>
          /\ \A i \in 1..Len(nest[t]) : longer[i] = nest[t][i]
      BY <1>1
    <2>3. Len(nest[t]) \in Nat
      BY <1>1
    <2>4. \A i \in 1..Len(longer) : draining[t] = longer[i][1]
      <3> HIDE DEF longer
      <3>1. \A i \in 1..Len(longer) : i \in 1..Len(nest[t]) \/ i = Len(nest[t]) + 1
        BY <2>2, <2>3
      <3>2. QED
        BY <1>1, <2>1, <2>2, <3>1
    <2>5. draining' = [draining EXCEPT ![t] = draining[t]] /\ nest' = [nest EXCEPT ![t] = longer]
      BY <1>1, <2>1, Zenon
    <2>6. QED
      <3> HIDE DEF longer
      <3>1. QED
        BY <2>4, <2>5, SerialFrame, Zenon
  <1>3. ASSUME NEW t \in Threads, NEW s \in Strands, NEW j \in Jobs, DispatchNow(t, s, j)
        PROVE  Serial'
    <2>1. \A i \in 1..Len(<<<<s, j>>>>) : s = <<<<s, j>>>>[i][1]
      OBVIOUS
    <2>2. QED
      BY <1>3, <2>1, SerialFrame, Zenon DEF DispatchNow
  <1>4. ASSUME NEW t \in Threads, FinishJob(t) PROVE Serial'
    <2> DEFINE front == SubSeq(nest[t], 1, Len(nest[t]) - 1)
    <2>1. /\ nest[t] # <<>> /\ draining' = draining /\ nest' = [nest EXCEPT ![t] = front]
      BY <1>4, Zenon DEF FinishJob
    <2>2. Len(front) = Len(nest[t]) - 1 /\ \A i \in 1..Len(nest[t]) - 1 : front[i] = nest[t][i]
      BY <1>1, <2>1, FrontType
    <2>3. \A i \in 1..Len(front) : draining[t] = front[i][1]
      BY <1>1, <2>2
    <2>4. QED
      BY <1>1, <2>1, <2>3, SerialFrame, Zenon
  <1>5. ASSUME NEW t \in Threads, NEW s \in Strands, ExecutePendingJobs(t, s) PROVE Serial'
    <2>1. nest[t] = <<>>
      BY <1>5, Zenon DEF ExecutePendingJobs, Idle, RunnerInv, MarkerInv
    <2>2. /\ nest' = [nest EXCEPT ![t] = <<>>] /\ draining' = [draining EXCEPT ![t] = s]
      BY <1>1, <1>5, <2>1, Zenon DEF ExecutePendingJobs
    <2>3. \A i \in 1..Len(<<>>) : s = <<>>[i][1]
      OBVIOUS
    <2>4. QED
      BY <2>2, <2>3, SerialFrame, Zenon
  <1>6. ASSUME NEW t \in Threads, NEW s \in Strands, NextJob(t, s) PROVE Serial'
    <2> DEFINE call == <<<<s, Head(jobs_[s])>>>>
    <2>1. \A i \in 1..Len(call) : s = call[i][1]
      OBVIOUS
    <2>2. /\ nest' = [nest EXCEPT ![t] = call] /\ draining' = [draining EXCEPT ![t] = s]
      BY <1>1, <1>6, Zenon DEF NextJob, AtLoop
    <2>3. QED
      BY <2>1, <2>2, SerialFrame, Zenon
  <1>7. ASSUME NEW t \in Threads, NEW s \in Strands, NoMoreJobs(t, s) PROVE Serial'
    <2>1. /\ nest' = [nest EXCEPT ![t] = <<>>] /\ draining' = [draining EXCEPT ![t] = NoStrand]
      BY <1>1, <1>7, Zenon DEF NoMoreJobs, AtLoop
    <2>2. \A i \in 1..Len(<<>>) : NoStrand = <<>>[i][1]
      OBVIOUS
    <2>3. QED
      BY <2>1, <2>2, SerialFrame, Zenon
  <1>8. CASE UNCHANGED <<nest, draining>>
    BY <1>8, Zenon DEF Serial
  <1>9. QED
    BY <1>2, <1>3, <1>4, <1>5, <1>6, <1>7, <1>8
       DEF Next, Call, Work, Post, DispatchEnqueue, PostTrigger, FinishTask, RunTask, vars

(* A thread that executes a job of a strand is the one responsible for it, *)
(* so that two threads never execute jobs of the same strand, provided no  *)
(* job calls Dispatch() of another strand.                                 *)
THEOREM StrandSerial ==
  ASSUME ~CrossDispatch
  PROVE  Spec => []Serial
  <1>1. Init => TypeOK /\ RunnerInv /\ Serial
    BY StrandAssumption
       DEF Init, TypeOK, RunnerInv, MarkerInv, OneResponsible, Responsible, Serial
  <1>2. TypeOK /\ RunnerInv /\ Serial /\ [Next]_vars => Serial'
    BY SerialNext, Zenon
  <1>3. QED
    BY <1>1, <1>2, TypeNext, RunnerNext, PTL DEF Spec

-----------------------------------------------------------------------------
(* The refinement of SerialExecutor. *)

LEMMA NamesProperties ==
  ASSUME NEW q \in Seq(Strands \X Jobs)
  PROVE  /\ Names(q) \in Seq(Jobs) /\ Len(Names(q)) = Len(q)
         /\ q = <<>> <=> Names(q) = <<>>
  BY DEF Names

LEMMA NamesAppend ==
  ASSUME NEW q \in Seq(Strands \X Jobs), NEW s \in Strands, NEW j \in Jobs
  PROVE  Names(Append(q, <<s, j>>)) = Append(Names(q), j)
  BY DEF Names

LEMMA NamesFront ==
  ASSUME NEW q \in Seq(Strands \X Jobs), q # <<>>
  PROVE  Names(SubSeq(q, 1, Len(q) - 1)) = SubSeq(Names(q), 1, Len(Names(q)) - 1)
  BY DEF Names

LEMMA NamesOne ==
  ASSUME NEW s \in Strands, NEW j \in Jobs
  PROVE  Names(<<<<s, j>>>>) = <<j>>
  BY DEF Names

(* While ExecutePendingJobs() is posted nobody executes the strand's jobs. *)
LEMMA PostedNoDrainer ==
  ASSUME OneResponsible, posted[Observed] > 0
  PROVE  \A u \in Threads : draining[u] # Observed
  <1>1. /\ posted[Observed] \in {0, 1}
        /\ posted[Observed] = 1 => \A u \in Threads : ~Responsible(u, Observed)
    BY StrandAssumption, Zenon DEF OneResponsible
  <1>2. posted[Observed] = 1
    BY <1>1
  <1>3. QED
    BY <1>1, <1>2, Zenon DEF Responsible

(* Only one thread executes pending jobs of a strand. *)
LEMMA OnlyDrainer ==
  ASSUME OneResponsible, NEW t \in Threads, draining[t] = Observed
  PROVE  \A u \in Threads : u # t => draining[u] # Observed
  <1>1. \A u, v \in Threads : Responsible(u, Observed) /\ Responsible(v, Observed) => u = v
    BY StrandAssumption, Zenon DEF OneResponsible
  <1>2. QED
    BY <1>1, Zenon DEF Responsible

(* The active jobs are those of the thread that executes the strand. *)
LEMMA ActiveIs ==
  ASSUME RunnerInv, NEW t \in Threads, draining[t] = Observed
  PROVE  ActiveJobs = Names(nest[t])
  <1>1. Executing = {t}
    BY StrandAssumption DEF RunnerInv, OneResponsible, Responsible, Executing
  <1>2. QED
    BY <1>1, Zenon DEF ActiveJobs

LEMMA ActiveIsNext ==
  ASSUME RunnerInv', NEW t \in Threads, draining'[t] = Observed
  PROVE  ActiveJobs' = Names(nest'[t])
  <1>1. Executing' = {t}
    BY StrandAssumption DEF RunnerInv, OneResponsible, Responsible, Executing
  <1>2. QED
    BY <1>1, Zenon DEF ActiveJobs

LEMMA ActiveNone ==
  ASSUME \A t \in Threads : draining[t] # Observed
  PROVE  ActiveJobs = <<>>
  BY Zenon DEF ActiveJobs, Executing

LEMMA ActiveNoneNext ==
  ASSUME \A t \in Threads : draining'[t] # Observed
  PROVE  ActiveJobs' = <<>>
  BY Zenon DEF ActiveJobs, Executing

(* A step elsewhere leaves them alone. *)
LEMMA ActiveFrame ==
  ASSUME \A t \in Threads : draining'[t] = Observed <=> draining[t] = Observed,
         \A t \in Threads : draining[t] = Observed => nest'[t] = nest[t]
  PROVE  ActiveJobs' = ActiveJobs
  <1>1. Executing' = Executing
    BY Zenon DEF Executing
  <1>2. \A t \in Executing : Names(nest[t])' = Names(nest[t])
    BY Zenon DEF Executing, Names
  <1>3. QED
    BY <1>1, <1>2, Zenon DEF ActiveJobs

LEMMA RefinementStep ==
  TypeOK /\ RunnerInv /\ RunnerInv' /\ [Next]_vars => [Promise!Next]_(Promise!vars)
  <1> SUFFICES ASSUME TypeOK, RunnerInv, RunnerInv', [Next]_vars
               PROVE  [Promise!Next]_(Promise!vars)
    BY Zenon
  <1> USE DEF Promise!vars
  <1>1. /\ Observed \in Strands /\ Observed # NoStrand
        /\ jobs_ \in [Strands -> Seq(Jobs)]
        /\ draining \in [Threads -> Strands \cup {NoStrand}]
        /\ nest \in [Threads -> Seq(Strands \X Jobs)]
    BY StrandAssumption, Zenon DEF TypeOK
  <1>2. ASSUME NEW t \in Threads, NEW s \in Strands, NEW j \in Jobs,
               Post(t, s, j) \/ DispatchEnqueue(t, s, j)
        PROVE  [Promise!Next]_(Promise!vars)
    <2>1. jobs_' = [jobs_ EXCEPT ![s] = Append(jobs_[s], j)] /\ UNCHANGED <<draining, nest>>
      BY <1>2, Zenon DEF Post, DispatchEnqueue, Enqueue
    <2>2. ActiveJobs' = ActiveJobs
      BY <2>1, ActiveFrame, Zenon
    <2>3. jobs_'[Observed] = jobs_[Observed] \/ jobs_'[Observed] = Append(jobs_[Observed], j)
      BY <1>1, <2>1, Zenon
    <2>4. QED
      BY <2>2, <2>3, Zenon DEF Promise!Next, Promise!Submit
  <1>3. ASSUME NEW t \in Threads, NEW s \in Strands, NEW j \in Jobs, DispatchDirect(t, s, j)
        PROVE  [Promise!Next]_(Promise!vars)
    <2>1. /\ nest' = [nest EXCEPT ![t] = Append(nest[t], <<s, j>>)]
          /\ UNCHANGED <<draining, jobs_>>
      BY <1>3, Zenon DEF DispatchDirect
    <2>2. CASE draining[t] = Observed
      <3>1. nest[t] # <<>>
        BY <1>1, <1>3, <2>2, StrandAssumption, Zenon
           DEF DispatchDirect, Calling, IsExecutorContext
      <3>2. ActiveJobs = Names(nest[t])
        BY <2>2, ActiveIs, Zenon
      <3>3. ActiveJobs' = Names(nest'[t])
        BY <2>1, <2>2, ActiveIsNext, Zenon
      <3>4. nest'[t] = Append(nest[t], <<s, j>>)
        BY <1>1, <2>1, Zenon
      <3>5. ActiveJobs # <<>> /\ ActiveJobs' = Append(ActiveJobs, j)
        BY <1>1, <3>1, <3>2, <3>3, <3>4, NamesAppend, NamesProperties
      <3>6. QED
        BY <2>1, <3>5, Zenon DEF Promise!Next, Promise!Nest
    <2>3. CASE draining[t] # Observed
      BY <1>1, <2>1, <2>3, ActiveFrame, Zenon
    <2>4. QED
      BY <2>2, <2>3, Zenon
  <1>4. ASSUME NEW t \in Threads, NEW s \in Strands, NEW j \in Jobs, DispatchNow(t, s, j)
        PROVE  [Promise!Next]_(Promise!vars)
    <2>1. /\ nest' = [nest EXCEPT ![t] = <<<<s, j>>>>] /\ draining' = [draining EXCEPT ![t] = s]
          /\ jobs_' = jobs_ /\ ~is_running_[s] /\ ~context_marker_[t]
      BY <1>4, Zenon DEF DispatchNow, IsContinuation
    <2>2. draining[t] = NoStrand
      BY <2>1, Zenon DEF RunnerInv, MarkerInv
    <2>3. CASE s = Observed
      <3>1. (\A u \in Threads : draining[u] # Observed) /\ jobs_[Observed] = <<>>
        BY <2>1, <2>3, Zenon DEF RunnerInv, OneResponsible, Responsible
      <3>2. ActiveJobs = <<>>
        BY <3>1, ActiveNone, Zenon
      <3>3. draining'[t] = Observed /\ nest'[t] = <<<<s, j>>>>
        BY <1>1, <2>1, <2>3, Zenon
      <3>4. ActiveJobs' = Names(nest'[t])
        BY <3>3, ActiveIsNext, Zenon
      <3>5. ActiveJobs' = <<j>>
        BY <3>3, <3>4, NamesOne, Zenon
      <3>6. QED
        BY <2>1, <3>1, <3>2, <3>5, Zenon DEF Promise!Next, Promise!SubmitAndStart
    <2>4. CASE s # Observed
      BY <1>1, <2>1, <2>2, <2>4, ActiveFrame, Zenon
    <2>5. QED
      BY <2>3, <2>4, Zenon
  <1>5. ASSUME NEW t \in Threads, FinishJob(t)
        PROVE  [Promise!Next]_(Promise!vars)
    <2>1. /\ nest' = [nest EXCEPT ![t] = SubSeq(nest[t], 1, Len(nest[t]) - 1)]
          /\ nest[t] # <<>> /\ UNCHANGED <<draining, jobs_>>
      BY <1>5, Zenon DEF FinishJob
    <2>2. CASE draining[t] = Observed
      <3>1. ActiveJobs = Names(nest[t])
        BY <2>2, ActiveIs, Zenon
      <3>2. ActiveJobs' = Names(nest'[t])
        BY <2>1, <2>2, ActiveIsNext, Zenon
      <3>3. nest'[t] = SubSeq(nest[t], 1, Len(nest[t]) - 1)
        BY <1>1, <2>1, Zenon
      <3>4. ActiveJobs # <<>> /\ ActiveJobs' = SubSeq(ActiveJobs, 1, Len(ActiveJobs) - 1)
        BY <1>1, <2>1, <3>1, <3>2, <3>3, NamesFront, NamesProperties, Zenon
      <3>5. QED
        BY <2>1, <3>4, Zenon DEF Promise!Next, Promise!Finish
    <2>3. CASE draining[t] # Observed
      BY <1>1, <2>1, <2>3, ActiveFrame, Zenon
    <2>4. QED
      BY <2>2, <2>3, Zenon
  <1>6. ASSUME NEW t \in Threads, NEW s \in Strands, NextJob(t, s)
        PROVE  [Promise!Next]_(Promise!vars)
    <2>1. /\ nest' = [nest EXCEPT ![t] = <<<<s, Head(jobs_[s])>>>>] /\ draining[t] = s
          /\ jobs_' = [jobs_ EXCEPT ![s] = Tail(jobs_[s])] /\ draining' = draining
          /\ nest[t] = <<>> /\ jobs_[s] # <<>>
      BY <1>6, Zenon DEF NextJob, AtLoop
    <2>2. CASE s = Observed
      <3>1. ActiveJobs = Names(nest[t])
        BY <2>1, <2>2, ActiveIs, Zenon
      <3>2. ActiveJobs = <<>>
        BY <1>1, <2>1, <3>1, NamesProperties, Zenon
      <3>3. ActiveJobs' = Names(nest'[t])
        BY <2>1, <2>2, ActiveIsNext, Zenon
      <3>4. Head(jobs_[s]) \in Jobs /\ nest'[t] = <<<<s, Head(jobs_[s])>>>>
        BY <1>1, <2>1
      <3>5. ActiveJobs' = <<Head(jobs_[s])>> /\ jobs_'[s] = Tail(jobs_[s])
        BY <1>1, <2>1, <3>3, <3>4, NamesOne, Zenon
      <3>6. QED
        BY <2>1, <2>2, <3>2, <3>5, Zenon DEF Promise!Next, Promise!Start
    <2>3. CASE s # Observed
      <3>1. jobs_'[Observed] = jobs_[Observed]
        BY <1>1, <2>1, <2>3, Zenon
      <3>2. ActiveJobs' = ActiveJobs
        BY <1>1, <2>1, <2>3, ActiveFrame, Zenon
      <3>3. QED
        BY <3>1, <3>2, Zenon
    <2>4. QED
      BY <2>2, <2>3, Zenon
  <1>7. ASSUME NEW t \in Threads, NEW s \in Strands,
               ExecutePendingJobs(t, s) \/ NoMoreJobs(t, s)
        PROVE  [Promise!Next]_(Promise!vars)
    <2>1. /\ UNCHANGED <<jobs_, nest>> /\ nest[t] = <<>>
          /\ \E d \in {s, NoStrand} : draining' = [draining EXCEPT ![t] = d]
          /\ draining[t] \in {s, NoStrand}
      BY <1>7, Zenon DEF ExecutePendingJobs, NoMoreJobs, AtLoop, Idle, RunnerInv, MarkerInv
    <2>2. CASE s = Observed
      <3>1. Names(nest[t]) = <<>>
        BY <1>1, <2>1, NamesProperties, Zenon
      <3>2. ActiveJobs = <<>>
        <4>1. CASE draining[t] = Observed
          BY <3>1, <4>1, ActiveIs, Zenon
        <4>2. CASE draining[t] # Observed
          <5>1. ExecutePendingJobs(t, s) /\ posted[s] > 0
            BY <1>7, <2>2, <4>2, Zenon DEF ExecutePendingJobs, NoMoreJobs, AtLoop
          <5>2. \A u \in Threads : draining[u] # Observed
            BY <2>2, <5>1, PostedNoDrainer, Zenon DEF RunnerInv
          <5>3. QED
            BY <5>2, ActiveNone, Zenon
        <4>3. QED
          BY <4>1, <4>2, Zenon
      <3>3. ActiveJobs' = <<>>
        <4>1. CASE draining'[t] = Observed
          <5>1. ActiveJobs' = Names(nest'[t])
            BY <4>1, ActiveIsNext, Zenon
          <5>2. QED
            BY <2>1, <3>1, <5>1, Zenon
        <4>2. CASE draining'[t] # Observed
          <5>1. NoMoreJobs(t, s) /\ draining[t] = Observed
            BY <1>1, <1>7, <2>2, <4>2, Zenon DEF ExecutePendingJobs, NoMoreJobs, AtLoop
          <5>2. \A u \in Threads : u # t => draining[u] # Observed
            BY <5>1, OnlyDrainer, Zenon DEF RunnerInv
          <5>3. \A u \in Threads : draining'[u] # Observed
            BY <1>1, <2>1, <4>2, <5>2, Zenon
          <5>4. QED
            BY <5>3, ActiveNoneNext, Zenon
        <4>3. QED
          BY <4>1, <4>2, Zenon
      <3>4. QED
        BY <2>1, <3>2, <3>3, Zenon
    <2>3. CASE s # Observed
      BY <1>1, <2>1, <2>3, ActiveFrame, Zenon
    <2>4. QED
      BY <2>2, <2>3, Zenon
  <1>8. CASE UNCHANGED <<jobs_, draining, nest>>
    BY <1>8, ActiveFrame, Zenon
  <1>9. QED
    BY <1>2, <1>3, <1>4, <1>5, <1>6, <1>7, <1>8, Zenon
       DEF Next, Call, Work, PostTrigger, FinishTask, RunTask, vars

(* Every strand implements SerialExecutor: what its thread executes are    *)
(* the jobs submitted to it, one after the other in the order in which     *)
(* Post() and Dispatch() queued them.                                      *)
THEOREM StrandImplementsSerialExecutor == Spec => SerialExecution
  <1>1. Init => TypeOK /\ RunnerInv
    BY StrandAssumption DEF Init, TypeOK, RunnerInv, MarkerInv, OneResponsible, Responsible
  <1>2. Init => Promise!Init
    <2> SUFFICES ASSUME Init PROVE Promise!Init
      BY Zenon
    <2>1. ActiveJobs = <<>>
      BY StrandAssumption, ActiveNone, Zenon DEF Init
    <2>2. QED
      BY <2>1, StrandAssumption, Zenon DEF Init, Promise!Init
  <1>3. QED
    BY <1>1, <1>2, TypeNext, RunnerNext, RefinementStep, PTL
       DEF Spec, SerialExecution, Promise!Spec
=============================================================================
