----------------------------- MODULE TimerQueue -----------------------------
(***************************************************************************)
(* TimerQueue (timer/timer_queue.hpp) with its users: the deferred and     *)
(* periodic jobs of the executor (PostDeferred, PostPeriodic,              *)
(* CancelTimedJob) and the waitable timers.                                *)
(*                                                                         *)
(* The timerfd is level-triggered and never read.  When it is readable the *)
(* reactor posts an operation to the executor that runs HandleExpiry()     *)
(* under the queue's mutex, which is released around every handler.  An    *)
(* activation of HandleOneExpiry() is on a worker, or synchronous in the   *)
(* caller of Enqueue() (Sync) when the expiry is the zero time point.      *)
(***************************************************************************)
EXTENDS Integers, Sequences, FiniteSets, FiniteSetsExt

CONSTANTS
    Deferred, Periodic,     \* jobs of the executor, each posted any number of times
    OneShot, Recurring,     \* waitable timers
    NoTimer,
    Workers, Sync,          \* threads of the executor; the caller of Enqueue()
    kMaxTimerCount,         \* size of timers_
    MaxTags,                \* bound: tags taken from the end of timers_
    MaxNow, MaxDelay,       \* bounds of the clock and of the durations
    OneThread,              \* one worker, and all calls are made on it
    CancelRunning,          \* a job may be cancelled while it runs
    JobBound,               \* bound: the counted jobs saturate
    Observed                \* the user whose timer TimersFire watches

Jobs == Deferred \cup Periodic
Waitable == OneShot \cup Recurring
Users == Jobs \cup Waitable
Contexts == Workers \cup {Sync}
Tags == 0..(kMaxTimerCount - 1)
NoTag == -1
Times == 0..(MaxNow + MaxDelay)

ASSUME TimerAssumption ==
    /\ kMaxTimerCount \in Nat \ {0} /\ MaxTags \in 0..kMaxTimerCount
    /\ MaxNow \in Nat \ {0} /\ MaxDelay \in Nat \ {0}
    /\ NoTimer \notin Users /\ Sync \notin Workers /\ Workers # {}
    /\ OneThread \in BOOLEAN /\ CancelRunning \in BOOLEAN /\ JobBound \in Nat /\ Observed \in Users
    /\ OneThread => \E w \in Workers : Workers = {w}
    /\ Jobs \cap Waitable = {} /\ Deferred \cap Periodic = {} /\ OneShot \cap Recurring = {}

VARIABLES
    timers_, queued_timers_, timer_tag_recycle_bin_, tag_end_, release_handler_memory_,
    timer_fd_, now,         \* the time the timerfd is set to, 0 if disarmed; the clock
    posted,                 \* HandleExpiry() operations in the executor's queue
    pc, cur,                \* per context: where it is, and the expiry it handles
    timer_id_,              \* the tag each user holds
    periodic_job_ids_, async_wait_in_progress_,
    posting,                \* the job being posted: reserved, not yet added
    job_count_,             \* executor jobs counted for timers, less the completed
    ran, lost               \* history: runs per posting; tags no longer reachable

queue   == <<timers_, queued_timers_, timer_tag_recycle_bin_, tag_end_, release_handler_memory_>>
loop    == <<posted, pc, cur>>
users   == <<timer_id_, periodic_job_ids_, async_wait_in_progress_, posting>>
history == <<ran, lost>>
vars    == <<queue, timer_fd_, now, loop, users, job_count_, history>>

NoExpiry == [tag |-> NoTag, handler |-> NoTimer, start |-> 0]

Init ==
    /\ timers_ = [t \in Tags |-> [expiry_ |-> 0, interval_ |-> 0, handler_ |-> NoTimer,
                                  is_valid_ |-> FALSE, in_progress_ |-> FALSE]]
    /\ queued_timers_ = {} /\ timer_tag_recycle_bin_ = <<>> /\ tag_end_ = 0
    /\ release_handler_memory_ = FALSE /\ timer_fd_ = 0 /\ now = 1
    /\ posted = 0 /\ pc = [c \in Contexts |-> "idle"] /\ cur = [c \in Contexts |-> NoExpiry]
    /\ timer_id_ = [u \in Users |-> NoTag] /\ periodic_job_ids_ = {}
    /\ async_wait_in_progress_ = [u \in Waitable |-> FALSE] /\ posting = NoTimer
    /\ job_count_ = 0 /\ ran = [u \in Users |-> 0] /\ lost = {}

-----------------------------------------------------------------------------
(* The queue's mutex is held over several steps only by HandleExpiry().    *)
MutexFree == \A c \in Contexts : pc[c] # "locked"

(* A thread that is inside a synchronous expiry or a Post is not elsewhere.*)
Alone(c) == OneThread => (c # Sync => pc[Sync] = "idle") /\ posting = NoTimer

(* User code calls: from a handler, or from any other operation or thread. *)
MayCall == MutexFree /\ (OneThread => /\ posting = NoTimer
                                     /\ \A c \in Contexts : pc[c] \in {"idle", "handler"})

Counted(n) == Max({-JobBound, Min({JobBound, job_count_ + n})})

Tick ==
    /\ now < MaxNow
    /\ now' = now + 1
    /\ UNCHANGED <<queue, timer_fd_, loop, users, job_count_, history>>

-----------------------------------------------------------------------------
QueuedTags == {q.tag_ : q \in queued_timers_}
EntryOf(tag) == {q \in queued_timers_ : q.tag_ = tag}

(* make_heap() leaves an entry with the least expiry in front.             *)
FrontLatest == {q \in queued_timers_ : \A r \in queued_timers_ : r.expiry_ <= q.expiry_}
Front == {q \in queued_timers_ : \A r \in queued_timers_ : q.expiry_ <= r.expiry_}
NextExpiry == Min({q.expiry_ : q \in queued_timers_})

(* Reserve(), with GetNextAvailableTag(): a recycled tag, or the next one. *)
BinLeft == IF timer_tag_recycle_bin_ # <<>> THEN Tail(timer_tag_recycle_bin_)
           ELSE timer_tag_recycle_bin_

Reserve(u) ==
    LET reuse == timer_tag_recycle_bin_ # <<>>
        tag == IF reuse THEN Head(timer_tag_recycle_bin_) ELSE tag_end_ IN
    /\ tag_end_ <= kMaxTimerCount /\ (reuse \/ tag_end_ < MaxTags)
    /\ tag_end_' = IF reuse THEN tag_end_ ELSE tag_end_ + 1
    /\ timer_tag_recycle_bin_' = BinLeft
    /\ timers_' = [timers_ EXCEPT ![tag] = [@ EXCEPT !.handler_ = u, !.in_progress_ = FALSE]]
    /\ timer_id_' = [timer_id_ EXCEPT ![u] = tag]
    /\ UNCHANGED <<queued_timers_, release_handler_memory_>>

(* DoAddTimer(), with IsNextExpiring(expiry) and UpdateTimerFd().          *)
ArmedOnlyWhenEmpty(expiry) == IF queued_timers_ = {} THEN expiry ELSE timer_fd_
Armed(expiry) == IF queued_timers_ = {} \/ expiry < NextExpiry THEN expiry ELSE timer_fd_

DoAddTimer(tag, expiry, interval) ==
    /\ timers_' = [timers_ EXCEPT ![tag] = [@ EXCEPT
           !.expiry_ = expiry, !.interval_ = interval, !.is_valid_ = TRUE]]
    /\ timer_fd_' = Armed(expiry)
    /\ queued_timers_' = queued_timers_ \cup {[tag_ |-> tag, expiry_ |-> expiry]}
    /\ UNCHANGED <<timer_tag_recycle_bin_, tag_end_, release_handler_memory_>>

(* Dequeue(): DoRemoveTimer(), RemoveTimerFromQueue(), RecycleTimerTag().  *)
(* Whether to disarm is decided by the front of the queue after the        *)
(* removal, which is undefined when the queue is then empty.  A timer that *)
(* is valid but has left the queue is an error, and its tag is not         *)
(* recycled.                                                               *)
RecycledUnlessRunning(tag) ==
    IF timers_[tag].in_progress_ THEN timer_tag_recycle_bin_
    ELSE Append(timer_tag_recycle_bin_, tag)
RecycleTimerTag(tag) == Append(timer_tag_recycle_bin_, tag)

HandlerLeftAlways(entry) == NoTimer
HandlerLeft(entry) == IF entry.in_progress_ THEN entry.handler_ ELSE NoTimer

Dequeues(tag) == timers_[tag].is_valid_ => tag \in QueuedTags

Dequeue(tag) ==
    LET entry == timers_[tag]
        remaining == queued_timers_ \ EntryOf(tag) IN
    /\ UNCHANGED tag_end_
    /\ lost' = IF Dequeues(tag) THEN lost ELSE lost \cup {tag}
    /\ IF ~entry.is_valid_
       THEN /\ timer_tag_recycle_bin_' = RecycleTimerTag(tag)
            /\ UNCHANGED <<timers_, queued_timers_, release_handler_memory_, timer_fd_>>
       ELSE /\ timers_' = [timers_ EXCEPT ![tag] = [@ EXCEPT
                   !.handler_ = HandlerLeft(entry), !.is_valid_ = FALSE]]
            /\ release_handler_memory_' = (release_handler_memory_ \/ entry.in_progress_)
            /\ queued_timers_' = remaining
            /\ timer_tag_recycle_bin_' = IF tag \in QueuedTags THEN RecycleTimerTag(tag)
                                         ELSE timer_tag_recycle_bin_
            /\ timer_fd_' \in IF tag \in QueuedTags /\ remaining = {} THEN {timer_fd_, 0}
                              ELSE {timer_fd_}

-----------------------------------------------------------------------------
(* PostDeferred() and PostPeriodic(), under the executor's mtx_:           *)
(* StartTimedTaskAsync() reserves a tag (RegisterTimedTask), then adds it. *)
RegisterTimedTask(u) ==
    /\ MayCall /\ posting = NoTimer /\ timer_id_[u] = NoTag
    /\ Reserve(u)
    /\ posting' = u
    /\ ran' = [ran EXCEPT ![u] = 0]
    /\ UNCHANGED <<timer_fd_, now, loop, periodic_job_ids_, async_wait_in_progress_,
                   job_count_, lost>>

AddTimedTask(u, delay) ==
    /\ posting = u /\ MutexFree
    /\ DoAddTimer(timer_id_[u], now + delay, IF u \in Periodic THEN delay ELSE 0)
    /\ periodic_job_ids_' = periodic_job_ids_ \cup {timer_id_[u]}
    /\ posting' = NoTimer
    /\ job_count_' = Counted(1)
    /\ UNCHANGED <<now, loop, timer_id_, async_wait_in_progress_, history>>

(* RemoveTimedTaskAsync(): the id is forgotten, the timer dequeued.        *)
RemoveTimedTaskAsync(u, tag) ==
    /\ periodic_job_ids_' = periodic_job_ids_ \ {tag}
    /\ Dequeue(tag)
    /\ timer_id_' = [timer_id_ EXCEPT ![u] = NoTag]

Running(u) == \E c \in Contexts : pc[c] = "handler" /\ cur[c].handler = u

CancelTimedJob(u) ==
    /\ MayCall /\ timer_id_[u] \in periodic_job_ids_
    /\ Running(u) => CancelRunning
    /\ RemoveTimedTaskAsync(u, timer_id_[u])
    /\ job_count_' = IF Dequeues(timer_id_[u]) THEN Counted(-1) ELSE job_count_
    /\ UNCHANGED <<now, loop, async_wait_in_progress_, posting, ran>>

-----------------------------------------------------------------------------
(* BasicWaitableTimer: the constructor, the destructor, WaitAsync().       *)
ConstructTimer(u) ==
    /\ MayCall /\ timer_id_[u] = NoTag
    /\ Reserve(u)
    /\ async_wait_in_progress_' = [async_wait_in_progress_ EXCEPT ![u] = FALSE]
    /\ ran' = [ran EXCEPT ![u] = 0]
    /\ UNCHANGED <<timer_fd_, now, loop, periodic_job_ids_, posting, job_count_, lost>>

(* Not with an operation outstanding, which its documentation forbids.     *)
DestroyTimer(u) ==
    LET tag == timer_id_[u] IN
    /\ MayCall /\ tag # NoTag
    /\ tag \notin QueuedTags /\ \A c \in Contexts : cur[c].handler # u
    /\ Dequeue(tag)
    /\ timer_id_' = [timer_id_ EXCEPT ![u] = NoTag]
    /\ UNCHANGED <<now, loop, periodic_job_ids_, async_wait_in_progress_, posting, job_count_, ran>>

WaitAsync(u, expiry, interval) ==
    /\ MayCall /\ timer_id_[u] # NoTag /\ ~async_wait_in_progress_[u]
    /\ async_wait_in_progress_' = [async_wait_in_progress_ EXCEPT ![u] = TRUE]
    /\ u \in OneShot => interval = 0
    /\ DoAddTimer(timer_id_[u], expiry, interval)
    /\ job_count_' = Counted(1)
    /\ UNCHANGED <<now, loop, timer_id_, periodic_job_ids_, posting, history>>

(* HandleOneExpiry(): the mutex is released before the handler is called.  *)
BeginExpiry(c, tag) ==
    /\ timers_' = [timers_ EXCEPT ![tag].in_progress_ = TRUE]
    /\ pc' = [pc EXCEPT ![c] = "handler"]
    /\ cur' = [cur EXCEPT ![c] = [tag |-> tag, handler |-> timers_[tag].handler_, start |-> now]]
    /\ ran' = [u \in Users |-> IF u = timers_[tag].handler_ /\ u \in Deferred \cup OneShot
                               THEN ran[u] + 1 ELSE ran[u]]

(* A timer without expiry and period: Enqueue() handles its expiry itself, *)
(* and the wait is counted when it is over (see FinishExpiry).             *)
WaitAsyncZeroExpiry(u) ==
    /\ MayCall /\ timer_id_[u] # NoTag /\ ~async_wait_in_progress_[u] /\ pc[Sync] = "idle"
    /\ async_wait_in_progress_' = [async_wait_in_progress_ EXCEPT ![u] = TRUE]
    /\ BeginExpiry(Sync, timer_id_[u])
    /\ UNCHANGED <<queued_timers_, timer_tag_recycle_bin_, tag_end_, release_handler_memory_,
                   timer_fd_, now, posted, timer_id_, periodic_job_ids_, posting, job_count_, lost>>

-----------------------------------------------------------------------------
(* The reactor reports the timerfd while it is readable.  The operations   *)
(* it has posted are ahead of its next poll in the executor's queue.       *)
Readable == timer_fd_ # 0 /\ timer_fd_ <= now

HandleTimerEvent(w) ==
    /\ Readable /\ posted = 0 /\ pc[w] = "idle" /\ Alone(w)
    /\ posted' = 1
    /\ UNCHANGED <<queue, timer_fd_, now, pc, cur, users, job_count_, history>>

HandleExpiry(w) ==
    /\ posted > 0 /\ pc[w] = "idle" /\ MutexFree /\ Alone(w)
    /\ posted' = posted - 1
    /\ pc' = [pc EXCEPT ![w] = "locked"]
    /\ UNCHANGED <<queue, timer_fd_, now, cur, users, job_count_, history>>

IsExpired(q) == timers_[q.tag_].expiry_ <= now

HandleOneExpiry(w) ==
    /\ pc[w] = "locked"
    /\ \E q \in Front : IsExpired(q) /\ BeginExpiry(w, q.tag_)
    /\ UNCHANGED <<queued_timers_, timer_tag_recycle_bin_, tag_end_, release_handler_memory_,
                   timer_fd_, now, posted, users, job_count_, lost>>

(* The handler of a deferred job removes its timer when the task is done.  *)
HandlerReturns(c) ==
    LET u == cur[c].handler IN
    /\ pc[c] = "handler" /\ MutexFree /\ Alone(c)
    /\ pc' = [pc EXCEPT ![c] = "finish"]
    /\ IF u \in Deferred THEN RemoveTimedTaskAsync(u, cur[c].tag)
       ELSE UNCHANGED <<queue, timer_fd_, timer_id_, periodic_job_ids_, lost>>
    /\ UNCHANGED <<now, posted, cur, async_wait_in_progress_, posting, job_count_, ran>>

(* RemoveTimerFromQueue() and UpdateTimerExpiry() on the queue.            *)
KeptInQueue(tag) == queued_timers_
Removed(tag) == queued_timers_ \ EntryOf(tag)

Requeued(tag, expiry) ==
    {IF q.tag_ = tag THEN [q EXCEPT !.expiry_ = expiry] ELSE q : q \in queued_timers_}

NextPeriod(start, interval) == start + interval

Finished(entry, again, expiry) == [entry EXCEPT
    !.in_progress_ = FALSE,
    !.handler_ = IF release_handler_memory_ THEN NoTimer ELSE entry.handler_,
    !.expiry_ = IF again THEN expiry ELSE entry.expiry_]

(* The mutex is taken again: the handler is released, or the timer removed *)
(* or its next expiry set.                                                 *)
FinishExpiry(c) ==
    LET tag == cur[c].tag
        entry == timers_[tag]
        expiry == NextPeriod(cur[c].start, entry.interval_)
        again == ~release_handler_memory_ /\ entry.interval_ # 0 IN
    /\ pc[c] = "finish" /\ MutexFree /\ Alone(c)
    /\ timers_' = [timers_ EXCEPT ![tag] = Finished(@, again, expiry)]
    /\ release_handler_memory_' = FALSE
    /\ queued_timers_' = IF release_handler_memory_ THEN queued_timers_
                         ELSE IF again THEN Requeued(tag, expiry) ELSE Removed(tag)
    /\ pc' = [pc EXCEPT ![c] = IF c = Sync THEN "idle" ELSE "locked"]
    /\ cur' = [cur EXCEPT ![c] = NoExpiry]
    /\ job_count_' = IF c = Sync THEN Counted(1) ELSE job_count_
    /\ UNCHANGED <<timer_tag_recycle_bin_, tag_end_, timer_fd_, now, posted, users, history>>

(* The end of HandleExpiry(): rearmed, and counted as one more job; the    *)
(* executor counts the operation as completed.                             *)
Rearmed == IF queued_timers_ # {} THEN NextExpiry ELSE timer_fd_

HandleExpiryReturns(w) ==
    /\ pc[w] = "locked" /\ \A q \in Front : ~IsExpired(q)
    /\ timer_fd_' = Rearmed
    /\ job_count_' = IF queued_timers_ # {} THEN job_count_ ELSE Counted(-1)
    /\ pc' = [pc EXCEPT ![w] = "idle"]
    /\ UNCHANGED <<queue, now, posted, cur, users, history>>

-----------------------------------------------------------------------------
Delays == 0..MaxDelay

Calls ==
    \/ \E u \in Jobs : RegisterTimedTask(u) \/ CancelTimedJob(u)
    \/ \E u \in Waitable : ConstructTimer(u) \/ DestroyTimer(u) \/ WaitAsyncZeroExpiry(u)
                           \/ \E e \in 1..(now + MaxDelay), d \in Delays : WaitAsync(u, e, d)

Posting == \E u \in Jobs, d \in Delays : AddTimedTask(u, d)
Expiry(c) == HandlerReturns(c) \/ FinishExpiry(c)
Operation(w) == HandleExpiry(w) \/ HandleOneExpiry(w) \/ HandleExpiryReturns(w)
Poll == \E w \in Workers : HandleTimerEvent(w)

Next == Tick \/ Calls \/ Posting \/ Poll
        \/ (\E c \in Contexts : Expiry(c)) \/ (\E w \in Workers : Operation(w))

Spec == Init /\ [][Next]_vars

(* Handlers and calls return; the reactor is polled and what it posts is   *)
(* executed again and again, whatever else the executor's queue holds.     *)
FairSpec == Spec /\ WF_vars(Posting) /\ SF_vars(Poll)
                 /\ (\A c \in Contexts : SF_vars(Expiry(c)))
                 /\ (\A w \in Workers : SF_vars(Operation(w)))

-----------------------------------------------------------------------------
TypeOK ==
    /\ timers_ \in [Tags -> [expiry_ : Times, interval_ : 0..MaxDelay, is_valid_ : BOOLEAN,
                             handler_ : Users \cup {NoTimer}, in_progress_ : BOOLEAN]]
    /\ queued_timers_ \subseteq [tag_ : Tags, expiry_ : Times]
    /\ timer_tag_recycle_bin_ \in Seq(Tags) /\ tag_end_ \in 0..MaxTags
    /\ release_handler_memory_ \in BOOLEAN /\ timer_fd_ \in Times /\ now \in 1..MaxNow
    /\ posted \in 0..1 /\ pc \in [Contexts -> {"idle", "locked", "handler", "finish"}]
    /\ cur \in [Contexts -> [tag : Tags \cup {NoTag}, handler : Users \cup {NoTimer},
                             start : 0..MaxNow]]
    /\ timer_id_ \in [Users -> Tags \cup {NoTag}] /\ periodic_job_ids_ \subseteq Tags
    /\ async_wait_in_progress_ \in [Waitable -> BOOLEAN] /\ posting \in Jobs \cup {NoTimer}
    /\ job_count_ \in -JobBound..JobBound /\ ran \in [Users -> Nat] /\ lost \subseteq Tags

(* Every tag handed out by GetNextAvailableTag() is in exactly one place:  *)
(* with one user, once in the recycle bin, or lost with a timer that was   *)
(* removed after its last expiry.  So RecycleTimerTag() never recycles an  *)
(* already recycled tag, and no tag serves two timers.                     *)
TagsPartition ==
    LET owned == {timer_id_[u] : u \in Users} \ {NoTag}
        binned == {timer_tag_recycle_bin_[i] : i \in DOMAIN timer_tag_recycle_bin_} IN
    /\ \A u, v \in Users : u # v /\ timer_id_[u] # NoTag => timer_id_[u] # timer_id_[v]
    /\ Cardinality(binned) = Len(timer_tag_recycle_bin_)
    /\ owned \cap binned = {} /\ owned \cap lost = {} /\ binned \cap lost = {}
    /\ owned \cup binned \cup lost = 0..(tag_end_ - 1)

(* The handler called by HandleOneExpiry() stays in place, and marked in   *)
(* progress, until the mutex is taken again (comment at in_progress_).     *)
HandlerStaysValid ==
    \A c \in Contexts : pc[c] \in {"handler", "finish"} =>
        /\ cur[c].handler # NoTimer
        /\ timers_[cur[c].tag].handler_ = cur[c].handler
        /\ timers_[cur[c].tag].in_progress_

(* No timer is overslept: the timerfd is set no later than the earliest    *)
(* queued expiry, unless HandleExpiry() is yet to rearm it.                *)
TimerFdCovers ==
    queued_timers_ # {} /\ posted = 0 /\ (\A w \in Workers : pc[w] = "idle")
        => timer_fd_ # 0 /\ timer_fd_ <= NextExpiry

(* A deferred job and a one-shot timer call their handler at most once,    *)
(* though the timerfd stays readable while the handler runs.               *)
OneShotRunsOnce == \A u \in Deferred \cup OneShot : ran[u] <= 1

(* OnJobCompletion() stops the executor "on completion of all pending      *)
(* jobs": while a timer is queued, a job is counted for it.                *)
PendingTimersCounted == queued_timers_ # {} => job_count_ > 0

(* A timer whose time has come is handled, unless it is cancelled.         *)
TimersFire ==
    (\E q \in queued_timers_ : q.tag_ = timer_id_[Observed] /\ q.expiry_ <= now)
        ~> (timer_id_[Observed] \notin QueuedTags \/ \E c \in Contexts : cur[c].handler = Observed)
=============================================================================
