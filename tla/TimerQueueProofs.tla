-------------------------- MODULE TimerQueueProofs --------------------------
(***************************************************************************)
(* Proofs about TimerQueue when everything runs on the one thread of the   *)
(* executor and no job is cancelled while it runs, for any users, any      *)
(* number of tags and any durations.                                       *)
(***************************************************************************)
EXTENDS TimerQueue, TLAPS

Active(c) == pc[c] \in {"handler", "finish"}

Entry == [expiry_ : Int, interval_ : Int, handler_ : Users \cup {NoTimer},
          is_valid_ : BOOLEAN, in_progress_ : BOOLEAN]

Typed ==
    /\ timers_ \in [Tags -> Entry]
    /\ queued_timers_ \subseteq [tag_ : Tags, expiry_ : Int]
    /\ timer_tag_recycle_bin_ \in Seq(Tags) /\ tag_end_ \in 0..MaxTags
    /\ release_handler_memory_ \in BOOLEAN /\ now \in Int
    /\ pc \in [Contexts -> {"idle", "locked", "handler", "finish"}]
    /\ cur \in [Contexts -> [tag : Tags \cup {NoTag}, handler : Users \cup {NoTimer}, start : Int]]
    /\ timer_id_ \in [Users -> Tags \cup {NoTag}] /\ periodic_job_ids_ \subseteq Tags
    /\ async_wait_in_progress_ \in [Waitable -> BOOLEAN] /\ posting \in Jobs \cup {NoTimer}
    /\ ran \in [Users -> Nat] /\ lost \subseteq Tags

(* The tags: no two users have the same, the recycle bin has none twice,   *)
(* and a tag is with a user, in the bin or lost.                           *)
Owned(t) == \E u \in Users : timer_id_[u] = t
Contains(bin, t) == \E i \in 1..Len(bin) : bin[i] = t
Distinct(bin) == \A i, j \in 1..Len(bin) : bin[i] = bin[j] => i = j
Binned(t) == Contains(timer_tag_recycle_bin_, t)

TagsHold ==
    /\ \A u, v \in Users : u # v /\ timer_id_[u] # NoTag => timer_id_[u] # timer_id_[v]
    /\ Distinct(timer_tag_recycle_bin_)
    /\ \A t \in Tags : /\ Owned(t) => ~Binned(t) /\ t \notin lost
                       /\ Binned(t) => t \notin lost
    /\ \A t \in Tags : Owned(t) \/ Binned(t) \/ t \in lost <=> t < tag_end_

(* One thread: a synchronous expiry and a Post are inside a handler or     *)
(* outside of HandleExpiry().                                              *)
ThreadHolds ==
    /\ \A w \in Workers : pc[w] \in {"locked", "finish"} => pc[Sync] = "idle"
    /\ pc[Sync] # "locked"
    /\ posting # NoTimer => /\ timer_id_[posting] # NoTag
                            /\ \A c \in Contexts : pc[c] \in {"idle", "handler"}

(* A user finds its handler at the tag it has; a queued timer is valid and *)
(* has a user, which waits for it.                                         *)
UsersHold ==
    /\ \A u \in Users : timer_id_[u] # NoTag => timers_[timer_id_[u]].handler_ = u
    /\ \A q \in queued_timers_ :
           /\ timers_[q.tag_].is_valid_
           /\ \E u \in Users : /\ timer_id_[u] = q.tag_
                               /\ u \in Waitable => async_wait_in_progress_[u]
                               /\ u \in OneShot => timers_[q.tag_].interval_ = 0

(* An expiry that is handled has its user's handler, until the handler of  *)
(* a deferred job has returned its tag.                                    *)
Handled(c) ==
    LET x == cur[c] IN
    /\ x.tag \in Tags /\ x.handler \in Users
    /\ timers_[x.tag].handler_ = x.handler /\ timers_[x.tag].in_progress_
    /\ IF pc[c] = "finish" /\ x.handler \in Deferred
       THEN ~Owned(x.tag) /\ timer_id_[x.handler] = NoTag
       ELSE timer_id_[x.handler] = x.tag
    /\ x.handler \in Waitable => async_wait_in_progress_[x.handler]
    /\ c = Sync => x.handler \in Waitable /\ x.tag \notin QueuedTags

(* No two expiries are of the same timer, and the flags of HandleExpiry()  *)
(* are set only while one is handled.                                      *)
ExpiryHolds ==
    /\ \A c \in Contexts : Active(c) => Handled(c)
    /\ \A c, d \in Contexts : Active(c) /\ Active(d) /\ c # d => cur[c].tag # cur[d].tag
    /\ \A t \in Tags : timers_[t].in_progress_ => \E c \in Contexts : Active(c) /\ cur[c].tag = t
    /\ release_handler_memory_ => \E w \in Workers : pc[w] = "finish" /\ cur[w].handler \in Deferred

(* A one-shot timer that has run is not queued any more, or running.       *)
RunsHold ==
    \A u \in Deferred \cup OneShot :
        /\ ran[u] <= 1
        /\ posting = u => ran[u] = 0
        /\ ran[u] = 1 => /\ u \in OneShot => async_wait_in_progress_[u]
                         /\ \/ timer_id_[u] \notin QueuedTags
                            \/ \E c \in Contexts : Active(c) /\ cur[c].handler = u

TimerInv == Typed /\ TagsHold /\ ThreadHolds /\ UsersHold /\ ExpiryHolds /\ RunsHold

-----------------------------------------------------------------------------
(* The recycle bin. *)

LEMMA AppendBin ==
  ASSUME NEW bin \in Seq(Tags), NEW t \in Tags
  PROVE  /\ Append(bin, t) \in Seq(Tags)
         /\ \A x : Contains(Append(bin, t), x) <=> Contains(bin, x) \/ x = t
         /\ Distinct(bin) /\ ~Contains(bin, t) => Distinct(Append(bin, t))
  <1> DEFINE s == Append(bin, t)
  <1>1. /\ s \in Seq(Tags) /\ Len(bin) \in Nat /\ Len(s) = Len(bin) + 1 /\ s[Len(bin) + 1] = t
        /\ \A i \in 1..Len(bin) : s[i] = bin[i]
    OBVIOUS
  <1> HIDE DEF s
  <1>2. \A x : Contains(s, x) <=> Contains(bin, x) \/ x = t
    BY <1>1 DEF Contains
  <1>3. Distinct(bin) /\ ~Contains(bin, t) => Distinct(s)
    BY <1>1 DEF Contains, Distinct
  <1>4. QED
    BY <1>1, <1>2, <1>3, Zenon DEF s

LEMMA TailBin ==
  ASSUME NEW bin \in Seq(Tags), bin # <<>>, Distinct(bin)
  PROVE  /\ Tail(bin) \in Seq(Tags) /\ Head(bin) \in Tags /\ Contains(bin, Head(bin))
         /\ \A x : Contains(Tail(bin), x) <=> Contains(bin, x) /\ x # Head(bin)
         /\ Distinct(Tail(bin))
  <1> DEFINE s == Tail(bin)
             h == Head(bin)
  <1>1. /\ s \in Seq(Tags) /\ Len(bin) \in Nat \ {0} /\ Len(s) = Len(bin) - 1 /\ h = bin[1]
        /\ \A i \in 1..Len(s) : s[i] = bin[i + 1]
        /\ h \in Tags
    OBVIOUS
  <1> HIDE DEF s, h
  <1>2. \A i \in 2..Len(bin) : bin[i] = s[i - 1] /\ i - 1 \in 1..Len(s)
    <2>1. SUFFICES ASSUME NEW i \in 2..Len(bin) PROVE bin[i] = s[i - 1] /\ i - 1 \in 1..Len(s)
      BY Zenon
    <2>2. i - 1 \in 1..Len(s) /\ (i - 1) + 1 = i
      BY <1>1
    <2>3. QED
      BY <1>1, <2>2, Zenon
  <1>3. Contains(bin, h)
    BY <1>1 DEF Contains
  <1>4. \A x : Contains(s, x) => Contains(bin, x) /\ x # h
    BY <1>1 DEF Contains, Distinct
  <1>5. \A x : Contains(bin, x) /\ x # h => Contains(s, x)
    BY <1>1, <1>2 DEF Contains
  <1>6. Distinct(s)
    BY <1>1 DEF Distinct
  <1>7. QED
    BY <1>1, <1>3, <1>4, <1>5, <1>6, Zenon DEF s, h

-----------------------------------------------------------------------------
USE TimerAssumption DEF NoTag, NoExpiry, queue, loop, users, history

LEMMA TimerConstants ==
  /\ NoTag \notin Tags /\ Users \cap {NoTimer} = {} /\ Jobs \subseteq Users /\ Waitable \subseteq Users
  /\ Deferred \subseteq Jobs /\ Periodic \subseteq Jobs /\ OneShot \subseteq Waitable
  /\ Deferred \cap Waitable = {} /\ Sync \in Contexts /\ Workers \subseteq Contexts
  BY DEF Tags, Users, Jobs, Waitable, Contexts

USE TimerConstants

LEMMA TimerInit == Init => TimerInv
  <1> SUFFICES ASSUME Init PROVE TimerInv
    BY Zenon
  <1>1. Typed
    <2>1. <<>> \in Seq(Tags)
      OBVIOUS
    <2>2. release_handler_memory_ \in BOOLEAN
      BY Zenon DEF Init
    <2>3. timers_ \in [Tags -> Entry]
      BY DEF Init, Entry
    <2>4. /\ cur \in [Contexts -> [tag : Tags \cup {NoTag}, handler : Users \cup {NoTimer}, start : Int]]
          /\ pc \in [Contexts -> {"idle", "locked", "handler", "finish"}] /\ tag_end_ \in 0..MaxTags
          /\ async_wait_in_progress_ \in [Waitable -> BOOLEAN]
      BY DEF Init
    <2>5. /\ queued_timers_ \subseteq [tag_ : Tags, expiry_ : Int]
          /\ timer_tag_recycle_bin_ \in Seq(Tags) /\ now \in Int /\ posting \in Jobs \cup {NoTimer}
          /\ timer_id_ \in [Users -> Tags \cup {NoTag}] /\ periodic_job_ids_ \subseteq Tags
          /\ ran \in [Users -> Nat] /\ lost \subseteq Tags
      BY <2>1 DEF Init
    <2>6. QED
      BY <2>2, <2>3, <2>4, <2>5, Zenon DEF Typed
  <1>2. TagsHold
    <2>1. \A t \in Tags : ~Owned(t) /\ ~Binned(t) /\ t \notin lost /\ ~(t < tag_end_)
      BY DEF Init, Owned, Binned, Contains, Tags
    <2>2. QED
      BY <2>1 DEF Init, TagsHold, Distinct
  <1>3. ThreadHolds /\ UsersHold /\ ExpiryHolds /\ RunsHold
    BY DEF Init, ThreadHolds, UsersHold, ExpiryHolds, Handled, RunsHold, Active
  <1>4. QED
    BY <1>1, <1>2, <1>3, Zenon DEF TimerInv

LEMMA TimerInvImplies == TimerInv => HandlerStaysValid /\ OneShotRunsOnce
  <1> SUFFICES ASSUME TimerInv PROVE HandlerStaysValid /\ OneShotRunsOnce
    BY Zenon
  <1>1. HandlerStaysValid
    BY Zenon DEF TimerInv, ExpiryHolds, Handled, Active, HandlerStaysValid
  <1>2. OneShotRunsOnce
    BY Zenon DEF TimerInv, RunsHold, OneShotRunsOnce
  <1>3. QED
    BY <1>1, <1>2, Zenon

-----------------------------------------------------------------------------
(* Reserve() and Dequeue(), for the calls that make them.                  *)

(* Everything runs on the one thread of the executor, and no job is        *)
(* cancelled from its own task.                                            *)
Sequential == OneThread /\ ~CancelRunning

LEMMA Calling ==
  ASSUME Sequential, MayCall
  PROVE  posting = NoTimer /\ \A c \in Contexts : pc[c] \in {"idle", "handler"}
  BY Zenon DEF Sequential, MayCall

(* Nobody has the tag that is handed out, and no expiry of it is handled.  *)
LEMMA ReserveStep ==
  ASSUME TimerInv, Sequential, MayCall, NEW u \in Users, timer_id_[u] = NoTag, Reserve(u),
         ran' = [ran EXCEPT ![u] = 0], UNCHANGED <<now, pc, cur, lost, periodic_job_ids_>>,
         posting' = NoTimer \/ (posting' = u /\ u \in Jobs),
         async_wait_in_progress_' \in [Waitable -> BOOLEAN],
         \A v \in Waitable : v # u => async_wait_in_progress_'[v] = async_wait_in_progress_[v]
  PROVE  TimerInv'
  <1> DEFINE reuse == timer_tag_recycle_bin_ # <<>>
             tag == IF reuse THEN Head(timer_tag_recycle_bin_) ELSE tag_end_
  <1>1. timer_tag_recycle_bin_ \in Seq(Tags) /\ Distinct(timer_tag_recycle_bin_) /\ tag_end_ \in 0..MaxTags
    BY Zenon DEF TimerInv, Typed, TagsHold
  <1>2. /\ tag \in Tags /\ ~Owned(tag) /\ tag \notin lost
        /\ timer_tag_recycle_bin_' \in Seq(Tags) /\ Distinct(timer_tag_recycle_bin_')
        /\ \A t \in Tags : Binned(t)' <=> Binned(t) /\ t # tag
        /\ tag_end_' \in 0..MaxTags /\ \A t \in Tags : t < tag_end_' <=> t < tag_end_ \/ t = tag
    <2>1. CASE reuse
      <3>1. /\ tag = Head(timer_tag_recycle_bin_) /\ tag_end_' = tag_end_
            /\ timer_tag_recycle_bin_' = Tail(timer_tag_recycle_bin_)
        BY <2>1, Zenon DEF Reserve, BinLeft
      <3>2. /\ tag \in Tags /\ Binned(tag)
            /\ timer_tag_recycle_bin_' \in Seq(Tags) /\ Distinct(timer_tag_recycle_bin_')
            /\ \A t \in Tags : Binned(t)' <=> Binned(t) /\ t # tag
        BY <1>1, <2>1, <3>1, TailBin, Zenon DEF Binned
      <3>3. ~Owned(tag) /\ tag \notin lost /\ tag < tag_end_
        BY <3>2, Zenon DEF TimerInv, TagsHold
      <3>4. QED
        BY <1>1, <3>1, <3>2, <3>3, Zenon
    <2>2. CASE ~reuse
      <3>1. /\ tag = tag_end_ /\ tag_end_ < MaxTags /\ tag_end_' = tag_end_ + 1
            /\ timer_tag_recycle_bin_' = timer_tag_recycle_bin_
        BY <2>2, Zenon DEF Reserve, BinLeft
      <3>2. tag \in Tags /\ ~(tag < tag_end_)
        BY <1>1, <3>1 DEF Tags
      <3>3. ~Owned(tag) /\ tag \notin lost /\ ~Binned(tag)
        BY <3>2, Zenon DEF TimerInv, TagsHold
      <3>4. \A t \in Tags : t < tag_end_' <=> t < tag_end_ \/ t = tag
        BY <1>1, <3>1 DEF Tags
      <3>5. \A t \in Tags : Binned(t)' <=> Binned(t) /\ t # tag
        BY <3>1, <3>3, Zenon DEF Binned
      <3>6. tag_end_' \in 0..MaxTags
        BY <1>1, <3>1
      <3>7. QED
        BY <1>1, <3>1, <3>2, <3>3, <3>4, <3>5, <3>6, Zenon
    <2>3. QED
      BY <2>1, <2>2, Zenon
  <1>3. /\ timers_' = [timers_ EXCEPT ![tag] = [@ EXCEPT !.handler_ = u, !.in_progress_ = FALSE]]
        /\ timer_id_' = [timer_id_ EXCEPT ![u] = tag]
        /\ UNCHANGED <<queued_timers_, release_handler_memory_>>
    BY Zenon DEF Reserve
  <1> HIDE DEF tag, reuse
  <1>4. /\ timers_' \in [Tags -> Entry] /\ timers_'[tag].handler_ = u
        /\ ~timers_'[tag].in_progress_
        /\ \A t \in Tags : t # tag => timers_'[t] = timers_[t]
    <2> DEFINE n == [timers_[tag] EXCEPT !.handler_ = u, !.in_progress_ = FALSE]
    <2>1. timers_ \in [Tags -> Entry] /\ timers_[tag] \in Entry
      BY <1>2, Zenon DEF TimerInv, Typed, Entry
    <2>2. n \in Entry /\ n.handler_ = u /\ ~n.in_progress_
      BY <2>1, Zenon DEF Entry
    <2> HIDE DEF n
    <2>3. timers_' = [timers_ EXCEPT ![tag] = n]
      BY <1>3, Zenon DEF n
    <2>4. QED
      BY <1>2, <2>1, <2>2, <2>3, Zenon
  <1>5. /\ timer_id_' \in [Users -> Tags \cup {NoTag}] /\ timer_id_'[u] = tag
        /\ \A v \in Users : v # u => timer_id_'[v] = timer_id_[v]
        /\ \A t \in Tags : Owned(t)' <=> Owned(t) \/ t = tag
    <2>1. timer_id_ \in [Users -> Tags \cup {NoTag}]
      BY Zenon DEF TimerInv, Typed
    <2>2. /\ timer_id_' \in [Users -> Tags \cup {NoTag}] /\ timer_id_'[u] = tag
          /\ \A v \in Users : v # u => timer_id_'[v] = timer_id_[v]
      BY <1>2, <1>3, <2>1, Zenon
    <2>3. \A t \in Tags : Owned(t)' <=> Owned(t) \/ t = tag
      BY <2>2, Zenon DEF Owned
    <2>4. QED
      BY <2>2, <2>3, Zenon
  <1>6. \A c \in Contexts : pc[c] \in {"idle", "handler"} /\ (Active(c) => cur[c].tag # tag)
    BY <1>2, Calling DEF TimerInv, ExpiryHolds, Handled, Active, Owned
  <1>7. Typed'
    <2>1. ran' \in [Users -> Nat] /\ posting' \in Jobs \cup {NoTimer}
      BY Zenon DEF TimerInv, Typed
    <2>2. QED
      BY <1>2, <1>3, <1>4, <1>5, <2>1, Zenon DEF TimerInv, Typed
  <1>8. TagsHold'
    <2>1. \A v, w \in Users : v # w /\ timer_id_'[v] # NoTag => timer_id_'[v] # timer_id_'[w]
      BY <1>2, <1>5 DEF TimerInv, TagsHold, Owned
    <2>2. \A t \in Tags : /\ Owned(t)' => ~Binned(t)' /\ t \notin lost
                          /\ Binned(t)' => t \notin lost
      BY <1>2, <1>5, Zenon DEF TimerInv, TagsHold
    <2>3. \A t \in Tags : Owned(t)' \/ Binned(t)' \/ t \in lost <=> t < tag_end_'
      BY <1>2, <1>5, Zenon DEF TimerInv, TagsHold
    <2>4. QED
      BY <1>2, <2>1, <2>2, <2>3, Zenon DEF TagsHold
  <1>9. ThreadHolds'
    BY <1>2, <1>5, <1>6, Zenon DEF TimerInv, ThreadHolds
  <1>10. UsersHold'
    <2>1. \A v \in Users : timer_id_'[v] # NoTag => timers_'[timer_id_'[v]].handler_ = v
      <3>1. \A v \in Users : v # u /\ timer_id_[v] # NoTag => timer_id_[v] \in Tags /\ timer_id_[v] # tag
        BY <1>2, Zenon DEF TimerInv, Typed, Owned
      <3>2. QED
        BY <1>4, <1>5, <3>1 DEF TimerInv, UsersHold
    <2>2. ASSUME NEW q \in queued_timers_
          PROVE  /\ timers_'[q.tag_].is_valid_
                 /\ \E v \in Users : /\ timer_id_'[v] = q.tag_
                                     /\ v \in Waitable => async_wait_in_progress_'[v]
                                     /\ v \in OneShot => timers_'[q.tag_].interval_ = 0
      <3>1. q.tag_ \in Tags
        BY Zenon DEF TimerInv, Typed
      <3>2. PICK v \in Users : /\ timer_id_[v] = q.tag_
                               /\ v \in Waitable => async_wait_in_progress_[v]
                               /\ v \in OneShot => timers_[q.tag_].interval_ = 0
        BY Zenon DEF TimerInv, UsersHold
      <3>3. v # u /\ q.tag_ # tag
        BY <1>2, <3>1, <3>2, Zenon DEF Owned
      <3>4. timers_'[q.tag_] = timers_[q.tag_] /\ timer_id_'[v] = q.tag_
        BY <1>4, <1>5, <3>1, <3>2, <3>3, Zenon
      <3>5. timers_[q.tag_].is_valid_
        BY Zenon DEF TimerInv, UsersHold
      <3>6. QED
        BY <3>2, <3>3, <3>4, <3>5, Zenon
    <2>3. QED
      BY <1>3, <2>1, <2>2, Zenon DEF UsersHold
  <1>11. ExpiryHolds'
    <2>1. ASSUME NEW c \in Contexts, Active(c)
          PROVE  /\ pc[c] = "handler" /\ cur[c].tag \in Tags /\ cur[c].handler \in Users
                 /\ timers_'[cur[c].tag] = timers_[cur[c].tag]
                 /\ timer_id_'[cur[c].handler] = cur[c].tag /\ cur[c].handler # u
      BY <1>4, <1>5, <1>6, <2>1 DEF TimerInv, ExpiryHolds, Handled, Active
    <2>2. ~release_handler_memory_
      BY <1>6, Zenon DEF TimerInv, ExpiryHolds, Handled
    <2>3. \A t \in Tags : timers_'[t].in_progress_ => timers_[t].in_progress_
      BY <1>4, Zenon
    <2>4. \A t \in Tags : timers_'[t].in_progress_ => \E c \in Contexts : Active(c) /\ cur[c].tag = t
      BY <2>3, Zenon DEF TimerInv, ExpiryHolds, Handled
    <2>5. ASSUME NEW c \in Contexts, Active(c)
          PROVE  /\ timers_'[cur[c].tag].handler_ = cur[c].handler /\ timers_'[cur[c].tag].in_progress_
                 /\ cur[c].handler \in Waitable => async_wait_in_progress_'[cur[c].handler]
                 /\ c = Sync => cur[c].handler \in Waitable /\ cur[c].tag \notin QueuedTags
      BY <2>1, <2>5 DEF TimerInv, ExpiryHolds, Handled
    <2>6. \A c, d \in Contexts : Active(c) /\ Active(d) /\ c # d => cur[c].tag # cur[d].tag
      BY Zenon DEF TimerInv, ExpiryHolds, Handled
    <2>7. QED
      BY <1>3, <2>1, <2>2, <2>4, <2>5, <2>6 DEF ExpiryHolds, Handled, Active, QueuedTags
  <1>12. RunsHold'
    <2>1. tag \notin QueuedTags /\ posting = NoTimer
      BY <1>2, Calling DEF TimerInv, UsersHold, QueuedTags, Owned
    <2>2. ran'[u] = 0 /\ \A v \in Users : v # u => ran'[v] = ran[v]
      BY Zenon DEF TimerInv, Typed
    <2>3. QED
      BY <1>3, <1>5, <2>1, <2>2 DEF TimerInv, RunsHold, Active, QueuedTags
  <1>13. QED
    BY <1>7, <1>8, <1>9, <1>10, <1>11, <1>12, Zenon DEF TimerInv

LEMMA RegisterTimedTaskStep ==
  ASSUME TimerInv, Sequential, NEW u \in Jobs, RegisterTimedTask(u)
  PROVE  TimerInv'
  <1>1. u \in Users /\ async_wait_in_progress_' = async_wait_in_progress_ /\ posting' = u
    BY Zenon DEF RegisterTimedTask
  <1>2. async_wait_in_progress_ \in [Waitable -> BOOLEAN]
    BY Zenon DEF TimerInv, Typed
  <1>3. MayCall /\ timer_id_[u] = NoTag /\ Reserve(u) /\ ran' = [ran EXCEPT ![u] = 0]
        /\ UNCHANGED <<now, pc, cur, lost, periodic_job_ids_>>
    BY Zenon DEF RegisterTimedTask
  <1>4. QED
    BY <1>1, <1>2, <1>3, ReserveStep, Zenon

LEMMA ConstructTimerStep ==
  ASSUME TimerInv, Sequential, NEW u \in Waitable, ConstructTimer(u)
  PROVE  TimerInv'
  <1>1. u \in Users /\ MayCall /\ timer_id_[u] = NoTag /\ Reserve(u) /\ ran' = [ran EXCEPT ![u] = 0]
        /\ UNCHANGED <<now, pc, cur, lost, periodic_job_ids_>> /\ posting' = posting
    BY Zenon DEF ConstructTimer
  <1>2. posting' = NoTimer
    BY <1>1, Calling, Zenon
  <1>3. /\ async_wait_in_progress_' \in [Waitable -> BOOLEAN]
        /\ \A v \in Waitable : v # u => async_wait_in_progress_'[v] = async_wait_in_progress_[v]
    BY Zenon DEF ConstructTimer, TimerInv, Typed
  <1>4. QED
    BY <1>1, <1>2, <1>3, ReserveStep, Zenon

-----------------------------------------------------------------------------
(* The calls of the users: posting and cancelling jobs, waiting on and     *)
(* destroying timers.                                                      *)

(* Dequeue() gives a tag back that its user has: to the bin, or, when the  *)
(* timer is valid but has left the queue, to nobody.                       *)
LEMMA DequeueTags ==
  ASSUME TimerInv, NEW u \in Users, NEW tag \in Tags, timer_id_[u] = tag, Dequeue(tag),
         timer_id_' = [timer_id_ EXCEPT ![u] = NoTag]
  PROVE  /\ timer_tag_recycle_bin_' \in Seq(Tags) /\ lost' \subseteq Tags /\ TagsHold'
         /\ timer_id_' \in [Users -> Tags \cup {NoTag}] /\ timer_id_'[u] = NoTag
         /\ \A v \in Users : v # u => timer_id_'[v] = timer_id_[v]
         /\ \A t \in Tags : Owned(t)' <=> Owned(t) /\ t # tag
  <1>1. /\ timer_tag_recycle_bin_ \in Seq(Tags) /\ lost \subseteq Tags
        /\ timer_id_ \in [Users -> Tags \cup {NoTag}]
    BY Zenon DEF TimerInv, Typed
  <1>2. Owned(tag) /\ ~Binned(tag) /\ tag \notin lost /\ tag_end_' = tag_end_
    BY Zenon DEF TimerInv, TagsHold, Owned, Dequeue
  <1>3. /\ timer_id_' \in [Users -> Tags \cup {NoTag}] /\ timer_id_'[u] = NoTag
        /\ \A v \in Users : v # u => timer_id_'[v] = timer_id_[v]
    BY <1>1, Zenon
  <1>4. \A v \in Users : v # u => timer_id_[v] # tag
    BY Zenon DEF TimerInv, TagsHold
  <1>5. \A t \in Tags : Owned(t)' <=> Owned(t) /\ t # tag
    BY <1>3, <1>4, Zenon DEF Owned
  <1>6. /\ timer_tag_recycle_bin_' \in Seq(Tags) /\ lost' \subseteq Tags /\ Distinct(timer_tag_recycle_bin_')
        /\ \/ lost' = lost /\ \A t \in Tags : Binned(t)' <=> Binned(t) \/ t = tag
           \/ lost' = lost \cup {tag} /\ \A t \in Tags : Binned(t)' <=> Binned(t)
    <2>1. CASE timers_[tag].is_valid_ /\ tag \notin QueuedTags
      <3>1. timer_tag_recycle_bin_' = timer_tag_recycle_bin_ /\ lost' = lost \cup {tag}
        BY <2>1, Zenon DEF Dequeue, Dequeues
      <3>2. QED
        BY <1>1, <3>1, Zenon DEF Binned, TimerInv, TagsHold
    <2>2. CASE ~timers_[tag].is_valid_ \/ tag \in QueuedTags
      <3>1. timer_tag_recycle_bin_' = Append(timer_tag_recycle_bin_, tag) /\ lost' = lost
        BY <2>2, Zenon DEF Dequeue, Dequeues, RecycleTimerTag
      <3>2. Distinct(timer_tag_recycle_bin_)
        BY Zenon DEF TimerInv, TagsHold
      <3>3. QED
        BY <1>1, <1>2, <3>1, <3>2, AppendBin, Zenon DEF Binned
    <2>3. QED
      BY <2>1, <2>2, Zenon
  <1>7. TagsHold'
    <2>1. \A v, w \in Users : v # w /\ timer_id_'[v] # NoTag => timer_id_'[v] # timer_id_'[w]
      BY <1>3 DEF TimerInv, TagsHold
    <2>2. \A t \in Tags : /\ Owned(t)' => ~Binned(t)' /\ t \notin lost'
                          /\ Binned(t)' => t \notin lost'
      BY <1>2, <1>5, <1>6, Zenon DEF TimerInv, TagsHold
    <2>3. \A t \in Tags : Owned(t)' \/ Binned(t)' \/ t \in lost' <=> t < tag_end_'
      BY <1>2, <1>5, <1>6, Zenon DEF TimerInv, TagsHold
    <2>4. QED
      BY <1>6, <2>1, <2>2, <2>3, Zenon DEF TagsHold
  <1>8. QED
    BY <1>3, <1>5, <1>6, <1>7, Zenon

LEMMA DequeueEntry ==
  ASSUME TimerInv, NEW u \in Users, NEW tag \in Tags, timer_id_[u] = tag, Dequeue(tag),
         timer_id_' = [timer_id_ EXCEPT ![u] = NoTag], UNCHANGED async_wait_in_progress_
  PROVE  /\ timers_' \in [Tags -> Entry]
         /\ \A t \in Tags : /\ t # tag => timers_'[t] = timers_[t]
                            /\ timers_'[t].in_progress_ = timers_[t].in_progress_
                            /\ timers_[t].in_progress_ => timers_'[t].handler_ = timers_[t].handler_
         /\ queued_timers_' \subseteq queued_timers_ /\ \A q \in queued_timers_' : q.tag_ # tag
         /\ release_handler_memory_' \in BOOLEAN
         /\ release_handler_memory_' => release_handler_memory_ \/ timers_[tag].in_progress_
         /\ UsersHold'
  <1> DEFINE o == timers_[tag]
             n == [o EXCEPT !.handler_ = HandlerLeft(o), !.is_valid_ = FALSE]
  <1>1. timers_ \in [Tags -> Entry] /\ o \in Entry /\ release_handler_memory_ \in BOOLEAN
    BY Zenon DEF TimerInv, Typed
  <1>2. /\ n \in Entry /\ n.in_progress_ = o.in_progress_
        /\ o.in_progress_ => n.handler_ = o.handler_
    <2> HIDE DEF o
    <2>1. QED
      BY <1>1, Zenon DEF Entry, HandlerLeft
  <1>3. \/ ~o.is_valid_ /\ UNCHANGED <<timers_, queued_timers_, release_handler_memory_>>
        \/ /\ timers_' = [timers_ EXCEPT ![tag] = n]
           /\ queued_timers_' = queued_timers_ \ EntryOf(tag)
           /\ release_handler_memory_' = (release_handler_memory_ \/ o.in_progress_)
    BY Zenon DEF Dequeue
  <1> HIDE DEF n
  <1>4. /\ timers_' \in [Tags -> Entry]
        /\ \A t \in Tags : /\ t # tag => timers_'[t] = timers_[t]
                           /\ timers_'[t].in_progress_ = timers_[t].in_progress_
                           /\ timers_[t].in_progress_ => timers_'[t].handler_ = timers_[t].handler_
    BY <1>1, <1>2, <1>3
  <1>5. queued_timers_' \subseteq queued_timers_ /\ \A q \in queued_timers_' : q.tag_ # tag
    <2>1. ~o.is_valid_ => \A q \in queued_timers_ : q.tag_ # tag
      BY Zenon DEF TimerInv, UsersHold
    <2>2. QED
      BY <1>3, <2>1, Zenon DEF EntryOf
  <1>6. /\ release_handler_memory_' \in BOOLEAN
        /\ release_handler_memory_' => release_handler_memory_ \/ o.in_progress_
    <2>1. o.in_progress_ \in BOOLEAN
      BY <1>1, Zenon DEF Entry
    <2>2. QED
      BY <1>1, <1>3, <2>1
  <1>7. UsersHold'
    <2>1. /\ timer_id_'[u] = NoTag
          /\ \A v \in Users : v # u => timer_id_'[v] = timer_id_[v] /\ timer_id_[v] # tag
      BY Zenon DEF TimerInv, Typed, TagsHold
    <2>2. \A v \in Users : timer_id_'[v] # NoTag => timers_'[timer_id_'[v]].handler_ = v
      <3>1. \A v \in Users : v # u /\ timer_id_[v] # NoTag => timer_id_[v] \in Tags
        BY Zenon DEF TimerInv, Typed
      <3>2. QED
        BY <1>4, <2>1, <3>1 DEF TimerInv, UsersHold
    <2>3. ASSUME NEW q \in queued_timers_'
          PROVE  /\ timers_'[q.tag_].is_valid_
                 /\ \E v \in Users : /\ timer_id_'[v] = q.tag_
                                     /\ v \in Waitable => async_wait_in_progress_[v]
                                     /\ v \in OneShot => timers_'[q.tag_].interval_ = 0
      <3>1. q \in queued_timers_ /\ q.tag_ \in Tags /\ timers_'[q.tag_] = timers_[q.tag_] /\ q.tag_ # tag
        BY <1>4, <1>5 DEF TimerInv, Typed
      <3>2. QED
        BY <2>1, <3>1 DEF TimerInv, UsersHold
    <2>4. QED
      BY <2>2, <2>3, Zenon DEF UsersHold
  <1>8. QED
    BY <1>4, <1>5, <1>6, <1>7, Zenon

(* A timer that is not running is removed. *)
LEMMA RemoveIdleStep ==
  ASSUME TimerInv, Sequential, MayCall, NEW u \in Users, NEW tag \in Tags, timer_id_[u] = tag,
         Dequeue(tag), timer_id_' = [timer_id_ EXCEPT ![u] = NoTag],
         \A c \in Contexts : Active(c) => cur[c].handler # u,
         periodic_job_ids_' \subseteq Tags,
         UNCHANGED <<now, pc, cur, async_wait_in_progress_, posting, ran>>
  PROVE  TimerInv'
  <1>1. /\ \A v \in Users : v # u => timer_id_'[v] = timer_id_[v]
        /\ timer_id_'[u] = NoTag
        /\ \A x \in Tags : x # tag => timers_'[x] = timers_[x]
        /\ \A x \in Tags : timers_'[x].in_progress_ = timers_[x].in_progress_
        /\ queued_timers_' \subseteq queued_timers_
        /\ release_handler_memory_' => release_handler_memory_ \/ timers_[tag].in_progress_
    <2>1. UNCHANGED async_wait_in_progress_
      BY Zenon
    <2>2. timer_id_'[u] = NoTag /\ \A v \in Users : v # u => timer_id_'[v] = timer_id_[v]
      BY DequeueTags, Zenon
    <2>3. /\ \A t \in Tags : /\ t # tag => timers_'[t] = timers_[t]
                             /\ timers_'[t].in_progress_ = timers_[t].in_progress_
                             /\ timers_[t].in_progress_ => timers_'[t].handler_ = timers_[t].handler_
          /\ queued_timers_' \subseteq queued_timers_ /\ \A q \in queued_timers_' : q.tag_ # tag
          /\ release_handler_memory_' => release_handler_memory_ \/ timers_[tag].in_progress_
      BY <2>1, DequeueEntry, ZenonT(30)
    <2>4. QED
      BY <2>2, <2>3, Zenon
  <1>2. QueuedTags' \subseteq QueuedTags /\ NoTag \notin QueuedTags'
    <2>1. \A q \in queued_timers_ : q.tag_ \in Tags
      BY Zenon DEF TimerInv, Typed
    <2>2. QED
      BY <1>1, <2>1 DEF QueuedTags
  <1>3. posting = NoTimer /\ \A c \in Contexts : pc[c] \in {"idle", "handler"}
    BY Calling, Zenon
  <1>4. ASSUME NEW c \in Contexts, Active(c)
        PROVE  /\ cur[c].tag \in Tags /\ cur[c].handler \in Users /\ pc[c] = "handler"
               /\ timer_id_[cur[c].handler] = cur[c].tag /\ cur[c].handler # u /\ cur[c].tag # tag
    <2>1. /\ cur[c].tag \in Tags /\ cur[c].handler \in Users /\ pc[c] = "handler"
          /\ timer_id_[cur[c].handler] = cur[c].tag /\ cur[c].handler # u
      BY <1>3, <1>4, Zenon DEF TimerInv, ExpiryHolds, Handled, Active
    <2>2. QED
      BY <2>1, Zenon DEF TimerInv, TagsHold
  <1>5. ~timers_[tag].in_progress_ /\ ~release_handler_memory_
    BY <1>3, <1>4 DEF TimerInv, ExpiryHolds, Handled
  <1>6. Typed'
    <2>1. queued_timers_' \subseteq [tag_ : Tags, expiry_ : Int]
      BY DequeueEntry, Zenon DEF TimerInv, Typed
    <2>2. tag_end_' = tag_end_
      BY Zenon DEF Dequeue
    <2>3. QED
      BY <2>1, <2>2, DequeueTags, DequeueEntry, Zenon DEF TimerInv, Typed
  <1>7. ThreadHolds'
    BY <1>3, Zenon DEF TimerInv, ThreadHolds
  <1>8. ExpiryHolds'
    <2>1. ~release_handler_memory_'
      BY <1>1, <1>5, Zenon
    <2>2. ASSUME NEW c \in Contexts, Active(c)
          PROVE  /\ timers_'[cur[c].tag].handler_ = cur[c].handler /\ timers_'[cur[c].tag].in_progress_
                 /\ timer_id_'[cur[c].handler] = cur[c].tag
                 /\ cur[c].handler \in Waitable => async_wait_in_progress_[cur[c].handler]
                 /\ c = Sync => cur[c].handler \in Waitable /\ cur[c].tag \notin QueuedTags'
      <3>1. timers_'[cur[c].tag] = timers_[cur[c].tag] /\ timer_id_'[cur[c].handler] = cur[c].tag
        BY <1>1, <1>4, <2>2
      <3>2. QED
        BY <1>2, <2>2, <3>1 DEF TimerInv, ExpiryHolds, Handled
    <2>3. \A t \in Tags : timers_'[t].in_progress_ => \E c \in Contexts : Active(c) /\ cur[c].tag = t
      BY <1>1, Zenon DEF TimerInv, ExpiryHolds, Handled
    <2>4. \A c, d \in Contexts : Active(c) /\ Active(d) /\ c # d => cur[c].tag # cur[d].tag
      BY Zenon DEF TimerInv, ExpiryHolds, Handled
    <2>5. QED
      BY <1>4, <2>1, <2>2, <2>3, <2>4 DEF ExpiryHolds, Handled, Active
  <1>9. RunsHold'
    <2>1. \A v \in Users : timer_id_[v] \notin QueuedTags => timer_id_'[v] \notin QueuedTags'
      BY <1>1, <1>2
    <2>2. QED
      BY <2>1 DEF TimerInv, RunsHold, Active
  <1>10. QED
    BY <1>6, <1>7, <1>8, <1>9, DequeueTags, DequeueEntry, Zenon DEF TimerInv

LEMMA CancelTimedJobStep ==
  ASSUME TimerInv, Sequential, NEW u \in Jobs, CancelTimedJob(u)
  PROVE  TimerInv'
  <1> DEFINE tag == timer_id_[u]
  <1>1. u \in Users /\ tag \in Tags /\ MayCall /\ ~Running(u)
    BY Zenon DEF CancelTimedJob, TimerInv, Typed, Sequential
  <1>2. \A c \in Contexts : Active(c) => cur[c].handler # u
    BY <1>1, Calling, Zenon DEF Active, Running
  <1>3. /\ Dequeue(tag) /\ timer_id_' = [timer_id_ EXCEPT ![u] = NoTag]
        /\ periodic_job_ids_' = periodic_job_ids_ \ {tag}
        /\ UNCHANGED <<now, pc, cur, async_wait_in_progress_, posting, ran>>
    BY Zenon DEF CancelTimedJob, RemoveTimedTaskAsync
  <1>4. periodic_job_ids_' \subseteq Tags
    BY <1>3, Zenon DEF TimerInv, Typed
  <1> HIDE DEF tag
  <1>5. QED
    BY <1>1, <1>2, <1>3, <1>4, RemoveIdleStep, Zenon DEF tag

LEMMA DestroyTimerStep ==
  ASSUME TimerInv, Sequential, NEW u \in Waitable, DestroyTimer(u)
  PROVE  TimerInv'
  <1> DEFINE tag == timer_id_[u]
  <1>1. u \in Users /\ tag \in Tags /\ MayCall
    BY Zenon DEF DestroyTimer, TimerInv, Typed
  <1>2. \A c \in Contexts : Active(c) => cur[c].handler # u
    BY Zenon DEF DestroyTimer
  <1>3. /\ Dequeue(tag) /\ timer_id_' = [timer_id_ EXCEPT ![u] = NoTag]
        /\ UNCHANGED <<now, pc, cur, async_wait_in_progress_, posting, ran, periodic_job_ids_>>
    BY Zenon DEF DestroyTimer
  <1>4. periodic_job_ids_' \subseteq Tags
    BY <1>3, Zenon DEF TimerInv, Typed
  <1> HIDE DEF tag
  <1>5. QED
    BY <1>1, <1>2, <1>3, <1>4, RemoveIdleStep, Zenon DEF tag

-----------------------------------------------------------------------------
(* DoAddTimer(): the timer of a user that has not run since it was         *)
(* reserved is queued.                                                     *)
LEMMA DoAddTimerStep ==
  ASSUME TimerInv, Sequential, NEW u \in Users, NEW expiry \in Int, NEW interval \in Int,
         timer_id_[u] # NoTag, DoAddTimer(timer_id_[u], expiry, interval),
         u \in OneShot => interval = 0, u \in Deferred \cup OneShot => ran[u] = 0,
         \A c \in Contexts : pc[c] \in {"idle", "handler"},
         pc[Sync] = "handler" => cur[Sync].handler # u,
         UNCHANGED <<now, pc, cur, timer_id_, history>>,
         posting' = NoTimer, periodic_job_ids_' \subseteq Tags,
         async_wait_in_progress_' \in [Waitable -> BOOLEAN],
         u \in Waitable => async_wait_in_progress_'[u],
         \A v \in Waitable : v # u => async_wait_in_progress_'[v] = async_wait_in_progress_[v]
  PROVE  TimerInv'
  <1> DEFINE tag == timer_id_[u]
             n == [timers_[tag] EXCEPT !.expiry_ = expiry, !.interval_ = interval, !.is_valid_ = TRUE]
  <1>1. tag \in Tags /\ timers_ \in [Tags -> Entry] /\ timers_[tag] \in Entry
    BY DEF TimerInv, Typed
  <1>2. /\ n \in Entry /\ n.is_valid_ /\ n.interval_ = interval
        /\ n.handler_ = timers_[tag].handler_ /\ n.in_progress_ = timers_[tag].in_progress_
    <2> HIDE DEF tag
    <2>1. QED
      BY <1>1, Zenon DEF Entry
  <1>3. /\ timers_' = [timers_ EXCEPT ![tag] = n]
        /\ queued_timers_' = queued_timers_ \cup {[tag_ |-> tag, expiry_ |-> expiry]}
        /\ UNCHANGED <<timer_tag_recycle_bin_, tag_end_, release_handler_memory_>>
    BY Zenon DEF DoAddTimer
  <1> HIDE DEF n
  <1>4. /\ timers_' \in [Tags -> Entry] /\ \A t \in Tags : t # tag => timers_'[t] = timers_[t]
        /\ \A t \in Tags : /\ timers_'[t].handler_ = timers_[t].handler_
                           /\ timers_'[t].in_progress_ = timers_[t].in_progress_
        /\ timers_'[tag].is_valid_ /\ timers_'[tag].interval_ = interval
    BY <1>1, <1>2, <1>3, Zenon
  <1>5. Typed'
    <2>1. queued_timers_' \subseteq [tag_ : Tags, expiry_ : Int]
      BY <1>1, <1>3 DEF TimerInv, Typed
    <2>2. QED
      BY <1>3, <1>4, <2>1, Zenon DEF TimerInv, Typed
  <1>6. TagsHold'
    BY <1>3, Zenon DEF TimerInv, TagsHold, Owned, Binned
  <1>7. ThreadHolds'
    BY Zenon DEF TimerInv, ThreadHolds
  <1>8. \A v \in Users : v # u => timer_id_[v] # tag
    BY Zenon DEF TimerInv, TagsHold
  <1>9. UsersHold'
    <2>1. \A v \in Users : timer_id_[v] # NoTag => timers_'[timer_id_[v]].handler_ = v
      <3>1. \A v \in Users : timer_id_[v] # NoTag => timer_id_[v] \in Tags
        BY DEF TimerInv, Typed
      <3>2. QED
        BY <1>4, <3>1 DEF TimerInv, UsersHold
    <2>2. ASSUME NEW q \in queued_timers_'
          PROVE  /\ timers_'[q.tag_].is_valid_
                 /\ \E v \in Users : /\ timer_id_[v] = q.tag_
                                     /\ v \in Waitable => async_wait_in_progress_'[v]
                                     /\ v \in OneShot => timers_'[q.tag_].interval_ = 0
      <3>1. CASE q.tag_ = tag
        BY <1>4, <3>1, Zenon
      <3>2. CASE q.tag_ # tag
        <4>1. q \in queued_timers_ /\ q.tag_ \in Tags
          BY <1>3, <3>2 DEF TimerInv, Typed
        <4>2. timers_'[q.tag_] = timers_[q.tag_]
          BY <1>4, <3>2, <4>1, Zenon
        <4>3. PICK v \in Users : /\ timer_id_[v] = q.tag_
                                 /\ v \in Waitable => async_wait_in_progress_[v]
                                 /\ v \in OneShot => timers_[q.tag_].interval_ = 0
          BY <4>1, Zenon DEF TimerInv, UsersHold
        <4>4. v # u
          BY <3>2, <4>3, Zenon
        <4>5. timers_[q.tag_].is_valid_
          BY <4>1, Zenon DEF TimerInv, UsersHold
        <4>6. QED
          BY <4>2, <4>3, <4>4, <4>5, Zenon
      <3>3. QED
        BY <3>1, <3>2, Zenon
    <2>3. QED
      BY <2>1, <2>2, Zenon DEF UsersHold
  <1>10. \A t : t \in QueuedTags' <=> t \in QueuedTags \/ t = tag
    <2> DEFINE e == [tag_ |-> tag, expiry_ |-> expiry]
    <2>1. e.tag_ = tag
      BY Zenon
    <2> HIDE DEF e, tag
    <2>2. queued_timers_' = queued_timers_ \cup {e}
      BY <1>3, Zenon DEF e
    <2>3. QED
      BY <2>1, <2>2 DEF QueuedTags
  <1>11. ExpiryHolds'
    <2>1. ASSUME NEW c \in Contexts, Active(c)
          PROVE  /\ pc[c] = "handler" /\ cur[c].tag \in Tags /\ cur[c].handler \in Users
                 /\ timers_'[cur[c].tag].handler_ = cur[c].handler /\ timers_'[cur[c].tag].in_progress_
                 /\ timer_id_[cur[c].handler] = cur[c].tag
                 /\ cur[c].handler \in Waitable => async_wait_in_progress_'[cur[c].handler]
                 /\ c = Sync => cur[c].handler \in Waitable /\ cur[c].tag \notin QueuedTags'
      <3>1. /\ pc[c] = "handler" /\ cur[c].tag \in Tags /\ cur[c].handler \in Users
            /\ timers_[cur[c].tag].handler_ = cur[c].handler /\ timers_[cur[c].tag].in_progress_
            /\ timer_id_[cur[c].handler] = cur[c].tag
            /\ cur[c].handler \in Waitable => async_wait_in_progress_[cur[c].handler]
            /\ c = Sync => cur[c].handler \in Waitable /\ cur[c].tag \notin QueuedTags
        BY <2>1, Zenon DEF TimerInv, ExpiryHolds, Handled, Active
      <3>2. c = Sync => cur[c].tag # tag
        BY <1>8, <3>1
      <3>3. QED
        BY <1>4, <1>10, <3>1, <3>2
    <2>2. \A t \in Tags : timers_'[t].in_progress_ => \E c \in Contexts : Active(c) /\ cur[c].tag = t
      BY <1>4, Zenon DEF TimerInv, ExpiryHolds, Handled
    <2>3. \A c, d \in Contexts : Active(c) /\ Active(d) /\ c # d => cur[c].tag # cur[d].tag
      BY Zenon DEF TimerInv, ExpiryHolds, Handled
    <2>4. ~release_handler_memory_'
      BY <1>3 DEF TimerInv, ExpiryHolds, Handled
    <2>5. QED
      BY <2>1, <2>2, <2>3, <2>4 DEF ExpiryHolds, Handled, Active
  <1>12. RunsHold'
    BY <1>8, <1>10 DEF TimerInv, RunsHold, Active
  <1>13. QED
    BY <1>5, <1>6, <1>7, <1>9, <1>11, <1>12, Zenon DEF TimerInv

LEMMA AddTimedTaskStep ==
  ASSUME TimerInv, Sequential, NEW u \in Jobs, NEW delay \in Delays, AddTimedTask(u, delay)
  PROVE  TimerInv'
  <1> DEFINE interval == IF u \in Periodic THEN delay ELSE 0
  <1>1. u \in Users /\ posting = u /\ u # NoTimer
    BY Zenon DEF AddTimedTask
  <1>2. timer_id_[u] # NoTag /\ \A c \in Contexts : pc[c] \in {"idle", "handler"}
    BY <1>1, Zenon DEF TimerInv, ThreadHolds
  <1>3. now + delay \in Int /\ interval \in Int
    BY DEF Delays, TimerInv, Typed
  <1>4. u \notin Waitable /\ u \notin OneShot /\ (u \in Deferred => ran[u] = 0)
    BY <1>1, Zenon DEF TimerInv, RunsHold
  <1>5. pc[Sync] = "handler" => cur[Sync].handler # u
    BY <1>4 DEF TimerInv, ExpiryHolds, Handled, Active
  <1>6. /\ DoAddTimer(timer_id_[u], now + delay, interval) /\ posting' = NoTimer
        /\ UNCHANGED <<now, pc, cur, timer_id_, history>>
        /\ async_wait_in_progress_' = async_wait_in_progress_
        /\ periodic_job_ids_' = periodic_job_ids_ \cup {timer_id_[u]}
    BY Zenon DEF AddTimedTask
  <1>7. periodic_job_ids_' \subseteq Tags /\ async_wait_in_progress_ \in [Waitable -> BOOLEAN]
    BY <1>1, <1>2, <1>6 DEF TimerInv, Typed
  <1> HIDE DEF interval
  <1>8. QED
    BY <1>1, <1>2, <1>3, <1>4, <1>5, <1>6, <1>7, DoAddTimerStep, Zenon

LEMMA WaitAsyncStep ==
  ASSUME TimerInv, Sequential, NEW u \in Waitable, NEW expiry \in Int, NEW interval \in Int,
         WaitAsync(u, expiry, interval)
  PROVE  TimerInv'
  <1>1. /\ u \in Users /\ MayCall /\ timer_id_[u] # NoTag /\ ~async_wait_in_progress_[u]
        /\ u \in OneShot => interval = 0
        /\ DoAddTimer(timer_id_[u], expiry, interval)
        /\ UNCHANGED <<now, pc, cur, timer_id_, history>> /\ UNCHANGED <<periodic_job_ids_, posting>>
    BY Zenon DEF WaitAsync
  <1>2. posting' = NoTimer /\ \A c \in Contexts : pc[c] \in {"idle", "handler"}
    BY <1>1, Calling, Zenon
  <1>3. u \in Deferred \cup OneShot => ran[u] = 0
    <2>1. u \in OneShot => ran[u] <= 1 /\ ran[u] # 1 /\ ran[u] \in Nat
      BY <1>1, Zenon DEF TimerInv, Typed, RunsHold
    <2>2. QED
      BY <2>1
  <1>4. pc[Sync] = "handler" => cur[Sync].handler # u
    BY <1>1 DEF TimerInv, ExpiryHolds, Handled, Active
  <1>5. /\ async_wait_in_progress_' \in [Waitable -> BOOLEAN] /\ async_wait_in_progress_'[u]
        /\ \A v \in Waitable : v # u => async_wait_in_progress_'[v] = async_wait_in_progress_[v]
    BY Zenon DEF WaitAsync, TimerInv, Typed
  <1>6. periodic_job_ids_' \subseteq Tags
    BY <1>1, Zenon DEF TimerInv, Typed
  <1>7. QED
    BY <1>1, <1>2, <1>3, <1>4, <1>5, <1>6, DoAddTimerStep, Zenon

=============================================================================
