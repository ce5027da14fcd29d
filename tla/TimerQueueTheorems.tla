------------------------- MODULE TimerQueueTheorems -------------------------
(***************************************************************************)
(* The expiry of a timer preserves the invariant of TimerQueueProofs, the  *)
(* setting of the timerfd, and the theorems about TimerQueue.              *)
(***************************************************************************)
EXTENDS TimerQueueProofs, FiniteSetTheorems, WellFoundedInduction

USE TimerAssumption, TimerConstants DEF NoTag, NoExpiry, queue, loop, users, history

LEMMA BeginExpiryStep ==
  ASSUME TimerInv, Sequential, NEW c \in Contexts, NEW u \in Users, NEW tag \in Tags, timer_id_[u] = tag,
         BeginExpiry(c, tag), ~Active(c), posting = NoTimer,
         \A d \in Contexts : d # c => pc[d] \in {"idle", "handler"},
         \A d \in Contexts : Active(d) => cur[d].handler # u,
         c = Sync => u \in Waitable /\ tag \notin QueuedTags,
         c # Sync => pc[Sync] = "idle",
         u \in Deferred \cup OneShot => ran[u] = 0,
         async_wait_in_progress_' \in [Waitable -> BOOLEAN],
         u \in Waitable => async_wait_in_progress_'[u],
         \A v \in Waitable : v # u => async_wait_in_progress_'[v] = async_wait_in_progress_[v],
         UNCHANGED <<queued_timers_, timer_tag_recycle_bin_, tag_end_, release_handler_memory_, now,
                     timer_id_, periodic_job_ids_, posting, lost>>
  PROVE  TimerInv'
  <1> DEFINE n == [timers_[tag] EXCEPT !.in_progress_ = TRUE]
             x == [tag |-> tag, handler |-> u, start |-> now]
  <1>1. /\ timers_ \in [Tags -> Entry] /\ timers_[tag] \in Entry /\ timers_[tag].handler_ = u
        /\ cur \in [Contexts -> [tag : Tags \cup {NoTag}, handler : Users \cup {NoTimer}, start : Int]]
        /\ pc \in [Contexts -> {"idle", "locked", "handler", "finish"}] /\ now \in Int
        /\ ran \in [Users -> Nat]
    BY DEF TimerInv, Typed, UsersHold
  <1>2. /\ n \in Entry /\ n.in_progress_ /\ n.handler_ = u /\ n.is_valid_ = timers_[tag].is_valid_
        /\ n.interval_ = timers_[tag].interval_
    BY <1>1, Zenon DEF Entry
  <1>3. /\ timers_' = [timers_ EXCEPT ![tag] = n] /\ pc' = [pc EXCEPT ![c] = "handler"]
        /\ cur' = [cur EXCEPT ![c] = x]
    BY <1>1, Zenon DEF BeginExpiry
  <1>4. /\ x.tag = tag /\ x.handler = u
        /\ x \in [tag : Tags \cup {NoTag}, handler : Users \cup {NoTimer}, start : Int]
    BY <1>1, Zenon
  <1>5. \A v \in Users : ran'[v] = IF v = u /\ u \in Deferred \cup OneShot THEN ran[v] + 1 ELSE ran[v]
    BY <1>1 DEF BeginExpiry
  <1>6. ran' \in [Users -> Nat]
    BY <1>1 DEF BeginExpiry
  <1> HIDE DEF n, x
  <1>7. /\ timers_' \in [Tags -> Entry] /\ timers_'[tag] = n
        /\ \A t \in Tags : t # tag => timers_'[t] = timers_[t]
    BY <1>1, <1>2, <1>3, Zenon
  <1>8. /\ pc'[c] = "handler" /\ cur'[c] = x
        /\ \A d \in Contexts : d # c => pc'[d] = pc[d] /\ cur'[d] = cur[d]
        /\ Active(c)' /\ \A d \in Contexts : d # c => (Active(d)' <=> Active(d))
    BY <1>1, <1>3 DEF Active
  <1>9. Typed'
    <2>1. /\ pc' \in [Contexts -> {"idle", "locked", "handler", "finish"}]
          /\ cur' \in [Contexts -> [tag : Tags \cup {NoTag}, handler : Users \cup {NoTimer}, start : Int]]
      BY <1>1, <1>3, <1>4, Zenon
    <2>2. QED
      BY <1>6, <1>7, <2>1, Zenon DEF TimerInv, Typed
  <1>10. TagsHold'
    BY Zenon DEF TimerInv, TagsHold, Owned, Binned
  <1>11. ThreadHolds'
    BY <1>8, Zenon DEF TimerInv, ThreadHolds
  <1>12. UsersHold'
    <2>1. \A t \in Tags : /\ timers_'[t].handler_ = timers_[t].handler_
                          /\ timers_'[t].is_valid_ = timers_[t].is_valid_
                          /\ timers_'[t].interval_ = timers_[t].interval_
      BY <1>1, <1>2, <1>7
    <2>2. \A v \in Users : timer_id_[v] # NoTag => timer_id_[v] \in Tags
      BY Zenon DEF TimerInv, Typed
    <2>3. \A q \in queued_timers_ : q.tag_ \in Tags
      BY Zenon DEF TimerInv, Typed
    <2>4. \A v \in Users : timer_id_[v] # NoTag => timers_'[timer_id_[v]].handler_ = v
      BY <2>1, <2>2, Zenon DEF TimerInv, UsersHold
    <2>5. \A v \in Waitable : async_wait_in_progress_[v] => async_wait_in_progress_'[v]
      BY Zenon
    <2>6. ASSUME NEW q \in queued_timers_
          PROVE  /\ timers_'[q.tag_].is_valid_
                 /\ \E v \in Users : /\ timer_id_[v] = q.tag_
                                     /\ v \in Waitable => async_wait_in_progress_'[v]
                                     /\ v \in OneShot => timers_'[q.tag_].interval_ = 0
      BY <2>1, <2>3, <2>5 DEF TimerInv, UsersHold
    <2>7. QED
      BY <2>4, <2>6, Zenon DEF UsersHold
  <1>13. ExpiryHolds'
    <2>1. ASSUME NEW d \in Contexts, Active(d), d # c
          PROVE  /\ pc[d] = "handler" /\ cur[d].tag \in Tags /\ cur[d].handler \in Users /\ cur[d].tag # tag
                 /\ timers_'[cur[d].tag].handler_ = cur[d].handler /\ timers_'[cur[d].tag].in_progress_
                 /\ timer_id_[cur[d].handler] = cur[d].tag
                 /\ cur[d].handler \in Waitable => async_wait_in_progress_'[cur[d].handler]
                 /\ d = Sync => cur[d].handler \in Waitable /\ cur[d].tag \notin QueuedTags
      <3>1. /\ pc[d] = "handler" /\ cur[d].tag \in Tags /\ cur[d].handler \in Users
            /\ timers_[cur[d].tag].handler_ = cur[d].handler /\ timers_[cur[d].tag].in_progress_
            /\ timer_id_[cur[d].handler] = cur[d].tag
            /\ cur[d].handler \in Waitable => async_wait_in_progress_[cur[d].handler]
            /\ d = Sync => cur[d].handler \in Waitable /\ cur[d].tag \notin QueuedTags
        BY <2>1, Zenon DEF TimerInv, ExpiryHolds, Handled, Active
      <3>2. cur[d].handler # u /\ cur[d].tag # tag
        BY <2>1, <3>1 DEF TimerInv, TagsHold
      <3>3. QED
        BY <1>7, <3>1, <3>2, Zenon
    <2>2. \A t \in Tags : timers_'[t].in_progress_ => \E d \in Contexts : Active(d)' /\ cur'[d].tag = t
      <3>1. SUFFICES ASSUME NEW t \in Tags, timers_'[t].in_progress_
                     PROVE  \E d \in Contexts : Active(d)' /\ cur'[d].tag = t
        BY Zenon
      <3>2. CASE t = tag
        BY <1>4, <1>8, <3>2, Zenon
      <3>3. CASE t # tag
        <4>1. PICK d \in Contexts : Active(d) /\ cur[d].tag = t
          BY <1>7, <3>1, <3>3 DEF TimerInv, ExpiryHolds, Handled
        <4>2. QED
          BY <1>8, <4>1, Zenon
      <3>4. QED
        BY <3>2, <3>3, Zenon
    <2>3. ~release_handler_memory_
      <3>1. \A w \in Workers : pc[w] # "finish"
        BY Zenon DEF Active
      <3>2. QED
        BY <3>1, Zenon DEF TimerInv, ExpiryHolds, Handled
    <2>4. \A d, e \in Contexts : Active(d)' /\ Active(e)' /\ d # e => cur'[d].tag # cur'[e].tag
      BY <1>4, <1>8, <2>1 DEF TimerInv, ExpiryHolds, Handled
    <2>5. ASSUME NEW d \in Contexts, Active(d)'
          PROVE  /\ cur'[d].tag \in Tags /\ cur'[d].handler \in Users /\ pc'[d] = "handler"
                 /\ timers_'[cur'[d].tag].handler_ = cur'[d].handler /\ timers_'[cur'[d].tag].in_progress_
                 /\ timer_id_[cur'[d].handler] = cur'[d].tag
                 /\ cur'[d].handler \in Waitable => async_wait_in_progress_'[cur'[d].handler]
                 /\ d = Sync => cur'[d].handler \in Waitable /\ cur'[d].tag \notin QueuedTags
      <3>1. CASE d = c
        BY <1>2, <1>4, <1>7, <1>8, <3>1
      <3>2. CASE d # c
        BY <1>8, <2>1, <2>5, <3>2
      <3>3. QED
        BY <3>1, <3>2, Zenon
    <2>6. QED
      BY <2>2, <2>3, <2>4, <2>5, Zenon DEF ExpiryHolds, Handled, QueuedTags
  <1>14. RunsHold'
    <2>1. SUFFICES ASSUME NEW v \in Deferred \cup OneShot
                   PROVE  /\ ran'[v] <= 1
                          /\ ran'[v] = 1 => /\ v \in OneShot => async_wait_in_progress_'[v]
                                            /\ \/ timer_id_[v] \notin QueuedTags
                                               \/ \E d \in Contexts : Active(d)' /\ cur'[d].handler = v
      BY Zenon DEF RunsHold, QueuedTags
    <2>2. CASE v = u
      BY <1>4, <1>5, <1>8, <2>2
    <2>3. CASE v # u
      <3>1. ran'[v] = ran[v] /\ v \in Users
        BY <1>5, <2>3, Zenon
      <3>2. QED
        BY <1>8, <2>3, <3>1 DEF TimerInv, RunsHold
    <2>4. QED
      BY <2>2, <2>3, Zenon
  <1>15. QED
    BY <1>9, <1>10, <1>11, <1>12, <1>13, <1>14, Zenon DEF TimerInv

LEMMA WaitAsyncZeroExpiryStep ==
  ASSUME TimerInv, Sequential, NEW u \in Waitable, WaitAsyncZeroExpiry(u)
  PROVE  TimerInv'
  <1> DEFINE tag == timer_id_[u]
  <1>1. /\ u \in Users /\ MayCall /\ tag # NoTag /\ ~async_wait_in_progress_[u] /\ pc[Sync] = "idle"
        /\ BeginExpiry(Sync, tag)
        /\ UNCHANGED <<queued_timers_, timer_tag_recycle_bin_, tag_end_, release_handler_memory_, now,
                       timer_id_, periodic_job_ids_, posting, lost>>
    BY Zenon DEF WaitAsyncZeroExpiry
  <1>2. tag \in Tags
    BY <1>1, Zenon DEF TimerInv, Typed
  <1>3. posting = NoTimer /\ \A d \in Contexts : pc[d] \in {"idle", "handler"}
    BY <1>1, Calling, Zenon
  <1>4. \A d \in Contexts : Active(d) => cur[d].handler # u
    BY <1>1 DEF TimerInv, ExpiryHolds, Handled
  <1>5. tag \notin QueuedTags
    <2>1. SUFFICES ASSUME NEW q \in queued_timers_, q.tag_ = tag PROVE FALSE
      BY Zenon DEF QueuedTags
    <2>2. PICK v \in Users : timer_id_[v] = tag /\ (v \in Waitable => async_wait_in_progress_[v])
      BY <2>1, Zenon DEF TimerInv, UsersHold
    <2>3. v = u
      BY <1>1, <2>2, Zenon DEF TimerInv, TagsHold
    <2>4. QED
      BY <1>1, <2>2, <2>3, Zenon
  <1>6. u \in Deferred \cup OneShot => ran[u] = 0
    <2>1. u \in OneShot => ran[u] <= 1 /\ ran[u] # 1 /\ ran[u] \in Nat
      BY <1>1, Zenon DEF TimerInv, Typed, RunsHold
    <2>2. QED
      BY <2>1
  <1>7. /\ async_wait_in_progress_' \in [Waitable -> BOOLEAN] /\ async_wait_in_progress_'[u]
        /\ \A v \in Waitable : v # u => async_wait_in_progress_'[v] = async_wait_in_progress_[v]
    BY Zenon DEF WaitAsyncZeroExpiry, TimerInv, Typed
  <1>8. ~Active(Sync)
    BY <1>1, Zenon DEF Active
  <1> HIDE DEF tag
  <1>9. timer_id_[u] = tag
    BY Zenon DEF tag
  <1>10. QED
    BY <1>1, <1>2, <1>3, <1>4, <1>5, <1>6, <1>7, <1>8, <1>9, BeginExpiryStep, Zenon

(* The one worker: while it is in HandleExpiry() nothing else is active.   *)
LEMMA OneWorker ==
  ASSUME TimerInv, Sequential, NEW w \in Workers, pc[w] \in {"locked", "finish"} \/ Alone(w)
  PROVE  /\ pc[Sync] = "idle" /\ ~Active(Sync) /\ Contexts = {w, Sync} /\ Workers = {w}
  <1>1. pc[Sync] = "idle"
    BY Zenon DEF TimerInv, ThreadHolds, Sequential, Alone
  <1>2. Workers = {w}
    BY Zenon DEF Sequential
  <1>3. QED
    BY <1>1, <1>2, Zenon DEF Contexts, Active

LEMMA HandleOneExpiryStep ==
  ASSUME TimerInv, Sequential, NEW w \in Workers, HandleOneExpiry(w)
  PROVE  TimerInv'
  <1>1. pc[w] = "locked" /\ w # Sync
    BY Zenon DEF HandleOneExpiry
  <1>2. pc[Sync] = "idle" /\ ~Active(Sync) /\ Contexts = {w, Sync}
    BY <1>1, OneWorker, Zenon
  <1>3. ~Active(w) /\ posting = NoTimer
    BY <1>1, Zenon DEF Active, TimerInv, ThreadHolds
  <1>4. PICK q \in queued_timers_ : BeginExpiry(w, q.tag_)
    BY Zenon DEF HandleOneExpiry, Front
  <1>5. /\ UNCHANGED <<queued_timers_, timer_tag_recycle_bin_, tag_end_, release_handler_memory_, now,
                       timer_id_, periodic_job_ids_, posting, lost>>
        /\ async_wait_in_progress_' = async_wait_in_progress_
        /\ async_wait_in_progress_ \in [Waitable -> BOOLEAN]
    BY Zenon DEF HandleOneExpiry, TimerInv, Typed
  <1>6. q.tag_ \in Tags /\ q.tag_ \in QueuedTags
    BY Zenon DEF TimerInv, Typed, QueuedTags
  <1>7. PICK u \in Users : timer_id_[u] = q.tag_ /\ (u \in Waitable => async_wait_in_progress_[u])
    BY Zenon DEF TimerInv, UsersHold
  <1>8. \A d \in Contexts : ~Active(d)
    BY <1>2, <1>3, Zenon
  <1>9. u \in Deferred \cup OneShot => ran[u] = 0
    <2>1. u \in Deferred \cup OneShot => ran[u] <= 1 /\ ran[u] # 1 /\ ran[u] \in Nat
      BY <1>6, <1>7, <1>8, Zenon DEF TimerInv, Typed, RunsHold
    <2>2. QED
      BY <2>1
  <1>10. \A d \in Contexts : d # w => pc[d] \in {"idle", "handler"}
    BY <1>2, Zenon
  <1> DEFINE tag == q.tag_
  <1>11. tag \in Tags /\ timer_id_[u] = tag /\ BeginExpiry(w, tag)
    BY <1>4, <1>6, <1>7, Zenon
  <1> HIDE DEF tag
  <1>12. QED
    BY <1>1, <1>2, <1>3, <1>5, <1>7, <1>8, <1>9, <1>10, <1>11, BeginExpiryStep

(* The handler of a deferred job gives its tag back: only the one worker   *)
(* is inside an expiry then.                                               *)
LEMMA DeferredReturnsStep ==
  ASSUME TimerInv, Sequential, NEW c \in Contexts, HandlerReturns(c), NEW u \in Deferred, NEW tag,
         cur[c].handler = u, cur[c].tag = tag
  PROVE  TimerInv'
  <1>1. /\ pc[c] = "handler" /\ Alone(c) /\ Active(c) /\ posting = NoTimer
        /\ pc' = [pc EXCEPT ![c] = "finish"] /\ RemoveTimedTaskAsync(u, tag)
        /\ UNCHANGED <<now, cur, async_wait_in_progress_, posting, ran>>
    BY Zenon DEF HandlerReturns, Active, Alone, Sequential
  <1>2. /\ tag \in Tags /\ u \in Users /\ timer_id_[u] = tag /\ c # Sync /\ c \in Workers
        /\ timers_[tag].in_progress_ /\ timers_[tag].handler_ = u
    BY <1>1, Zenon DEF TimerInv, ExpiryHolds, Handled, Contexts
  <1>3. pc[Sync] = "idle" /\ ~Active(Sync) /\ Contexts = {c, Sync}
    BY <1>1, <1>2, OneWorker, Zenon
  <1>4. Dequeue(tag) /\ timer_id_' = [timer_id_ EXCEPT ![u] = NoTag] /\ periodic_job_ids_' \subseteq Tags
    BY <1>1, Zenon DEF RemoveTimedTaskAsync, TimerInv, Typed
  <1>5. /\ timer_tag_recycle_bin_' \in Seq(Tags) /\ lost' \subseteq Tags /\ TagsHold'
        /\ timer_id_' \in [Users -> Tags \cup {NoTag}] /\ timer_id_'[u] = NoTag
        /\ \A v \in Users : v # u => timer_id_'[v] = timer_id_[v]
        /\ \A t \in Tags : Owned(t)' <=> Owned(t) /\ t # tag
    BY <1>2, <1>4, DequeueTags, ZenonT(30)
  <1>6. /\ timers_' \in [Tags -> Entry]
        /\ \A t \in Tags : /\ timers_'[t].in_progress_ = timers_[t].in_progress_
                           /\ timers_[t].in_progress_ => timers_'[t].handler_ = timers_[t].handler_
        /\ queued_timers_' \subseteq queued_timers_ /\ release_handler_memory_' \in BOOLEAN /\ UsersHold'
    BY <1>1, <1>2, <1>4, DequeueEntry, ZenonT(30)
  <1>7. /\ pc' \in [Contexts -> {"idle", "locked", "handler", "finish"}] /\ pc'[c] = "finish"
        /\ pc'[Sync] = "idle" /\ cur' = cur /\ Active(c)' /\ ~Active(Sync)'
    BY <1>1, <1>2, <1>3, Zenon DEF TimerInv, Typed, Active
  <1>8. Typed'
    <2>1. tag_end_' = tag_end_
      BY <1>4, Zenon DEF Dequeue
    <2>2. queued_timers_' \subseteq [tag_ : Tags, expiry_ : Int]
      BY <1>6, Zenon DEF TimerInv, Typed
    <2>3. QED
      BY <1>1, <1>4, <1>5, <1>6, <1>7, <2>1, <2>2 DEF TimerInv, Typed
  <1>9. ThreadHolds'
    BY <1>1, <1>7, Zenon DEF ThreadHolds
  <1>10. ExpiryHolds'
    <2>1. /\ cur'[c].tag = tag /\ cur'[c].handler = u /\ u \in Deferred
      BY <1>7, Zenon
    <2>2. timers_'[tag].in_progress_ /\ timers_'[tag].handler_ = u /\ ~Owned(tag)'
      BY <1>2, <1>5, <1>6, Zenon
    <2>3. \A t \in Tags : timers_'[t].in_progress_ => \E d \in Contexts : Active(d)' /\ cur'[d].tag = t
      <3>1. \A t \in Tags : timers_[t].in_progress_ => t = tag
        BY <1>3 DEF TimerInv, ExpiryHolds, Handled
      <3>2. QED
        BY <1>6, <1>7, <2>1, <3>1, Zenon
    <2>4. \A d \in Contexts : Active(d)' => d = c
      BY <1>3, <1>7, Zenon
    <2>5. \E w \in Workers : pc'[w] = "finish" /\ cur'[w].handler \in Deferred
      BY <1>2, <1>7, <2>1, Zenon
    <2>6. Handled(c)'
      BY <1>2, <1>5, <1>7, <2>1, <2>2 DEF Handled
    <2>7. QED
      BY <2>3, <2>4, <2>5, <2>6, Zenon DEF ExpiryHolds
  <1>11. RunsHold'
    <2>1. SUFFICES ASSUME NEW v \in Deferred \cup OneShot, ran[v] = 1
                   PROVE  \/ timer_id_'[v] \notin QueuedTags'
                          \/ \E d \in Contexts : Active(d)' /\ cur'[d].handler = v
      BY <1>1, Zenon DEF TimerInv, RunsHold
    <2>2. CASE v = u
      BY <1>7, <2>2, Zenon
    <2>3. CASE v # u
      <3>1. ~\E d \in Contexts : Active(d) /\ cur[d].handler = v
        BY <1>3, <2>3, Zenon
      <3>2. timer_id_[v] \notin QueuedTags /\ timer_id_'[v] = timer_id_[v]
        BY <1>5, <2>1, <2>3, <3>1, Zenon DEF TimerInv, RunsHold
      <3>3. QED
        BY <1>6, <3>2, Zenon DEF QueuedTags
    <2>4. QED
      BY <2>2, <2>3, Zenon
  <1>12. QED
    BY <1>5, <1>6, <1>8, <1>9, <1>10, <1>11, Zenon DEF TimerInv

LEMMA HandlerReturnsStep ==
  ASSUME TimerInv, Sequential, NEW c \in Contexts, HandlerReturns(c)
  PROVE  TimerInv'
  <1>1. CASE cur[c].handler \in Deferred
    BY <1>1, DeferredReturnsStep, Zenon
  <1>2. CASE cur[c].handler \notin Deferred
    <2>1. /\ pc[c] = "handler" /\ Alone(c) /\ posting = NoTimer /\ pc' = [pc EXCEPT ![c] = "finish"]
          /\ UNCHANGED <<queue, timer_id_, periodic_job_ids_, lost>>
          /\ UNCHANGED <<now, cur, async_wait_in_progress_, posting, ran>>
      BY <1>2, Zenon DEF HandlerReturns, Alone, Sequential
    <2>2. /\ pc' \in [Contexts -> {"idle", "locked", "handler", "finish"}] /\ pc'[c] = "finish"
          /\ \A d \in Contexts : d # c => pc'[d] = pc[d]
          /\ \A d \in Contexts : Active(d)' <=> Active(d)
      BY <2>1, Zenon DEF TimerInv, Typed, Active
    <2>3. Typed' /\ TagsHold' /\ UsersHold'
      BY <2>1, <2>2 DEF TimerInv, Typed, TagsHold, Owned, Binned, UsersHold
    <2>4. ThreadHolds'
      <3>1. c # Sync => pc[Sync] = "idle"
        BY <2>1, Zenon DEF Alone, Sequential
      <3>2. c = Sync => \A w \in Workers : pc[w] \notin {"locked", "finish"}
        BY <2>1, Zenon DEF TimerInv, ThreadHolds
      <3>3. QED
        BY <2>1, <2>2, <3>1, <3>2 DEF TimerInv, ThreadHolds
    <2>5. ExpiryHolds'
      <3>2. \A w \in Workers : pc[w] = "finish" => pc'[w] = "finish"
        BY <2>2, Zenon
      <3>3. release_handler_memory_' => \E w \in Workers : pc'[w] = "finish" /\ cur'[w].handler \in Deferred
        BY <2>1, <3>2, Zenon DEF TimerInv, ExpiryHolds, Handled
      <3>4. ASSUME NEW d \in Contexts, Active(d)' PROVE Handled(d)'
        <4>1. Handled(d) /\ Active(d)
          BY <2>2, <3>4, Zenon DEF TimerInv, ExpiryHolds
        <4>2. Owned(cur[d].tag)' <=> Owned(cur[d].tag)
          BY <2>1, Zenon DEF Owned
        <4>3. /\ cur'[d] = cur[d] /\ timers_' = timers_ /\ timer_id_' = timer_id_
              /\ async_wait_in_progress_' = async_wait_in_progress_ /\ QueuedTags' = QueuedTags
          BY <2>1, Zenon DEF QueuedTags
        <4>4. cur[d].handler \in Deferred => pc'[d] = pc[d]
          BY <1>2, <2>2, Zenon
        <4>5. QED
          BY <4>1, <4>2, <4>3, <4>4, Zenon DEF Handled
      <3>5. QED
        BY <2>1, <2>2, <3>3, <3>4 DEF TimerInv, ExpiryHolds
    <2>6. RunsHold'
      BY <2>1, <2>2 DEF TimerInv, RunsHold, QueuedTags
    <2>7. QED
      BY <2>3, <2>4, <2>5, <2>6, Zenon DEF TimerInv
  <1>3. QED
    BY <1>1, <1>2, Zenon

(* A sequence without repetition is as long as its range is large. *)
LEMMA DistinctCounts ==
  ASSUME NEW bin \in Seq(Tags), Distinct(bin)
  PROVE  Cardinality({bin[i] : i \in DOMAIN bin}) = Len(bin)
  <1> DEFINE S == {bin[i] : i \in DOMAIN bin}
  <1>1. Len(bin) \in Nat /\ DOMAIN bin = 1..Len(bin)
    OBVIOUS
  <1>2. bin \in Bijection(1..Len(bin), S)
    BY <1>1 DEF Distinct, Bijection, Injection, Surjection, IsInjective
  <1>3. ExistsBijection(1..Len(bin), S)
    BY <1>2, Zenon DEF ExistsBijection
  <1>4. QED
    BY <1>1, <1>3, FS_CountingElements, Zenon

LEMMA TagsParted ==
  ASSUME TimerInv
  PROVE  TagsPartition
  <1> DEFINE owned == {timer_id_[u] : u \in Users} \ {NoTag}
             binned == {timer_tag_recycle_bin_[i] : i \in DOMAIN timer_tag_recycle_bin_}
  <1>1. timer_tag_recycle_bin_ \in Seq(Tags) /\ Distinct(timer_tag_recycle_bin_)
    BY Zenon DEF TimerInv, Typed, TagsHold
  <1>2. Cardinality(binned) = Len(timer_tag_recycle_bin_)
    BY <1>1, DistinctCounts, Zenon
  <1>3. owned \subseteq Tags /\ \A t \in Tags : t \in owned <=> Owned(t)
    BY SMTT(30) DEF TimerInv, Typed, Owned
  <1>4. binned \subseteq Tags /\ \A t \in Tags : t \in binned <=> Binned(t)
    <2>1. DOMAIN timer_tag_recycle_bin_ = 1..Len(timer_tag_recycle_bin_)
      BY <1>1
    <2>2. \A i \in 1..Len(timer_tag_recycle_bin_) : timer_tag_recycle_bin_[i] \in Tags
      BY <1>1
    <2>3. QED
      BY <2>1, <2>2, Zenon DEF Binned, Contains
  <1> HIDE DEF owned, binned
  <1>5. owned \cap binned = {} /\ owned \cap lost = {} /\ binned \cap lost = {}
    BY <1>3, <1>4, Zenon DEF TimerInv, TagsHold
  <1>6. owned \cup binned \cup lost = 0..(tag_end_ - 1)
    <2>1. lost \subseteq Tags /\ tag_end_ \in 0..kMaxTimerCount
      BY DEF TimerInv, Typed
    <2>2. \A t \in Tags : t \in owned \cup binned \cup lost <=> t < tag_end_
      BY <1>3, <1>4, Zenon DEF TimerInv, TagsHold
    <2>3. \A t : t \in 0..(tag_end_ - 1) <=> t \in Tags /\ t < tag_end_
      BY <2>1 DEF Tags
    <2>4. QED
      BY <1>3, <1>4, <2>1, <2>2, <2>3, Zenon
  <1>7. \A u, v \in Users : u # v /\ timer_id_[u] # NoTag => timer_id_[u] # timer_id_[v]
    BY Zenon DEF TimerInv, TagsHold
  <1>8. QED
    BY <1>2, <1>5, <1>6, <1>7, Zenon DEF TagsPartition, owned, binned

-----------------------------------------------------------------------------
(* The end of an expiry: the handler is released only when the user of the *)
(* tag has given it back, and a one-shot timer leaves the queue.           *)
LEMMA FinishExpiryStep ==
  ASSUME TimerInv, Sequential, NEW c \in Contexts, FinishExpiry(c), NEW u, NEW tag,
         cur[c].handler = u, cur[c].tag = tag
  PROVE  TimerInv'
  <1> DEFINE o == timers_[tag]
             expiry == NextPeriod(cur[c].start, o.interval_)
             again == ~release_handler_memory_ /\ o.interval_ # 0
             n == Finished(o, again, expiry)
  <1>1. /\ pc[c] = "finish" /\ Alone(c) /\ Active(c) /\ posting = NoTimer
        /\ timers_' = [timers_ EXCEPT ![tag] = n]
        /\ release_handler_memory_' = FALSE
        /\ queued_timers_' = IF release_handler_memory_ THEN queued_timers_
                             ELSE IF again THEN Requeued(tag, expiry) ELSE Removed(tag)
        /\ pc' = [pc EXCEPT ![c] = IF c = Sync THEN "idle" ELSE "locked"]
        /\ cur' = [cur EXCEPT ![c] = NoExpiry]
        /\ UNCHANGED <<timer_tag_recycle_bin_, tag_end_, now, users, ran, lost>>
    BY Zenon DEF FinishExpiry, Active, Alone, Sequential
  <1>2. /\ tag \in Tags /\ u \in Users
        /\ IF u \in Deferred THEN ~Owned(tag) /\ timer_id_[u] = NoTag ELSE timer_id_[u] = tag
        /\ c = Sync => u \in Waitable /\ tag \notin QueuedTags
    BY <1>1, Zenon DEF TimerInv, ExpiryHolds, Handled
  <1>3. \A d \in Contexts : d # c => pc[d] \in {"idle", "handler"}
    <2>1. CASE c = Sync
      BY <1>1, <2>1, Zenon DEF TimerInv, Typed, ThreadHolds, Contexts
    <2>2. CASE c \in Workers
      BY <1>1, <2>2, OneWorker
    <2>3. QED
      BY <2>1, <2>2, Zenon DEF Contexts
  <1>4. release_handler_memory_ => u \in Deferred
    <2>1. SUFFICES ASSUME release_handler_memory_ PROVE u \in Deferred
      BY Zenon
    <2>2. PICK w \in Workers : pc[w] = "finish" /\ cur[w].handler \in Deferred
      BY <2>1, Zenon DEF TimerInv, ExpiryHolds, Handled
    <2>3. w = c
      BY <1>3, <2>2, Zenon
    <2>4. QED
      BY <2>2, <2>3, Zenon
  <1>5. /\ timers_ \in [Tags -> Entry] /\ o \in Entry /\ cur[c].start \in Int
        /\ release_handler_memory_ \in BOOLEAN
    BY <1>2, Zenon DEF TimerInv, Typed
  <1>6. expiry \in Int
    BY <1>5 DEF NextPeriod, Entry
  <1>7. /\ n \in Entry /\ ~n.in_progress_ /\ n.is_valid_ = o.is_valid_ /\ n.interval_ = o.interval_
        /\ u \notin Deferred => n.handler_ = o.handler_
    <2> HIDE DEF o, expiry, again
    <2>1. QED
      BY <1>4, <1>5, <1>6, Zenon DEF Entry, Finished
  <1> HIDE DEF expiry, n
  <1>8. /\ timers_' \in [Tags -> Entry] /\ timers_'[tag] = n
        /\ \A t \in Tags : t # tag => timers_'[t] = timers_[t]
    BY <1>1, <1>2, <1>5, <1>7, Zenon
  <1>9. \A r \in queued_timers_' : /\ r \in [tag_ : Tags, expiry_ : Int]
                                   /\ \E q \in queued_timers_ : q.tag_ = r.tag_
    <2>1. \A q \in queued_timers_ : q \in [tag_ : Tags, expiry_ : Int]
      BY Zenon DEF TimerInv, Typed
    <2>2. ASSUME NEW r \in Requeued(tag, expiry)
          PROVE  r \in [tag_ : Tags, expiry_ : Int] /\ \E q \in queued_timers_ : q.tag_ = r.tag_
      <3>1. PICK q \in queued_timers_ : r = IF q.tag_ = tag THEN [q EXCEPT !.expiry_ = expiry] ELSE q
        BY <2>2, Zenon DEF Requeued
      <3>2. q \in [tag_ : Tags, expiry_ : Int]
        BY <2>1, Zenon
      <3>3. r \in [tag_ : Tags, expiry_ : Int] /\ r.tag_ = q.tag_
        BY <1>6, <3>1, <3>2, Zenon
      <3>4. QED
        BY <3>3, Zenon
    <2>3. Removed(tag) \subseteq queued_timers_
      BY Zenon DEF Removed
    <2>4. queued_timers_' \in {queued_timers_, Requeued(tag, expiry), Removed(tag)}
      BY <1>1, Zenon
    <2>5. QED
      BY <2>1, <2>2, <2>3, <2>4, Zenon
  <1>10. \A t : t \in QueuedTags' => t \in QueuedTags
    BY <1>9, Zenon DEF QueuedTags
  <1>11. /\ pc' \in [Contexts -> {"idle", "locked", "handler", "finish"}]
         /\ pc'[c] = (IF c = Sync THEN "idle" ELSE "locked") /\ ~Active(c)'
         /\ \A d \in Contexts : d # c => pc'[d] = pc[d] /\ cur'[d] = cur[d] /\ (Active(d)' <=> Active(d))
         /\ cur' \in [Contexts -> [tag : Tags \cup {NoTag}, handler : Users \cup {NoTimer}, start : Int]]
    BY <1>1 DEF TimerInv, Typed, Active
  <1>12. Typed'
    BY <1>1, <1>8, <1>9, <1>11, Zenon DEF TimerInv, Typed
  <1>13. TagsHold'
    BY <1>1, Zenon DEF TimerInv, TagsHold, Owned, Binned
  <1>14. ThreadHolds'
    <2>1. c # Sync => pc[Sync] = "idle"
      BY <1>1, Zenon DEF Alone, Sequential
    <2>2. c = Sync => \A w \in Workers : pc[w] \notin {"locked", "finish"}
      BY <1>3, Zenon
    <2>3. QED
      BY <1>1, <1>11, <2>1, <2>2, Zenon DEF TimerInv, ThreadHolds
  <1>15. UsersHold'
    <2>1. \A v \in Users : timer_id_[v] # NoTag => timer_id_[v] \in Tags
      BY Zenon DEF TimerInv, Typed
    <2>2. ASSUME NEW v \in Users, timer_id_[v] # NoTag
          PROVE  timers_'[timer_id_[v]].handler_ = v
      <3>1. CASE timer_id_[v] = tag
        <4>1. u \notin Deferred
          BY <1>2, <3>1, Zenon DEF Owned
        <4>2. QED
          BY <1>7, <1>8, <2>2, <3>1, <4>1 DEF TimerInv, UsersHold
      <3>2. CASE timer_id_[v] # tag
        BY <1>8, <2>1, <2>2, <3>2 DEF TimerInv, UsersHold
      <3>3. QED
        BY <3>1, <3>2, Zenon
    <2>3. \A t \in Tags : /\ timers_'[t].is_valid_ = timers_[t].is_valid_
                          /\ timers_'[t].interval_ = timers_[t].interval_
      BY <1>7, <1>8, Zenon
    <2>4. ASSUME NEW r \in queued_timers_'
          PROVE  /\ timers_'[r.tag_].is_valid_
                 /\ \E v \in Users : /\ timer_id_[v] = r.tag_
                                     /\ v \in Waitable => async_wait_in_progress_[v]
                                     /\ v \in OneShot => timers_'[r.tag_].interval_ = 0
      <3>1. PICK q \in queued_timers_ : q.tag_ = r.tag_
        BY <1>9, Zenon
      <3>2. q.tag_ \in Tags
        BY Zenon DEF TimerInv, Typed
      <3>3. QED
        BY <2>3, <3>1, <3>2 DEF TimerInv, UsersHold
    <2>5. QED
      BY <1>1, <2>2, <2>4 DEF UsersHold
  <1>16. ExpiryHolds'
    <2>1. ASSUME NEW d \in Contexts, Active(d)'
          PROVE  /\ d # c /\ Active(d) /\ pc'[d] = "handler" /\ cur'[d] = cur[d]
                 /\ cur[d].tag \in Tags /\ cur[d].handler \in Users
                 /\ timers_'[cur[d].tag].handler_ = cur[d].handler /\ timers_'[cur[d].tag].in_progress_
                 /\ timer_id_[cur[d].handler] = cur[d].tag
                 /\ cur[d].handler \in Waitable => async_wait_in_progress_[cur[d].handler]
                 /\ d = Sync => cur[d].handler \in Waitable /\ cur[d].tag \notin QueuedTags'
      <3>1. d # c /\ Active(d) /\ cur'[d] = cur[d] /\ pc'[d] = pc[d] /\ pc[d] = "handler"
        BY <1>3, <1>11, <2>1, Zenon DEF Active
      <3>2. cur[d].tag # tag
        BY <1>1, <3>1, Zenon DEF TimerInv, ExpiryHolds, Handled
      <3>3. /\ cur[d].tag \in Tags /\ cur[d].handler \in Users
            /\ timers_[cur[d].tag].handler_ = cur[d].handler /\ timers_[cur[d].tag].in_progress_
            /\ timer_id_[cur[d].handler] = cur[d].tag
            /\ cur[d].handler \in Waitable => async_wait_in_progress_[cur[d].handler]
            /\ d = Sync => cur[d].handler \in Waitable /\ cur[d].tag \notin QueuedTags
        BY <3>1, Zenon DEF TimerInv, ExpiryHolds, Handled
      <3>4. QED
        BY <1>8, <1>10, <3>1, <3>2, <3>3, Zenon
    <2>2. ASSUME NEW t \in Tags, timers_'[t].in_progress_
          PROVE  \E d \in Contexts : Active(d)' /\ cur'[d].tag = t
      <3>1. t # tag /\ timers_[t].in_progress_
        BY <1>7, <1>8, <2>2
      <3>2. PICK d \in Contexts : Active(d) /\ cur[d].tag = t
        BY <3>1, Zenon DEF TimerInv, ExpiryHolds, Handled
      <3>3. QED
        BY <1>11, <3>1, <3>2, Zenon
    <2>3. \A d, e \in Contexts : Active(d)' /\ Active(e)' /\ d # e => cur'[d].tag # cur'[e].tag
      BY <2>1 DEF TimerInv, ExpiryHolds, Handled
    <2>4. QED
      BY <1>1, <2>1, <2>2, <2>3 DEF ExpiryHolds, Handled
  <1>17. RunsHold'
    <2>1. SUFFICES ASSUME NEW v \in Deferred \cup OneShot, ran[v] = 1
                   PROVE  \/ timer_id_[v] \notin QueuedTags'
                          \/ \E d \in Contexts : Active(d)' /\ cur'[d].handler = v
      BY <1>1, Zenon DEF TimerInv, RunsHold
    <2>2. \/ timer_id_[v] \notin QueuedTags
          \/ \E d \in Contexts : Active(d) /\ cur[d].handler = v
      BY <2>1, Zenon DEF TimerInv, RunsHold
    <2>3. CASE timer_id_[v] \notin QueuedTags
      BY <1>10, <2>3, Zenon
    <2>4. CASE \E d \in Contexts : d # c /\ Active(d) /\ cur[d].handler = v
      BY <1>11, <2>4, Zenon
    <2>5. CASE v = u
      <3>1. CASE u \in Deferred
        <4>1. NoTag \notin QueuedTags
          BY DEF QueuedTags, TimerInv, Typed
        <4>2. QED
          BY <1>2, <1>10, <2>5, <3>1, <4>1, Zenon
      <3>2. CASE u \notin Deferred /\ tag \in QueuedTags
        <4>1. PICK q \in queued_timers_ : q.tag_ = tag
          BY <3>2, Zenon DEF QueuedTags
        <4>2. PICK x \in Users : timer_id_[x] = tag /\ (x \in OneShot => o.interval_ = 0)
          BY <4>1, Zenon DEF TimerInv, UsersHold
        <4>3. x = u /\ timer_id_[u] = tag
          BY <1>2, <3>2, <4>2, Zenon DEF TimerInv, TagsHold
        <4>4. queued_timers_' = Removed(tag)
          BY <1>1, <1>4, <2>5, <3>2, <4>2, <4>3, Zenon
        <4>5. tag \notin QueuedTags'
          BY <4>4, Zenon DEF Removed, EntryOf, QueuedTags
        <4>6. QED
          BY <2>5, <4>3, <4>5, Zenon
      <3>3. CASE u \notin Deferred /\ tag \notin QueuedTags
        BY <1>2, <1>10, <2>5, <3>3, Zenon
      <3>4. QED
        BY <3>1, <3>2, <3>3, Zenon
    <2>6. QED
      BY <2>2, <2>3, <2>4, <2>5, Zenon
  <1>18. QED
    BY <1>12, <1>13, <1>14, <1>15, <1>16, <1>17, Zenon DEF TimerInv

(* Steps that only move a worker in or out of HandleExpiry(). *)
LEMMA LoopStep ==
  ASSUME TimerInv, Sequential, NEW w \in Workers, NEW at \in {"idle", "locked"}, ~Active(w),
         pc' = [pc EXCEPT ![w] = at], at = "locked" => pc[Sync] = "idle" /\ posting = NoTimer,
         UNCHANGED <<queue, now, cur, users, history>>
  PROVE  TimerInv'
  <1>1. /\ pc' \in [Contexts -> {"idle", "locked", "handler", "finish"}] /\ pc'[w] = at
        /\ \A d \in Contexts : d # w => pc'[d] = pc[d]
        /\ \A d \in Contexts : Active(d)' <=> Active(d)
    BY Zenon DEF TimerInv, Typed, Active
  <1>2. Typed' /\ TagsHold' /\ UsersHold'
    BY <1>1, Zenon DEF TimerInv, Typed, TagsHold, Owned, Binned, UsersHold
  <1>3. ThreadHolds'
    BY <1>1, Zenon DEF TimerInv, ThreadHolds
  <1>4. ExpiryHolds'
    <2>1. \A d \in Contexts : pc[d] = "finish" => pc'[d] = "finish"
      BY <1>1, Zenon DEF Active
    <2>2. \A d \in Contexts : Active(d) => pc'[d] = pc[d]
      BY <1>1, Zenon
    <2>3. ASSUME NEW d \in Contexts, Active(d)' PROVE Handled(d)'
      <3>1. Handled(d) /\ pc'[d] = pc[d]
        BY <1>1, <2>2, <2>3, Zenon DEF TimerInv, ExpiryHolds
      <3>2. Owned(cur[d].tag)' <=> Owned(cur[d].tag)
        BY Zenon DEF Owned
      <3>3. QueuedTags' = QueuedTags
        BY Zenon DEF QueuedTags
      <3>4. QED
        BY <3>1, <3>2, <3>3, Zenon DEF Handled
    <2>4. QED
      BY <1>1, <2>1, <2>3 DEF TimerInv, ExpiryHolds
  <1>5. RunsHold'
    BY <1>1 DEF TimerInv, RunsHold, QueuedTags
  <1>6. QED
    BY <1>2, <1>3, <1>4, <1>5, Zenon DEF TimerInv

(* What the invariant is about does not change, or only the clock.         *)
LEMMA QuietStep ==
  ASSUME TimerInv, now' \in Int, UNCHANGED <<queue, pc, cur, users, history>>
  PROVE  TimerInv'
  <1>1. Typed' /\ TagsHold' /\ ThreadHolds' /\ UsersHold'
    BY Zenon DEF TimerInv, Typed, TagsHold, Owned, Binned, ThreadHolds, UsersHold
  <1>2. /\ QueuedTags' = QueuedTags
        /\ \A d \in Contexts : (Active(d)' <=> Active(d)) /\ (Owned(cur[d].tag)' <=> Owned(cur[d].tag))
    BY Zenon DEF QueuedTags, Active, Owned
  <1>3. \A d \in Contexts : Handled(d) => Handled(d)'
    BY <1>2, Zenon DEF Handled
  <1>4. ExpiryHolds'
    BY <1>2, <1>3, Zenon DEF TimerInv, ExpiryHolds
  <1>5. RunsHold'
    BY <1>2, Zenon DEF TimerInv, RunsHold
  <1>6. QED
    BY <1>1, <1>4, <1>5, Zenon DEF TimerInv

LEMMA OperationStep ==
  ASSUME TimerInv, Sequential, NEW w \in Workers, Operation(w)
  PROVE  TimerInv'
  <1>1. CASE HandleExpiry(w)
    <2>1. /\ pc[w] = "idle" /\ Alone(w) /\ pc' = [pc EXCEPT ![w] = "locked"] /\ w # Sync
          /\ UNCHANGED <<queue, now, cur, users, history>>
      BY <1>1, Zenon DEF HandleExpiry
    <2>2. ~Active(w) /\ pc[Sync] = "idle" /\ posting = NoTimer
      BY <2>1, Zenon DEF Active, Alone, Sequential
    <2>3. QED
      BY <2>1, <2>2, LoopStep, Zenon
  <1>2. CASE HandleOneExpiry(w)
    BY <1>2, HandleOneExpiryStep, Zenon
  <1>3. CASE HandleExpiryReturns(w)
    <2>1. /\ pc[w] = "locked" /\ pc' = [pc EXCEPT ![w] = "idle"]
          /\ UNCHANGED <<queue, now, cur, users, history>>
      BY <1>3, Zenon DEF HandleExpiryReturns
    <2>2. ~Active(w)
      BY <2>1, Zenon DEF Active
    <2>3. QED
      BY <2>1, <2>2, LoopStep, Zenon
  <1>4. QED
    BY <1>1, <1>2, <1>3, Zenon DEF Operation

LEMMA TimerNext ==
  ASSUME TimerInv, Sequential, [Next]_vars
  PROVE  TimerInv'
  <1>0. now \in Int /\ now + MaxDelay \in Int
    BY DEF TimerInv, Typed
  <1>1. CASE Tick
    <2>1. now' \in Int /\ UNCHANGED <<queue, pc, cur, users, history>>
      BY <1>0, <1>1 DEF Tick
    <2>2. QED
      BY <2>1, QuietStep, Zenon
  <1>2. CASE Calls
    <2>1. ASSUME NEW u \in Jobs, RegisterTimedTask(u) PROVE TimerInv'
      BY <2>1, RegisterTimedTaskStep, Zenon
    <2>2. ASSUME NEW u \in Jobs, CancelTimedJob(u) PROVE TimerInv'
      BY <2>2, CancelTimedJobStep, Zenon
    <2>3. ASSUME NEW u \in Waitable, ConstructTimer(u) PROVE TimerInv'
      BY <2>3, ConstructTimerStep, Zenon
    <2>4. ASSUME NEW u \in Waitable, DestroyTimer(u) PROVE TimerInv'
      BY <2>4, DestroyTimerStep, Zenon
    <2>5. ASSUME NEW u \in Waitable, WaitAsyncZeroExpiry(u) PROVE TimerInv'
      BY <2>5, WaitAsyncZeroExpiryStep, Zenon
    <2>6. ASSUME NEW u \in Waitable, NEW e \in 1..(now + MaxDelay), NEW d \in Delays, WaitAsync(u, e, d)
          PROVE  TimerInv'
      <3>1. e \in Int /\ d \in Int
        BY <1>0 DEF Delays
      <3>2. QED
        BY <2>6, <3>1, WaitAsyncStep, Zenon
    <2>7. QED
      BY <1>2, <2>1, <2>2, <2>3, <2>4, <2>5, <2>6, Zenon DEF Calls
  <1>3. CASE Posting
    BY <1>3, AddTimedTaskStep, Zenon DEF Posting
  <1>4. CASE Poll
    <2>1. now' \in Int /\ UNCHANGED <<queue, pc, cur, users, history>>
      BY <1>0, <1>4, Zenon DEF Poll, HandleTimerEvent
    <2>2. QED
      BY <2>1, QuietStep, Zenon
  <1>5. CASE \E c \in Contexts : Expiry(c)
    <2>1. PICK c \in Contexts : HandlerReturns(c) \/ FinishExpiry(c)
      BY <1>5, Zenon DEF Expiry
    <2>2. CASE HandlerReturns(c)
      BY <2>2, HandlerReturnsStep, Zenon
    <2>3. CASE FinishExpiry(c)
      BY <2>3, FinishExpiryStep, Zenon
    <2>4. QED
      BY <2>1, <2>2, <2>3, Zenon
  <1>6. CASE \E w \in Workers : Operation(w)
    BY <1>6, OperationStep, Zenon
  <1>7. CASE UNCHANGED vars
    <2>1. now' \in Int /\ UNCHANGED <<queue, pc, cur, users, history>>
      BY <1>0, <1>7, Zenon DEF vars
    <2>2. QED
      BY <2>1, QuietStep, Zenon
  <1>8. QED
    BY <1>1, <1>2, <1>3, <1>4, <1>5, <1>6, <1>7, Zenon DEF Next

-----------------------------------------------------------------------------
(* On one thread, and with no job cancelled from its own task, the         *)
(* invariant holds of every behaviour of TimerQueue.                       *)
THEOREM TimerInvariant ==
  ASSUME Sequential
  PROVE  Spec => []TimerInv
  <1>1. TimerInv /\ [Next]_vars => TimerInv'
    BY TimerNext, Zenon
  <1>2. QED
    BY <1>1, TimerInit, PTL DEF Spec

(* HandleOneExpiry() runs its handler without the mutex: the entry keeps   *)
(* this handler until the mutex is taken again.                            *)
THEOREM TimerHandlerStaysValid ==
  ASSUME Sequential
  PROVE  Spec => []HandlerStaysValid
  BY TimerInvariant, TimerInvImplies, PTL

(* A deferred job and a one-shot wait call their handler at most once,     *)
(* though the timerfd is never read and stays readable meanwhile.          *)
THEOREM TimerOneShotRunsOnce ==
  ASSUME Sequential
  PROVE  Spec => []OneShotRunsOnce
  BY TimerInvariant, TimerInvImplies, PTL

(* GetNextAvailableTag(), Dequeue() and RecycleTimerTag(): no tag serves   *)
(* two timers and none is recycled twice, however many there are.          *)
THEOREM TimerTagsPartition ==
  ASSUME Sequential
  PROVE  Spec => []TagsPartition
  BY TimerInvariant, TagsParted, PTL

-----------------------------------------------------------------------------
(* The timerfd.  The zero time point disarms it, so that the clock, and    *)
(* with it every queued expiry, is past zero.                              *)
ClockHolds ==
    /\ now >= 1 /\ timer_fd_ \in Int
    /\ \A q \in queued_timers_ : q.expiry_ >= 1
    /\ \A t \in Tags : timers_[t].interval_ >= 0
    /\ \A c \in Contexts : Active(c) => cur[c].start >= 1

(* No expiry is to be handled yet, or being handled. *)
Unattended == posted = 0 /\ \A w \in Workers : pc[w] = "idle"

CoverInv ==
    /\ ClockHolds
    /\ Unattended => \A q \in queued_timers_ : timer_fd_ # 0 /\ timer_fd_ <= q.expiry_

LEMMA LeastExists ==
  ASSUME NEW S \in SUBSET Nat, S # {}
  PROVE  \E x \in S : \A y \in S : x <= y
  <1>1. PICK x \in S : \A y \in S : ~(<<y, x>> \in OpToRel(<, Nat))
    BY NatLessThanWellFounded, WFMin, Zenon
  <1>2. \A y \in S : ~(y < x)
    BY <1>1, Zenon DEF OpToRel
  <1>3. QED
    BY <1>2

LEMMA NextExpiryIsLeast ==
  ASSUME TimerInv, ClockHolds, queued_timers_ # {}
  PROVE  /\ NextExpiry \in Int /\ NextExpiry >= 1
         /\ (\A q \in queued_timers_ : NextExpiry <= q.expiry_)
         /\ \E q \in queued_timers_ : q.expiry_ = NextExpiry
  <1> DEFINE S == {q.expiry_ : q \in queued_timers_}
  <1>1. \A q \in queued_timers_ : q.expiry_ \in Nat /\ q.expiry_ >= 1
    <2>1. \A q \in queued_timers_ : q.expiry_ \in Int /\ q.expiry_ >= 1
      BY Zenon DEF TimerInv, Typed, ClockHolds
    <2>2. QED
      BY <2>1
  <1>2. S \in SUBSET Nat /\ S # {}
    BY <1>1
  <1>3. PICK x \in S : \A y \in S : x <= y
    <2> HIDE DEF S
    <2>1. QED
      BY <1>2, LeastExists, Zenon
  <1>4. NextExpiry \in S /\ \A y \in S : NextExpiry <= y
    BY <1>3, Zenon DEF NextExpiry, Min
  <1>5. QED
    BY <1>1, <1>4

LEMMA CoverInit == Init => CoverInv
  <1> SUFFICES ASSUME Init PROVE CoverInv
    BY Zenon
  <1>1. now = 1 /\ timer_fd_ = 0 /\ \A c \in Contexts : ~Active(c)
    BY Zenon DEF Init, Active
  <1>2. queued_timers_ = {} /\ \A t \in Tags : timers_[t].interval_ = 0
    BY Zenon DEF Init
  <1>3. QED
    BY <1>1, <1>2 DEF CoverInv, ClockHolds

(* No timer is added, the timerfd is left alone while one is queued, and   *)
(* nobody stops attending to it.                                           *)
LEMMA CoverQuiet ==
  ASSUME CoverInv, now' >= 1, timer_fd_' \in Int,
         queued_timers_' \subseteq queued_timers_,
         queued_timers_' # {} => timer_fd_' = timer_fd_,
         \A t \in Tags : timers_'[t].interval_ = timers_[t].interval_,
         \A c \in Contexts : Active(c)' => cur'[c].start >= 1,
         Unattended' => Unattended \/ queued_timers_' = {}
  PROVE  CoverInv'
  <1>1. ClockHolds'
    BY Zenon DEF CoverInv, ClockHolds
  <1>2. ASSUME Unattended', NEW q \in queued_timers_' PROVE timer_fd_' # 0 /\ timer_fd_' <= q.expiry_
    BY <1>2, Zenon DEF CoverInv
  <1>3. QED
    BY <1>1, <1>2, Zenon DEF CoverInv

(* The threads stay where they are. *)
LEMMA CoverCall ==
  ASSUME CoverInv, queued_timers_' \subseteq queued_timers_, timer_fd_' \in Int,
         queued_timers_' # {} => timer_fd_' = timer_fd_,
         \A t \in Tags : timers_'[t].interval_ = timers_[t].interval_,
         UNCHANGED <<now, posted, pc, cur>>
  PROVE  CoverInv'
  <1>1. /\ now' >= 1 /\ \A c \in Contexts : Active(c)' => cur'[c].start >= 1
        /\ Unattended' => Unattended
    BY Zenon DEF CoverInv, ClockHolds, Active, Unattended
  <1>2. QED
    BY <1>1, CoverQuiet, Zenon

LEMMA CoverReserve ==
  ASSUME TimerInv, CoverInv, NEW u \in Users, Reserve(u),
         UNCHANGED <<timer_fd_, now, posted, pc, cur>>
  PROVE  CoverInv'
  <1>1. PICK tag : timers_' = [timers_ EXCEPT ![tag] =
                       [timers_[tag] EXCEPT !.handler_ = u, !.in_progress_ = FALSE]]
    BY Zenon DEF Reserve
  <1>2. \A t \in Tags : timers_'[t].interval_ = timers_[t].interval_
    <2>1. timers_ \in [Tags -> Entry]
      BY Zenon DEF TimerInv, Typed
    <2>2. QED
      BY <1>1, <2>1 DEF Entry
  <1>3. queued_timers_' = queued_timers_ /\ timer_fd_' \in Int
    BY Zenon DEF Reserve, CoverInv, ClockHolds
  <1>4. QED
    BY <1>2, <1>3, CoverCall, Zenon

(* Dequeue() touches the timerfd only with the last queued timer. *)
LEMMA DequeueKeeps ==
  ASSUME TimerInv, CoverInv, NEW tag \in Tags, Dequeue(tag)
  PROVE  /\ queued_timers_' \subseteq queued_timers_ /\ timer_fd_' \in Int
         /\ queued_timers_' # {} => timer_fd_' = timer_fd_
         /\ \A t \in Tags : timers_'[t].interval_ = timers_[t].interval_
  <1> DEFINE o == timers_[tag]
             n == [o EXCEPT !.handler_ = HandlerLeft(o), !.is_valid_ = FALSE]
  <1>1. timers_ \in [Tags -> Entry] /\ o \in Entry /\ timer_fd_ \in Int
    BY Zenon DEF TimerInv, Typed, CoverInv, ClockHolds
  <1>2. n.interval_ = o.interval_
    <2> HIDE DEF o
    <2>1. QED
      BY <1>1, Zenon DEF Entry
  <1>3. \/ UNCHANGED <<timers_, queued_timers_, timer_fd_>>
        \/ /\ timers_' = [timers_ EXCEPT ![tag] = n]
           /\ queued_timers_' = queued_timers_ \ EntryOf(tag)
           /\ \/ timer_fd_' = timer_fd_
              \/ timer_fd_' = 0 /\ queued_timers_' = {}
    BY Zenon DEF Dequeue
  <1> HIDE DEF n, o
  <1>4. \A t \in Tags : timers_'[t].interval_ = timers_[t].interval_
    BY <1>1, <1>2, <1>3 DEF o
  <1>5. QED
    BY <1>1, <1>3, <1>4

LEMMA CoverAdd ==
  ASSUME TimerInv, CoverInv, NEW tag \in Tags, NEW expiry \in Int, NEW interval \in Int,
         expiry >= 1, interval >= 0, DoAddTimer(tag, expiry, interval),
         UNCHANGED <<now, posted, pc, cur>>
  PROVE  CoverInv'
  <1> DEFINE q0 == [tag_ |-> tag, expiry_ |-> expiry]
             n == [timers_[tag] EXCEPT !.expiry_ = expiry, !.interval_ = interval, !.is_valid_ = TRUE]
  <1>1. timers_ \in [Tags -> Entry] /\ timers_[tag] \in Entry /\ timer_fd_ \in Int
    BY Zenon DEF TimerInv, Typed, CoverInv, ClockHolds
  <1>2. n.interval_ = interval /\ q0.expiry_ = expiry
    BY <1>1, Zenon DEF Entry
  <1>3. /\ timers_' = [timers_ EXCEPT ![tag] = n] /\ timer_fd_' = Armed(expiry)
        /\ queued_timers_' = queued_timers_ \cup {q0}
    BY Zenon DEF DoAddTimer
  <1> HIDE DEF n, q0
  <1>4. \A t \in Tags : timers_'[t].interval_ >= 0
    BY <1>1, <1>2, <1>3, Zenon DEF CoverInv, ClockHolds
  <1>5. /\ now' >= 1 /\ \A c \in Contexts : Active(c)' => cur'[c].start >= 1
        /\ Unattended' => Unattended
    BY Zenon DEF CoverInv, ClockHolds, Active, Unattended
  <1>6. \A q \in queued_timers_' : q.expiry_ >= 1
    BY <1>2, <1>3, Zenon DEF CoverInv, ClockHolds
  <1>7. queued_timers_ # {} => /\ NextExpiry \in Int /\ NextExpiry >= 1
                               /\ \A q \in queued_timers_ : NextExpiry <= q.expiry_
    BY NextExpiryIsLeast, Zenon DEF CoverInv
  <1>8. timer_fd_' \in Int
    BY <1>1, <1>3, Zenon DEF Armed
  <1>9. ASSUME Unattended', NEW q \in queued_timers_' PROVE timer_fd_' # 0 /\ timer_fd_' <= q.expiry_
    <2>0. \A r \in queued_timers_ : r.expiry_ \in Int /\ timer_fd_ # 0 /\ timer_fd_ <= r.expiry_
      BY <1>5, <1>9, Zenon DEF CoverInv, TimerInv, Typed
    <2>1. CASE queued_timers_ = {}
      <3>1. timer_fd_' = expiry /\ q.expiry_ = expiry
        BY <1>2, <1>3, <2>1, Zenon DEF Armed
      <3>2. QED
        BY <3>1
    <2>2. CASE queued_timers_ # {} /\ expiry < NextExpiry
      <3>1. timer_fd_' = expiry /\ (q \in queued_timers_ \/ q.expiry_ = expiry)
        BY <1>2, <1>3, <2>2, Zenon DEF Armed
      <3>2. q \in queued_timers_ => NextExpiry <= q.expiry_ /\ q.expiry_ \in Int
        BY <1>7, <2>0, <2>2, Zenon
      <3>3. NextExpiry \in Int
        BY <1>7, <2>2, Zenon
      <3> HIDE DEF NextExpiry
      <3>4. QED
        BY <2>2, <3>1, <3>2, <3>3
    <2>3. CASE queued_timers_ # {} /\ ~(expiry < NextExpiry)
      <3>1. timer_fd_' = timer_fd_ /\ (q \in queued_timers_ \/ q.expiry_ = expiry)
        BY <1>2, <1>3, <2>3, Zenon DEF Armed
      <3>2. PICK r \in queued_timers_ : r.expiry_ = NextExpiry
        BY <2>3, NextExpiryIsLeast, Zenon DEF CoverInv
      <3>3. timer_fd_ # 0 /\ timer_fd_ <= NextExpiry /\ NextExpiry \in Int
        BY <1>7, <2>0, <2>3, <3>2, Zenon
      <3>4. q \in queued_timers_ => timer_fd_ <= q.expiry_
        BY <2>0, Zenon
      <3>5. QED
        BY <1>1, <2>3, <3>1, <3>3, <3>4
    <2>4. QED
      BY <2>1, <2>2, <2>3, Zenon
  <1>10. QED
    BY <1>4, <1>5, <1>6, <1>8, <1>9, Zenon DEF CoverInv, ClockHolds

(* A handler is called without the mutex: the time at which it started is  *)
(* noted.                                                                  *)
LEMMA CoverBegin ==
  ASSUME TimerInv, CoverInv, NEW c \in Contexts, NEW tag \in Tags, BeginExpiry(c, tag),
         c \in Workers => pc[c] = "locked",
         UNCHANGED <<queued_timers_, timer_fd_, now, posted>>
  PROVE  CoverInv'
  <1> DEFINE n == [timers_[tag] EXCEPT !.in_progress_ = TRUE]
  <1>1. /\ timers_ \in [Tags -> Entry] /\ timers_[tag] \in Entry /\ timer_fd_ \in Int
        /\ DOMAIN pc = Contexts /\ DOMAIN cur = Contexts
    BY Zenon DEF TimerInv, Typed, CoverInv, ClockHolds
  <1>2. n.interval_ = timers_[tag].interval_
    BY <1>1, Zenon DEF Entry
  <1>3. timers_' = [timers_ EXCEPT ![tag] = n] /\ pc' = [pc EXCEPT ![c] = "handler"]
    BY Zenon DEF BeginExpiry
  <1> HIDE DEF n
  <1>4. \A t \in Tags : timers_'[t].interval_ = timers_[t].interval_
    BY <1>1, <1>2, <1>3, Zenon
  <1>5. /\ cur'[c].start = now /\ pc'[c] = "handler"
        /\ \A d \in Contexts : d # c => pc'[d] = pc[d] /\ cur'[d] = cur[d]
    BY <1>1, <1>3, Zenon DEF BeginExpiry
  <1>6. \A d \in Contexts : Active(d)' => cur'[d].start >= 1
    BY <1>5, Zenon DEF CoverInv, ClockHolds, Active
  <1>7. Unattended' => Unattended
    <2>1. CASE c \in Workers
      BY <1>5, <2>1, Zenon DEF Unattended
    <2>2. CASE c \notin Workers
      BY <1>5, <2>2, Zenon DEF Unattended, Contexts
    <2>3. QED
      BY <2>1, <2>2, Zenon
  <1>8. now' >= 1 /\ timer_fd_' \in Int /\ queued_timers_' \subseteq queued_timers_
    BY <1>1, Zenon DEF CoverInv, ClockHolds
  <1>9. QED
    BY <1>4, <1>6, <1>7, <1>8, CoverQuiet, Zenon

LEMMA CoverReturns ==
  ASSUME TimerInv, Sequential, CoverInv, NEW c \in Contexts, HandlerReturns(c)
  PROVE  CoverInv'
  <1>1. /\ pc[c] = "handler" /\ pc' = [pc EXCEPT ![c] = "finish"] /\ DOMAIN pc = Contexts
        /\ UNCHANGED <<now, posted, cur>>
    BY Zenon DEF HandlerReturns, TimerInv, Typed
  <1>2. pc'[c] = "finish" /\ \A d \in Contexts : d # c => pc'[d] = pc[d]
    BY <1>1, Zenon
  <1>3. now' >= 1 /\ \A d \in Contexts : Active(d)' => cur'[d].start >= 1
    BY <1>1, <1>2, Zenon DEF CoverInv, ClockHolds, Active
  <1>4. Unattended' => Unattended
    <2>1. c \in Workers \/ c = Sync
      BY Zenon DEF Contexts
    <2>2. CASE c \in Workers
      BY <1>1, <1>2, <2>2, Zenon DEF Unattended
    <2>3. CASE c \notin Workers
      BY <1>1, <1>2, <2>3, Zenon DEF Unattended
    <2>4. QED
      BY <2>2, <2>3, Zenon
  <1>5. /\ queued_timers_' \subseteq queued_timers_ /\ timer_fd_' \in Int
        /\ queued_timers_' # {} => timer_fd_' = timer_fd_
        /\ \A t \in Tags : timers_'[t].interval_ = timers_[t].interval_
    <2>1. CASE cur[c].handler \in Deferred
      <3>1. cur[c].tag \in Tags
        BY <1>1, Zenon DEF TimerInv, ExpiryHolds, Active, Handled
      <3>2. PICK tag \in Tags : Dequeue(tag)
        BY <2>1, <3>1, Zenon DEF HandlerReturns, RemoveTimedTaskAsync
      <3>3. QED
        BY <3>2, DequeueKeeps, Zenon
    <2>2. CASE cur[c].handler \notin Deferred
      <3>1. UNCHANGED <<queue, timer_fd_>>
        BY <2>2, Zenon DEF HandlerReturns
      <3>2. timer_fd_ \in Int
        BY Zenon DEF CoverInv, ClockHolds
      <3>3. QED
        BY <3>1, <3>2, Zenon
    <2>3. QED
      BY <2>1, <2>2, Zenon
  <1>6. QED
    BY <1>3, <1>4, <1>5, CoverQuiet, Zenon

(* The next period starts when the handler was called.  A synchronous      *)
(* expiry is of a timer that is not queued.                                *)
LEMMA CoverFinish ==
  ASSUME TimerInv, Sequential, CoverInv, NEW c \in Contexts, FinishExpiry(c),
         NEW tag, cur[c].tag = tag, NEW expiry, expiry = NextPeriod(cur[c].start, timers_[tag].interval_)
  PROVE  CoverInv'
  <1> DEFINE o == timers_[tag]
             again == ~release_handler_memory_ /\ o.interval_ # 0
             n == Finished(o, again, expiry)
  <1>1. /\ pc[c] = "finish" /\ Active(c)
        /\ timers_' = [timers_ EXCEPT ![tag] = n]
        /\ queued_timers_' = IF release_handler_memory_ THEN queued_timers_
                             ELSE IF again THEN Requeued(tag, expiry) ELSE Removed(tag)
        /\ pc' = [pc EXCEPT ![c] = IF c = Sync THEN "idle" ELSE "locked"]
        /\ cur' = [cur EXCEPT ![c] = NoExpiry]
        /\ UNCHANGED <<timer_fd_, now, posted>>
    BY Zenon DEF FinishExpiry, Active
  <1>2. tag \in Tags /\ (c = Sync => tag \notin QueuedTags)
    BY <1>1, Zenon DEF TimerInv, ExpiryHolds, Handled
  <1>3. /\ timers_ \in [Tags -> Entry] /\ o \in Entry /\ cur[c].start \in Int /\ timer_fd_ \in Int
        /\ DOMAIN pc = Contexts /\ DOMAIN cur = Contexts
    BY <1>2, Zenon DEF TimerInv, Typed, CoverInv, ClockHolds
  <1>4. n.interval_ = o.interval_
    <2> HIDE DEF o, again
    <2>1. QED
      BY <1>3, Zenon DEF Entry, Finished
  <1>5. expiry >= 1
    <2>1. cur[c].start >= 1 /\ o.interval_ >= 0 /\ o.interval_ \in Int
      BY <1>1, <1>2, <1>3, Zenon DEF CoverInv, ClockHolds, Entry
    <2>2. expiry = cur[c].start + o.interval_
      BY Zenon DEF NextPeriod
    <2> HIDE DEF o
    <2>3. QED
      BY <1>3, <2>1, <2>2
  <1> HIDE DEF n, o
  <1>6. \A t \in Tags : timers_'[t].interval_ = timers_[t].interval_
    BY <1>1, <1>2, <1>3, <1>4, Zenon DEF o
  <1>7. /\ pc'[c] = (IF c = Sync THEN "idle" ELSE "locked")
        /\ \A d \in Contexts : d # c => pc'[d] = pc[d] /\ cur'[d] = cur[d]
    BY <1>1, <1>3, Zenon
  <1>8. now' >= 1 /\ \A d \in Contexts : Active(d)' => cur'[d].start >= 1
    <2>1. ~Active(c)'
      BY <1>7 DEF Active
    <2>2. \A d \in Contexts : d # c => (Active(d)' <=> Active(d))
      BY <1>7, Zenon DEF Active
    <2>3. QED
      BY <1>1, <1>7, <2>1, <2>2, Zenon DEF CoverInv, ClockHolds
  <1>9. CASE c = Sync
    <2>1. queued_timers_' = queued_timers_
      <3>1. \A q \in queued_timers_ : q.tag_ # tag
        BY <1>2, <1>9, Zenon DEF QueuedTags
      <3>2. Requeued(tag, expiry) = queued_timers_
        <4>1. \A q \in queued_timers_ :
                  (IF q.tag_ = tag THEN [q EXCEPT !.expiry_ = expiry] ELSE q) = q
          BY <3>1, Zenon
        <4>2. QED
          BY <4>1 DEF Requeued
      <3>3. Removed(tag) = queued_timers_
        BY <3>1, Zenon DEF Removed, EntryOf
      <3>4. QED
        BY <1>1, <3>2, <3>3, Zenon
    <2>2. Unattended' => Unattended
      BY <1>1, <1>7, <1>9, Zenon DEF Unattended, Contexts
    <2>3. QED
      BY <1>1, <1>3, <1>6, <1>8, <2>1, <2>2, CoverQuiet, Zenon
  <1>10. CASE c # Sync
    <2>1. ~Unattended'
      BY <1>7, <1>10, Zenon DEF Unattended, Contexts
    <2>2. \A q \in queued_timers_' : q.expiry_ >= 1
      <3>1. \A q \in queued_timers_ : q \in [tag_ : Tags, expiry_ : Int] /\ q.expiry_ >= 1
        BY Zenon DEF TimerInv, Typed, CoverInv, ClockHolds
      <3>2. \A q \in Requeued(tag, expiry) : q.expiry_ >= 1
        BY <1>5, <3>1 DEF Requeued
      <3>3. \A q \in Removed(tag) : q.expiry_ >= 1
        BY <3>1, Zenon DEF Removed
      <3>4. QED
        BY <1>1, <3>1, <3>2, <3>3, Zenon
    <2>3. QED
      BY <1>1, <1>3, <1>6, <1>8, <2>1, <2>2, Zenon DEF CoverInv, ClockHolds
  <1>11. QED
    BY <1>9, <1>10, Zenon

LEMMA CoverOperation ==
  ASSUME TimerInv, Sequential, CoverInv, NEW w \in Workers, Operation(w)
  PROVE  CoverInv'
  <1>0. w \in Contexts /\ DOMAIN pc = Contexts /\ timer_fd_ \in Int
    BY Zenon DEF TimerInv, Typed, CoverInv, ClockHolds
  <1>1. CASE HandleExpiry(w)
    <2>1. /\ pc' = [pc EXCEPT ![w] = "locked"] /\ UNCHANGED <<queue, timer_fd_, now, cur>>
          /\ pc[w] = "idle"
      BY <1>1, Zenon DEF HandleExpiry
    <2>2. pc'[w] = "locked" /\ \A d \in Contexts : d # w => pc'[d] = pc[d]
      BY <1>0, <2>1, Zenon
    <2>3. ~Unattended' /\ now' >= 1 /\ \A d \in Contexts : Active(d)' => cur'[d].start >= 1
      BY <2>1, <2>2, Zenon DEF Unattended, CoverInv, ClockHolds, Active
    <2>4. QED
      BY <1>0, <2>1, <2>3, CoverQuiet, Zenon
  <1>2. CASE HandleOneExpiry(w)
    <2>1. PICK q \in queued_timers_ : BeginExpiry(w, q.tag_)
      BY <1>2, Zenon DEF HandleOneExpiry, Front
    <2>2. q.tag_ \in Tags
      BY Zenon DEF TimerInv, Typed
    <2>3. pc[w] = "locked" /\ UNCHANGED <<queued_timers_, timer_fd_, now, posted>>
      BY <1>2, Zenon DEF HandleOneExpiry
    <2>4. QED
      BY <1>0, <2>1, <2>2, <2>3, CoverBegin, Zenon
  <1>3. CASE HandleExpiryReturns(w)
    <2>1. /\ pc' = [pc EXCEPT ![w] = "idle"] /\ UNCHANGED <<queue, now, cur>>
          /\ timer_fd_' = IF queued_timers_ # {} THEN NextExpiry ELSE timer_fd_
      BY <1>3, Zenon DEF HandleExpiryReturns, Rearmed
    <2>2. pc'[w] = "idle" /\ \A d \in Contexts : d # w => pc'[d] = pc[d]
      BY <1>0, <2>1, Zenon
    <2>3. now' >= 1 /\ \A d \in Contexts : Active(d)' => cur'[d].start >= 1
      BY <2>1, <2>2, Zenon DEF CoverInv, ClockHolds, Active
    <2>4. queued_timers_ # {} => /\ NextExpiry \in Int /\ NextExpiry # 0
                                 /\ \A q \in queued_timers_ : NextExpiry <= q.expiry_
      <3>1. SUFFICES ASSUME queued_timers_ # {}
                     PROVE  /\ NextExpiry \in Int /\ NextExpiry # 0
                            /\ \A q \in queued_timers_ : NextExpiry <= q.expiry_
        BY Zenon
      <3>2. /\ NextExpiry \in Int /\ NextExpiry >= 1
            /\ \A q \in queued_timers_ : NextExpiry <= q.expiry_
        BY <3>1, NextExpiryIsLeast, Zenon DEF CoverInv
      <3>3. NextExpiry # 0
        BY <3>2
      <3>4. QED
        BY <3>2, <3>3, Zenon
    <2>5. timer_fd_' \in Int
      BY <1>0, <2>1, <2>4, Zenon
    <2>6. \A q \in queued_timers_' : timer_fd_' # 0 /\ timer_fd_' <= q.expiry_
      BY <2>1, <2>4, Zenon
    <2>7. ClockHolds'
      BY <2>1, <2>3, <2>5, Zenon DEF CoverInv, ClockHolds
    <2>8. QED
      BY <2>6, <2>7, Zenon DEF CoverInv
  <1>4. QED
    BY <1>1, <1>2, <1>3, Zenon DEF Operation

LEMMA CoverCalls ==
  ASSUME TimerInv, Sequential, CoverInv, Calls
  PROVE  CoverInv'
  <1>0. timer_fd_ \in Int /\ now \in Int /\ now + MaxDelay \in Int
    BY DEF CoverInv, ClockHolds, TimerInv, Typed
  <1>1. ASSUME NEW u \in Jobs, RegisterTimedTask(u) PROVE CoverInv'
    BY <1>1, CoverReserve, Zenon DEF RegisterTimedTask
  <1>2. ASSUME NEW u \in Jobs, CancelTimedJob(u) PROVE CoverInv'
    <2>1. timer_id_[u] \in Tags /\ Dequeue(timer_id_[u]) /\ UNCHANGED <<now, posted, pc, cur>>
      BY <1>2, Zenon DEF CancelTimedJob, RemoveTimedTaskAsync, TimerInv, Typed
    <2>2. PICK tag \in Tags : Dequeue(tag)
      BY <2>1, Zenon
    <2>3. QED
      BY <2>1, <2>2, DequeueKeeps, CoverCall, Zenon
  <1>3. ASSUME NEW u \in Waitable, ConstructTimer(u) PROVE CoverInv'
    BY <1>3, CoverReserve, Zenon DEF ConstructTimer
  <1>4. ASSUME NEW u \in Waitable, DestroyTimer(u) PROVE CoverInv'
    <2>1. timer_id_[u] \in Tags /\ Dequeue(timer_id_[u]) /\ UNCHANGED <<now, posted, pc, cur>>
      BY <1>4, Zenon DEF DestroyTimer, TimerInv, Typed
    <2>2. PICK tag \in Tags : Dequeue(tag)
      BY <2>1, Zenon
    <2>3. QED
      BY <2>1, <2>2, DequeueKeeps, CoverCall, Zenon
  <1>5. ASSUME NEW u \in Waitable, WaitAsyncZeroExpiry(u) PROVE CoverInv'
    <2>1. /\ timer_id_[u] \in Tags /\ BeginExpiry(Sync, timer_id_[u])
          /\ UNCHANGED <<queued_timers_, timer_fd_, now, posted>>
      BY <1>5, Zenon DEF WaitAsyncZeroExpiry, TimerInv, Typed
    <2>2. PICK tag \in Tags : BeginExpiry(Sync, tag)
      BY <2>1, Zenon
    <2>3. QED
      BY <2>1, <2>2, CoverBegin, Zenon
  <1>6. ASSUME NEW u \in Waitable, NEW e \in 1..(now + MaxDelay), NEW d \in Delays, WaitAsync(u, e, d)
        PROVE  CoverInv'
    <2>1. e \in Int /\ d \in Int /\ e >= 1 /\ d >= 0
      BY <1>0 DEF Delays
    <2>2. timer_id_[u] \in Tags /\ DoAddTimer(timer_id_[u], e, d) /\ UNCHANGED <<now, posted, pc, cur>>
      BY <1>6, Zenon DEF WaitAsync, TimerInv, Typed
    <2>3. PICK tag \in Tags : DoAddTimer(tag, e, d)
      BY <2>2, Zenon
    <2>4. QED
      BY <2>1, <2>2, <2>3, CoverAdd, Zenon
  <1>7. QED
    BY <1>1, <1>2, <1>3, <1>4, <1>5, <1>6, Zenon DEF Calls

LEMMA CoverNext ==
  ASSUME TimerInv, Sequential, CoverInv, [Next]_vars
  PROVE  CoverInv'
  <1>0. timer_fd_ \in Int /\ now \in Int /\ now >= 1
    BY Zenon DEF CoverInv, ClockHolds, TimerInv, Typed
  <1>1. CASE Tick
    <2>1. now' >= 1 /\ UNCHANGED <<queue, timer_fd_, posted, pc, cur>>
      BY <1>0, <1>1 DEF Tick
    <2>2. (Unattended' => Unattended) /\ \A d \in Contexts : Active(d)' => cur'[d].start >= 1
      BY <2>1, Zenon DEF Unattended, CoverInv, ClockHolds, Active
    <2>3. QED
      BY <1>0, <2>1, <2>2, CoverQuiet, Zenon
  <1>2. CASE Posting
    <2>1. PICK u \in Jobs, d \in Delays : AddTimedTask(u, d)
      BY <1>2, Zenon DEF Posting
    <2>2. PICK i \in {0, d} : DoAddTimer(timer_id_[u], now + d, i)
      BY <2>1, Zenon DEF AddTimedTask
    <2>3. d \in Int /\ now + d \in Int /\ now + d >= 1 /\ i \in Int /\ i >= 0
      BY <1>0, <2>2 DEF Delays
    <2>4. timer_id_[u] \in Tags
      BY <2>1, Zenon DEF AddTimedTask, TimerInv, Typed, ThreadHolds
    <2>5. PICK tag \in Tags, e \in Int : e >= 1 /\ DoAddTimer(tag, e, i)
      BY <2>2, <2>3, <2>4, Zenon
    <2>6. UNCHANGED <<now, posted, pc, cur>>
      BY <2>1, Zenon DEF AddTimedTask
    <2>7. QED
      BY <2>3, <2>5, <2>6, CoverAdd, Zenon
  <1>3. CASE Poll
    <2>1. posted' = 1 /\ UNCHANGED <<queue, timer_fd_, now, pc, cur>>
      BY <1>3, Zenon DEF Poll, HandleTimerEvent
    <2>2. ~Unattended' /\ \A d \in Contexts : Active(d)' => cur'[d].start >= 1
      <3>1. ~Unattended'
        BY <2>1 DEF Unattended
      <3>2. QED
        BY <2>1, <3>1, Zenon DEF CoverInv, ClockHolds, Active
    <2>3. QED
      BY <1>0, <2>1, <2>2, CoverQuiet, Zenon
  <1>4. CASE \E c \in Contexts : Expiry(c)
    BY <1>4, CoverReturns, CoverFinish, Zenon DEF Expiry
  <1>5. CASE UNCHANGED vars
    BY <1>0, <1>5, CoverCall, Zenon DEF vars
  <1>6. QED
    BY <1>1, <1>2, <1>3, <1>4, <1>5, CoverCalls, CoverOperation, Zenon DEF Next

(* IsNextExpiring() and UpdateTimerFd() in DoAddTimer(), the disarming in  *)
(* Dequeue() and the rearming at the end of HandleExpiry(): whatever is    *)
(* added, cancelled or repeated, the timerfd goes off no later than the    *)
(* earliest queued expiry.                                                 *)
THEOREM TimerFdIsSet ==
  ASSUME Sequential
  PROVE  Spec => []TimerFdCovers
  <1>1. TimerInv /\ CoverInv /\ [Next]_vars => CoverInv'
    BY CoverNext, Zenon
  <1>2. TimerInv /\ CoverInv => TimerFdCovers
    <2>1. SUFFICES ASSUME TimerInv, CoverInv, queued_timers_ # {}, Unattended
                   PROVE  timer_fd_ # 0 /\ timer_fd_ <= NextExpiry
      BY Zenon DEF TimerFdCovers, Unattended
    <2>2. PICK q \in queued_timers_ : q.expiry_ = NextExpiry
      BY <2>1, NextExpiryIsLeast, Zenon DEF CoverInv
    <2>3. QED
      BY <2>1, <2>2, Zenon DEF CoverInv
  <1>3. QED
    BY <1>1, <1>2, CoverInit, TimerInvariant, PTL DEF Spec
=============================================================================
