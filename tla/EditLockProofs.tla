--------------------------- MODULE EditLockProofs ---------------------------
(***************************************************************************)
(* The edit lock for any number of tabs and of co-declarants, any number   *)
(* of calls in flight and any moves: types, that a live lock is never      *)
(* taken from its owner, and that no answer unlocks a form that awaits its *)
(* data.  Then the forms, when a hook waits for one answer at a time.      *)
(***************************************************************************)
EXTENDS EditLock, FiniteSetTheorems, TLAPS

(***************************************************************************)
(* The helpers.                                                            *)
(***************************************************************************)
LEMMA UserTyped ==
  ASSUME NEW t \in Tabs
  PROVE  UserOf[t] \in Users /\ UserOf[t] # NoOne
BY EditLockAssumption

LEMMA SentTyped ==
  ASSUME NEW t \in Tabs, NEW k \in Kind
  PROVE  Sent(t, k) \in Call
BY DEF Sent, Call

LEMMA BeaconTyped ==
  ASSUME NEW t \in Tabs
  PROVE  Beacon(t) \subseteq Call
BY SentTyped DEF Beacon, Kind

LEMMA UnheardTyped ==
  ASSUME TypeOK, NEW t \in Tabs
  PROVE  Unheard(t) \subseteq Call
BY DEF TypeOK, Unheard, Call

LEMMA AnsweredTyped ==
  ASSUME TypeOK, NEW c \in calls, NEW s \in {"yes", "no", "error"}
  PROVE  Answered(c, s) \subseteq Call
BY DEF TypeOK, Answered, Call

LEMMA MountedTyped ==
  ASSUME NEW stale \in BOOLEAN
  PROVE  Mounted(stale) \in Hook /\ Closed \in Hook
BY DEF Mounted, Closed, Hook

LEMMA AvailableTyped == \A u : Available(u) \in BOOLEAN
BY DEF Available

(* The handlers of answers keep the hook well formed.                      *)
LEMMA HandlersTyped ==
  ASSUME NEW hook \in Hook, NEW starts \in BOOLEAN
  PROVE  /\ Granted(hook, starts) \in Hook
         /\ Denied(hook) \in Hook
         /\ Unknown(hook) \in Hook
         /\ Confirmed(hook) \in Hook
         /\ Retaken(hook) \in Hook
         /\ Overtaken(hook) \in Hook
BY DEF Hook, Granted, Denied, Unknown, Confirmed, Retaken, Overtaken

LEMMA ResyncTyped ==
  ASSUME TypeOK, NEW t \in Tabs, NEW hook \in Hook,
         NEW others \in SUBSET Call, Resync(t, hook, others)
  PROVE  tab' \in [Tabs -> Hook] /\ calls' \subseteq Call
<1>1. Sent(t, "reconcile") \in Call
  BY SentTyped DEF Kind, Ownership, Acquiring
<1>2. [hook EXCEPT !.avail = Available(UserOf[t])] \in Hook
  BY AvailableTyped DEF Hook
<1>3. QED
  BY <1>1, <1>2 DEF Resync, TypeOK

(***************************************************************************)
(* The steps of a page.                                                    *)
(***************************************************************************)
(* A step that leaves the lock row alone.                                  *)
LEMMA LockKept ==
  ASSUME TypeOK, UNCHANGED lock, tab' \in [Tabs -> Hook], calls' \subseteq Call
  PROVE  TypeOK'
BY DEF TypeOK

LEMMA PageTyped ==
  ASSUME TypeOK, NEW t \in Tabs,
         \/ Open(t) \/ Navigate(t) \/ Close(t) \/ Hide(t) \/ Show(t)
         \/ Beat(t) \/ Poll(t) \/ Retake(t) \/ ReadFresh(t) \/ Land(t)
         \/ Save(t)
  PROVE  UNCHANGED lock /\ TypeOK'
<1>1. /\ tab \in [Tabs -> Hook]
      /\ tab[t] \in Hook
      /\ calls \subseteq Call
  BY DEF TypeOK
<1>2. \A k \in {"load", "own", "reconcile", "retake", "beat", "save"} :
        Sent(t, k) \in Call
  BY SentTyped DEF Kind, Ownership, Acquiring
<1>3. UNCHANGED lock
  BY DEF Open, Navigate, Close, Hide, Show, Beat, Poll, Retake, ReadFresh,
         Land, Save
<1>4. CASE Open(t)
  <2>1. Mounted(FALSE) \in Hook
    BY MountedTyped
  <2>2. QED
    BY <1>1, <1>2, <1>3, <1>4, <2>1, LockKept DEF Open
<1>5. CASE Navigate(t)
  <2>1. \A stale \in {FALSE, tab[t].stale} : Mounted(stale) \in Hook
    BY <1>1, MountedTyped DEF Hook
  <2>2. tab' \in [Tabs -> Hook]
    BY <1>1, <1>5, <2>1 DEF Navigate
  <2>3. calls' \subseteq Call
    BY <1>2, <1>5, UnheardTyped DEF Navigate
  <2>4. QED
    BY <1>3, <2>2, <2>3, LockKept
<1>6. CASE Close(t)
  <2>1. Closed \in Hook
    BY MountedTyped
  <2>2. calls' \subseteq Call
    BY <1>6, UnheardTyped, BeaconTyped DEF Close
  <2>3. QED
    BY <1>1, <1>3, <1>6, <2>1, <2>2, LockKept DEF Close
<1>7. CASE Hide(t)
  <2>1. [tab[t] EXCEPT !.visible = FALSE] \in Hook
    BY <1>1 DEF Hook
  <2>2. tab' \in [Tabs -> Hook]
    BY <1>1, <1>7, <2>1 DEF Hide
  <2>3. calls' \subseteq Call
    BY <1>1, <1>7, BeaconTyped DEF Hide
  <2>4. QED
    BY <1>3, <2>2, <2>3, LockKept
<1>8. CASE Show(t)
  <2>1. [tab[t] EXCEPT !.visible = TRUE] \in Hook
    BY <1>1 DEF Hook
  <2>2. tab' \in [Tabs -> Hook] /\ calls' \subseteq Call
    BY <1>1, <1>8, <2>1, ResyncTyped DEF Show
  <2>3. QED
    BY <1>3, <2>2, LockKept
<1>9. CASE Beat(t) \/ Retake(t) \/ Save(t)
  BY <1>1, <1>2, <1>3, <1>9, LockKept DEF Beat, Retake, Save
<1>10. CASE Poll(t)
  <2>1. [tab[t] EXCEPT !.avail = Available(UserOf[t])] \in Hook
    BY <1>1, AvailableTyped DEF Hook
  <2>2. tab' \in [Tabs -> Hook]
    BY <1>1, <1>10, <2>1 DEF Poll
  <2>3. QED
    BY <1>1, <1>3, <1>10, <2>2, LockKept DEF Poll
<1>11. CASE ReadFresh(t)
  <2>1. [tab[t] EXCEPT !.refresh = "read"] \in Hook
    BY <1>1 DEF Hook
  <2>2. tab' \in [Tabs -> Hook]
    BY <1>1, <1>11, <2>1 DEF ReadFresh
  <2>3. QED
    BY <1>1, <1>3, <1>11, <2>2, LockKept DEF ReadFresh
<1>12. CASE Land(t)
  <2> DEFINE fresh == [tab[t] EXCEPT !.refresh = "none",
                                     !.stale   = tab[t].refresh = "outdated"]
  <2>1. fresh \in Hook
    BY <1>1 DEF Hook
  <2> HIDE DEF fresh
  <2>2. [fresh EXCEPT !.page = "editable", !.beating = TRUE] \in Hook
    BY <2>1 DEF Hook
  <2>3. tab' \in [Tabs -> Hook]
    BY <1>1, <1>12, <2>1, <2>2 DEF Land, fresh
  <2>4. QED
    BY <1>1, <1>3, <1>12, <2>3, LockKept DEF Land
<1>13. QED
  BY <1>3, <1>4, <1>5, <1>6, <1>7, <1>8, <1>9, <1>10, <1>11, <1>12

(***************************************************************************)
(* The steps of the server.                                                *)
(***************************************************************************)
(* A new value of the row under which a live lock stays with its owner.    *)
Respectful == /\ lock' \in Lock
              /\ lock'.live => lock'.owner # NoOne
              /\ lock.live => lock'.owner \in {lock.owner, NoOne}

LEMMA ServeTyped ==
  ASSUME TypeOK, NEW c \in calls, Serve(c)
  PROVE  Respectful /\ TypeOK'
<1>1. c \in Call /\ c.tab \in Tabs
  BY DEF TypeOK, Call
<1> DEFINE u == UserOf[c.tab]
<1>2. u \in Users /\ u # NoOne
  BY <1>1, UserTyped
<1>3. /\ lock \in Lock
      /\ lock.live => lock.owner # NoOne
      /\ lock.owner \in Users \union {NoOne} /\ lock.live \in BOOLEAN
      /\ tab \in [Tabs -> Hook]
      /\ calls \subseteq Call
  BY DEF TypeOK, Lock
<1>4. /\ Answered(c, "yes") \subseteq Call
      /\ Answered(c, "no") \subseteq Call
  BY AnsweredTyped
<1> HIDE DEF u
<1>5. CASE ServeAcquire(c)
  <2>1. CASE MayTake(u)
    <3>1. lock' = [owner |-> u, live |-> TRUE]
      BY <1>5, <2>1 DEF ServeAcquire, u
    <3>2. lock.live => lock.owner = u
      BY <1>3, <2>1 DEF MayTake
    <3>3. lock' \in Lock
      BY <1>2, <3>1 DEF Lock
    <3>4. Respectful
      BY <1>2, <3>1, <3>2, <3>3 DEF Respectful
    <3>5. calls' \subseteq Call /\ UNCHANGED tab
      BY <1>4, <1>5, <2>1 DEF ServeAcquire, u
    <3>6. QED
      BY <1>3, <3>4, <3>5 DEF Respectful, TypeOK
  <2>2. CASE ~MayTake(u)
    BY <1>3, <1>4, <1>5, <2>2 DEF ServeAcquire, Respectful, TypeOK, u
  <2>3. QED
    BY <2>1, <2>2
<1>6. CASE ServeBeat(c)
  <2>1. CASE MayRefresh(u)
    <3>1. lock' = [lock EXCEPT !.live = TRUE] /\ lock' \in Lock
          /\ lock'.owner = lock.owner
      BY <1>3, <1>6, <2>1 DEF ServeBeat, Lock, u
    <3>2. lock.owner # NoOne
      BY <1>2, <2>1 DEF MayRefresh
    <3>3. QED
      BY <1>3, <1>4, <1>6, <2>1, <3>1, <3>2
         DEF ServeBeat, Respectful, TypeOK, u
  <2>2. CASE ~MayRefresh(u)
    BY <1>3, <1>4, <1>6, <2>2 DEF ServeBeat, Respectful, TypeOK, u
  <2>3. QED
    BY <2>1, <2>2
<1>7. CASE ServeRelease(c)
  <2>1. Free \in Lock /\ ~Free.live /\ Free.owner = NoOne
    BY DEF Free, Lock
  <2>2. Respectful
    <3>1. lock' = lock \/ lock' = Free
      BY <1>7 DEF ServeRelease
    <3>2. QED
      BY <1>3, <2>1, <3>1 DEF Respectful
  <2>3. QED
    BY <1>3, <1>7, <2>2 DEF ServeRelease, TypeOK, Respectful
<1>8. CASE ServeSave(c)
  <2>1. [c EXCEPT !.state = "admitted"] \in Call
    BY <1>1 DEF Call
  <2>2. calls' \subseteq Call
    BY <1>3, <1>4, <1>8, <2>1 DEF ServeSave
  <2>3. QED
    BY <1>3, <1>8, <2>2 DEF ServeSave, TypeOK, Respectful
<1>9. QED
  BY <1>5, <1>6, <1>7, <1>8 DEF Serve

LEMMA CommitTyped ==
  ASSUME TypeOK, NEW c \in calls, Commit(c)
  PROVE  UNCHANGED lock /\ TypeOK'
<1>1. \A t \in Tabs : tab[t] \in Hook /\ Overtaken(tab[t]) \in Hook
  BY HandlersTyped DEF TypeOK
<1>2. tab' \in [Tabs -> Hook]
  BY <1>1 DEF Commit
<1>3. UNCHANGED lock /\ calls' \subseteq Call
  BY DEF Commit, TypeOK
<1>4. QED
  BY <1>2, <1>3, LockKept

LEMMA FailTyped ==
  ASSUME TypeOK, NEW c \in calls, Fail(c)
  PROVE  UNCHANGED lock /\ TypeOK'
<1>1. Answered(c, "error") \subseteq Call
  BY AnsweredTyped
<1>2. calls' \subseteq Call
  BY <1>1 DEF Fail, TypeOK
<1>3. UNCHANGED lock /\ tab' \in [Tabs -> Hook]
  BY DEF Fail, TypeOK
<1>4. QED
  BY <1>2, <1>3, LockKept

(* The row expires, or is deleted by a logout or an administrator.         *)
LEMMA EndTyped ==
  ASSUME TypeOK, Expire \/ GiveUp
  PROVE  Respectful /\ TypeOK'
<1>1. Free \in Lock /\ ~Free.live /\ Free.owner = NoOne
  BY DEF Free, Lock
<1>2. lock \in Lock
  BY DEF TypeOK
<1>3. CASE Expire
  <2>1. lock' \in Lock /\ ~lock'.live /\ lock'.owner = lock.owner
    BY <1>2, <1>3 DEF Expire, Lock
  <2>2. QED
    BY <1>3, <2>1 DEF Expire, TypeOK, Respectful
<1>4. CASE GiveUp
  BY <1>1, <1>4 DEF GiveUp, TypeOK, Respectful
<1>5. QED
  BY <1>3, <1>4

(***************************************************************************)
(* The steps of the hook when an answer comes.                             *)
(***************************************************************************)
LEMMA ReplyTyped ==
  ASSUME TypeOK, NEW c \in calls, Reply(c)
  PROVE  UNCHANGED lock /\ TypeOK'
<1>1. c \in Call /\ c.tab \in Tabs /\ tab[c.tab] \in Hook
  BY DEF TypeOK, Call
<1>2. /\ tab \in [Tabs -> Hook]
      /\ calls \subseteq Call
      /\ UNCHANGED lock
  BY DEF TypeOK, Reply
<1>3. CASE ReplyOwnership(c)
  <2>1. Owned(c) \in Hook
    <3>1. \A starts \in BOOLEAN : Granted(tab[c.tab], starts) \in Hook
      BY <1>1, HandlersTyped
    <3>2. Denied(tab[c.tab]) \in Hook /\ Unknown(tab[c.tab]) \in Hook
      BY <1>1, HandlersTyped
    <3>3. (c.kind # "own") \in BOOLEAN
      OBVIOUS
    <3>4. c.state \in {"yes", "no", "error"}
      BY DEF Reply
    <3>5. QED
      BY <3>1, <3>2, <3>3, <3>4 DEF Owned
  <2>2. QED
    BY <1>2, <1>3, <2>1, LockKept DEF ReplyOwnership
<1>4. CASE ReplyBeat(c)
  <2>1. Confirmed(tab[c.tab]) \in Hook
    BY <1>1, HandlersTyped
  <2>2. Sent(c.tab, "own") \in Call
    BY <1>1, SentTyped DEF Kind, Ownership, Acquiring
  <2>3. tab' \in [Tabs -> Hook]
    BY <1>2, <1>4, <2>1 DEF ReplyBeat
  <2>4. calls' \subseteq Call
    BY <1>2, <1>4, <2>2 DEF ReplyBeat
  <2>5. QED
    BY <1>2, <2>3, <2>4, LockKept
<1>5. CASE ReplyRetake(c)
  <2>1. Retaken(tab[c.tab]) \in Hook
    BY <1>1, HandlersTyped
  <2>2. [tab[c.tab] EXCEPT !.avail = Available(UserOf[c.tab])] \in Hook
    BY <1>1, AvailableTyped DEF Hook
  <2>3. tab' \in [Tabs -> Hook]
    BY <1>1, <1>2, <1>5, <2>1, <2>2 DEF ReplyRetake
  <2>4. QED
    BY <1>2, <1>5, <2>3, LockKept DEF ReplyRetake
<1>6. CASE ReplyConflict(c)
  <2>1. calls \ {c} \in SUBSET Call
    BY <1>2
  <2>2. tab' \in [Tabs -> Hook] /\ calls' \subseteq Call
    BY <1>1, <1>6, <2>1, ResyncTyped DEF ReplyConflict
  <2>3. QED
    BY <1>2, <2>2, LockKept
<1>7. QED
  BY <1>2, <1>3, <1>4, <1>5, <1>6 DEF Reply

(***************************************************************************)
(* The theorems.                                                           *)
(***************************************************************************)
LEMMA StepTyped == TypeOK /\ [Next]_vars => TypeOK' /\ Respectful
<1> SUFFICES ASSUME TypeOK, [Next]_vars
             PROVE  TypeOK' /\ Respectful
  OBVIOUS
(* A step that leaves the row alone respects it.                           *)
<1>1. UNCHANGED lock => Respectful
  BY DEF TypeOK, Respectful, Lock
<1>2. ASSUME NEW t \in Tabs,
             \/ Open(t) \/ Navigate(t) \/ Close(t) \/ Hide(t) \/ Show(t)
             \/ Beat(t) \/ Poll(t) \/ Retake(t) \/ ReadFresh(t) \/ Land(t)
             \/ Save(t)
      PROVE  TypeOK' /\ Respectful
  BY <1>1, <1>2, PageTyped
<1>3. ASSUME NEW c \in calls, Serve(c) \/ Commit(c) \/ Fail(c) \/ Reply(c)
      PROVE  TypeOK' /\ Respectful
  BY <1>1, <1>3, ServeTyped, CommitTyped, FailTyped, ReplyTyped
<1>4. CASE Expire \/ GiveUp
  BY <1>4, EndTyped
<1>5. CASE UNCHANGED vars
  BY <1>1, <1>5 DEF vars, TypeOK
<1>6. QED
  BY <1>2, <1>3, <1>4, <1>5 DEF Next

(* The row, the hooks and the calls are well formed, and a lock that has   *)
(* not expired has an owner.                                               *)
THEOREM Typing == Spec => []TypeOK
<1>1. Init => TypeOK
  <2>1. Closed \in Hook
    BY MountedTyped
  <2>2. QED
    BY <2>1 DEF Init, TypeOK, Free, Lock
<1>2. QED
  BY <1>1, StepTyped, PTL DEF Spec

(* acquireOrRefreshLock and refreshLock, raced by any number of            *)
(* co-declarants in any order, never take a live lock from its owner.      *)
THEOREM NoTakeover == Spec => NeverTakenOver
<1>1. TypeOK /\ [Next]_vars =>
        [lock.live => lock'.owner \in {lock.owner, NoOne}]_vars
  BY StepTyped DEF Respectful
<1>2. QED
  BY <1>1, Typing, PTL DEF Spec, NeverTakenOver

(***************************************************************************)
(* Nothing unlocks a form that awaits its data, however many calls of its  *)
(* hook are answered in whatever order.                                    *)
(***************************************************************************)
Waits(hook, next) ==
  hook.page = "readonly" /\ next.page = "editable" => next.refresh = "none"

(* What a handler makes of a locked form that it unlocks.                  *)
LEMMA HandlersWait ==
  ASSUME NEW hook \in Hook, NEW starts \in BOOLEAN, NEW avail \in BOOLEAN,
         NEW visible \in BOOLEAN
  PROVE  /\ Waits(hook, Granted(hook, starts))
         /\ Waits(hook, Denied(hook))
         /\ Waits(hook, Unknown(hook))
         /\ Waits(hook, Confirmed(hook))
         /\ Waits(hook, Retaken(hook))
         /\ Waits(hook, Overtaken(hook))
         /\ Waits(hook, hook)
         /\ Waits(hook, [hook EXCEPT !.avail = avail])
         /\ Waits(hook, [hook EXCEPT !.visible = visible])
         /\ Waits(hook, [[hook EXCEPT !.visible = visible] EXCEPT !.avail = avail])
BY DEF Hook, Waits, Granted, Denied, Unknown, Confirmed, Retaken, Overtaken

LEMMA PageWaits ==
  ASSUME TypeOK, NEW t \in Tabs,
         \/ Open(t) \/ Navigate(t) \/ Close(t) \/ Hide(t) \/ Show(t)
         \/ Beat(t) \/ Poll(t) \/ Retake(t) \/ ReadFresh(t) \/ Land(t)
         \/ Save(t)
  PROVE  \A s \in Tabs : Waits(tab[s], tab'[s])
<1> USE DEF TypeOK
<1>1. \A s \in Tabs : tab[s] \in Hook /\ Waits(tab[s], tab[s])
  BY HandlersWait
<1>2. \A hook : (\E s \in Tabs : tab' = [tab EXCEPT ![s] = hook] /\ Waits(tab[s], hook))
         => \A s \in Tabs : Waits(tab[s], tab'[s])
  BY <1>1
<1>3. CASE Open(t) \/ Navigate(t) \/ Close(t)
  <2>1. Waits(tab[t], Closed) /\ \A stale : Waits(tab[t], Mounted(stale))
    BY DEF Waits, Closed, Mounted
  <2>2. QED
    BY <1>1, <1>2, <1>3, <2>1 DEF Open, Navigate, Close
<1>4. CASE Hide(t) \/ Show(t) \/ Poll(t)
  <2>1. Available(UserOf[t]) \in BOOLEAN
    BY AvailableTyped
  <2>2. /\ \A visible \in BOOLEAN : Waits(tab[t], [tab[t] EXCEPT !.visible = visible])
        /\ Waits(tab[t], [tab[t] EXCEPT !.avail = Available(UserOf[t])])
        /\ Waits(tab[t], [[tab[t] EXCEPT !.visible = TRUE]
                            EXCEPT !.avail = Available(UserOf[t])])
    BY <1>1, <2>1, HandlersWait
  <2>3. QED
    BY <1>1, <1>2, <1>4, <2>2 DEF Hide, Show, Resync, Poll
<1>5. CASE Beat(t) \/ Retake(t) \/ Save(t)
  BY <1>1, <1>5 DEF Beat, Retake, Save
<1>6. CASE ReadFresh(t)
  BY <1>1, <1>6 DEF ReadFresh, Waits, Hook
<1>7. CASE Land(t)
  BY <1>1, <1>7 DEF Land, Waits, Hook
<1>8. QED
  BY <1>3, <1>4, <1>5, <1>6, <1>7

LEMMA ReplyWaits ==
  ASSUME TypeOK, NEW c \in calls, Reply(c)
  PROVE  \A s \in Tabs : Waits(tab[s], tab'[s])
<1> USE DEF TypeOK
<1>1. \A s \in Tabs : tab[s] \in Hook /\ Waits(tab[s], tab[s])
  BY HandlersWait
<1>2. \A hook : (\E s \in Tabs : tab' = [tab EXCEPT ![s] = hook] /\ Waits(tab[s], hook))
         => \A s \in Tabs : Waits(tab[s], tab'[s])
  BY <1>1
<1>3. c.tab \in Tabs /\ c.state \in {"yes", "no", "error"}
  BY DEF Call, Reply
<1>4. Available(UserOf[c.tab]) \in BOOLEAN /\ (c.kind # "own") \in BOOLEAN
  BY AvailableTyped
<1>5. /\ Waits(tab[c.tab], Granted(tab[c.tab], c.kind # "own"))
      /\ Waits(tab[c.tab], Denied(tab[c.tab]))
      /\ Waits(tab[c.tab], Unknown(tab[c.tab]))
      /\ Waits(tab[c.tab], Confirmed(tab[c.tab]))
      /\ Waits(tab[c.tab], Retaken(tab[c.tab]))
      /\ Waits(tab[c.tab], [tab[c.tab] EXCEPT !.avail = Available(UserOf[c.tab])])
  BY <1>1, <1>3, <1>4, HandlersWait
<1>6. CASE ReplyOwnership(c)
  <2>1. Waits(tab[c.tab], Owned(c))
    BY <1>3, <1>5 DEF Owned
  <2>2. QED
    BY <1>2, <1>3, <1>6, <2>1 DEF ReplyOwnership
<1>7. CASE ReplyBeat(c)
  <2>1. CASE c.state = "yes"
    BY <1>2, <1>3, <1>5, <1>7, <2>1 DEF ReplyBeat
  <2>2. CASE c.state # "yes"
    BY <1>1, <1>7, <2>2 DEF ReplyBeat
  <2>3. QED
    BY <2>1, <2>2
<1>8. CASE ReplyRetake(c)
  <2>1. CASE c.state = "yes"
    BY <1>2, <1>3, <1>5, <1>8, <2>1 DEF ReplyRetake
  <2>2. CASE c.state = "no"
    BY <1>2, <1>3, <1>5, <1>8, <2>2 DEF ReplyRetake
  <2>3. CASE c.state = "error"
    BY <1>1, <1>2, <1>3, <1>8, <2>3 DEF ReplyRetake
  <2>4. QED
    BY <1>3, <2>1, <2>2, <2>3
<1>9. CASE ReplyConflict(c)
  BY <1>1, <1>2, <1>3, <1>5, <1>9 DEF ReplyConflict, Resync
<1>10. QED
  BY <1>6, <1>7, <1>8, <1>9 DEF Reply

(* The comment above isAwaitingFreshDataRef, "A retaken lock must not      *)
(* unlock the forms before the refreshed data lands", for the overlapping  *)
(* heartbeats and acquires that the hook does not serialise: no answer     *)
(* unlocks a form that still awaits its data.                              *)
THEOREM NoEarlyUnlock == Spec => NoUnlockWhileAwaiting
<1>1. TypeOK /\ [Next]_vars =>
        [ \A t \in Tabs :
            /\ tab[t].page = "readonly"
            /\ tab'[t].page = "editable"
            => tab'[t].refresh = "none" ]_vars
  <2> SUFFICES ASSUME TypeOK, [Next]_vars
               PROVE  \A t \in Tabs : Waits(tab[t], tab'[t])
    BY DEF Waits
  <2>1. \A t \in Tabs : tab[t] \in Hook
    BY DEF TypeOK
  <2>2. \A t \in Tabs : Waits(tab[t], tab[t]) /\ Waits(tab[t], Overtaken(tab[t]))
    BY <2>1, HandlersWait
  <2>3. ASSUME NEW c \in calls, Serve(c) \/ Commit(c) \/ Fail(c)
        PROVE  \A t \in Tabs : Waits(tab[t], tab'[t])
    BY <2>2, <2>3 DEF Serve, ServeAcquire, ServeBeat, ServeRelease, ServeSave, Commit, Fail
  <2>4. CASE Expire \/ GiveUp \/ UNCHANGED vars
    BY <2>2, <2>4 DEF Expire, GiveUp, vars
  <2>5. QED
    BY <2>3, <2>4, PageWaits, ReplyWaits DEF Next
<1>2. QED
  BY <1>1, Typing, PTL DEF Spec, NoUnlockWhileAwaiting

(***************************************************************************)
(* The forms, while a hook has one ownership call under way at a time: an  *)
(* editable form beats, and a form that awaits its data is locked.  With   *)
(* two calls the first of these fails, and NoEarlyUnlock is what is left   *)
(* of the second.                                                          *)
(***************************************************************************)
(* What a call under way may count on: a heartbeat, and the acquire after  *)
(* one that was refused, on the timer; a retake on a locked form.          *)
Fits(hook, c) ==
  /\ c.kind \in {"beat", "own"} => hook.beating
  /\ c.kind = "retake" => hook.page # "editable" /\ hook.refresh = "none"

Sound(hook) ==
  /\ hook.page = "editable" => hook.holder /\ hook.beating
  /\ hook.refresh # "none" => hook.page # "editable"
  /\ hook.page = "closed" =>
       ~hook.holder /\ ~hook.beating /\ hook.refresh = "none"

Steady(t) ==
  /\ Sound(tab[t])
  /\ \A c \in InFlight(t) : Fits(tab[t], c)
  /\ \A c, d \in InFlight(t) : c = d
  /\ tab[t].page = "closed" => InFlight(t) = {}

AllSteady == \A t \in Tabs : Steady(t)

LEMMA NoneInFlight ==
  ASSUME MaxCalls = 1, NEW t \in Tabs, Steady(t), HasRoom(t)
  PROVE  InFlight(t) = {}
<1> SUFFICES ASSUME NEW c \in InFlight(t)  PROVE FALSE
  OBVIOUS
<1>1. InFlight(t) = {c}
  BY DEF Steady
<1>2. Cardinality({c}) = 1
  BY FS_Singleton
<1>3. QED
  BY <1>1, <1>2 DEF HasRoom

(* The two ways a tab stays steady: it has no call it had not, and what    *)
(* its calls counted on still holds; or it has one, and what that one      *)
(* counts on holds.                                                        *)
LEMMA SteadyKept ==
  ASSUME NEW t \in Tabs, Steady(t), InFlight(t)' \subseteq InFlight(t),
         Sound(tab'[t]), \A c \in InFlight(t) : Fits(tab'[t], c),
         tab'[t].page = "closed" => tab[t].page = "closed" \/ InFlight(t)' = {}
  PROVE  Steady(t)'
<1>1. Sound(tab[t])' /\ \A c \in InFlight(t)' : Fits(tab'[t], c)
  BY DEF Sound
<1>2. (\A c, d \in InFlight(t) : c = d)'
  BY DEF Steady
<1>3. (tab[t].page = "closed" => InFlight(t) = {})'
  BY DEF Steady
<1>4. QED
  BY <1>1, <1>2, <1>3 DEF Steady

LEMMA SteadyWithOne ==
  ASSUME NEW t \in Tabs, NEW k, InFlight(t)' \subseteq {k},
         Sound(tab'[t]), Fits(tab'[t], k), tab'[t].page # "closed"
  PROVE  Steady(t)'
BY DEF Steady

(* Among some calls, those whose answer the hook of t awaits.              *)
AwaitedOf(t, some) == { c \in some : c.tab = t /\ c.heard /\ c.kind \in Ownership }

LEMMA InFlightIs == /\ \A t : InFlight(t) = AwaitedOf(t, calls)
                    /\ \A t : InFlight(t)' = AwaitedOf(t, calls')
BY DEF InFlight, AwaitedOf

LEMMA AwaitedOfUnion ==
  \A t, some, more :
    AwaitedOf(t, some \union more) = AwaitedOf(t, some) \union AwaitedOf(t, more)
BY DEF AwaitedOf

LEMMA AwaitedOfSent ==
  ASSUME NEW t, NEW s, NEW k
  PROVE  AwaitedOf(s, {Sent(t, k)}) =
           IF s = t /\ k \in Ownership THEN {Sent(t, k)} ELSE {}
<1>1. /\ Sent(t, k).tab = t /\ Sent(t, k).kind = k
      /\ Sent(t, k).heard = (k # "release")
  BY DEF Sent
<1>2. "release" \notin Ownership
  BY DEF Ownership, Acquiring
<1>3. QED
  BY <1>1, <1>2 DEF AwaitedOf

(* Nobody awaits the answer to a beacon, nor to the calls of a page that   *)
(* is gone.                                                                *)
LEMMA AwaitedOfBeacon == \A t, s : AwaitedOf(s, Beacon(t)) = {}
<1>1. "release" \notin Ownership
  BY DEF Ownership, Acquiring
<1>2. \A s, t : AwaitedOf(s, {Sent(t, "release")}) = {}
  BY <1>1, AwaitedOfSent
<1>3. \A s : AwaitedOf(s, {}) = {}
  BY DEF AwaitedOf
<1>4. QED
  BY <1>2, <1>3 DEF Beacon

LEMMA AwaitedOfUnheard ==
  ASSUME TypeOK, NEW t \in Tabs
  PROVE  /\ AwaitedOf(t, Unheard(t)) = {}
         /\ \A s \in Tabs \ {t} : AwaitedOf(s, Unheard(t)) = InFlight(s)
<1>1. \A c \in calls : /\ [c EXCEPT !.heard = FALSE].tab = c.tab
                       /\ [c EXCEPT !.heard = FALSE].heard = FALSE
  BY DEF TypeOK, Call
<1>2. \A c \in Unheard(t) : c.tab = t => c.heard = FALSE
  BY <1>1 DEF Unheard
<1>3. \A c : c.tab # t => (c \in Unheard(t) <=> c \in calls)
  BY <1>1 DEF Unheard
<1>4. QED
  BY <1>2, <1>3 DEF AwaitedOf, InFlight

(* An answer takes the place of its call.                                  *)
LEMMA AwaitedOfAnswered ==
  ASSUME TypeOK, NEW c \in calls, NEW a \in {"yes", "no", "error"}
  PROVE  /\ [c EXCEPT !.state = a].kind = c.kind
         /\ \A s \in Tabs :
              AwaitedOf(s, Answered(c, a)) \subseteq
                (InFlight(s) \ {c}) \union
                  (IF c \in InFlight(s) THEN {[c EXCEPT !.state = a]} ELSE {})
<1> DEFINE d == [c EXCEPT !.state = a]
<1>1. d.tab = c.tab /\ d.heard = c.heard /\ d.kind = c.kind
  BY DEF TypeOK, Call
<1> HIDE DEF d
<1>2. \A s \in Tabs :
        AwaitedOf(s, Answered(c, a)) \subseteq
          (InFlight(s) \ {c}) \union (IF c \in InFlight(s) THEN {d} ELSE {})
  BY <1>1 DEF AwaitedOf, InFlight, Answered, d
<1>3. QED
  BY <1>1, <1>2 DEF d

(* The other tabs stay as they are when one takes a step.                  *)
LEMMA OneTabSteady ==
  ASSUME AllSteady, NEW t \in Tabs, Steady(t)',
         \A s \in Tabs \ {t} :
           tab'[s] = tab[s] /\ InFlight(s)' \subseteq InFlight(s)
  PROVE  AllSteady'
<1>1. ASSUME NEW s \in Tabs \ {t}  PROVE Steady(s)'
  <2>1. /\ Steady(s) /\ tab'[s] = tab[s]
        /\ InFlight(s)' \subseteq InFlight(s)
    BY DEF AllSteady
  <2>2. Sound(tab'[s]) /\ \A c \in InFlight(s) : Fits(tab'[s], c)
    BY <2>1 DEF Steady
  <2>3. QED
    BY <2>1, <2>2, SteadyKept
<1>2. QED
  BY <1>1 DEF AllSteady

LEMMA PageSteady ==
  ASSUME MaxCalls = 1, TypeOK, AllSteady, NEW t \in Tabs,
         \/ Open(t) \/ Navigate(t) \/ Close(t) \/ Hide(t) \/ Show(t)
         \/ Beat(t) \/ Poll(t) \/ Retake(t) \/ ReadFresh(t) \/ Land(t)
         \/ Save(t)
  PROVE  AllSteady'
<1>1. tab \in [Tabs -> Hook] /\ tab[t] \in Hook /\ Steady(t)
  BY DEF TypeOK, AllSteady
<1>2. HasRoom(t) => InFlight(t) = {}
  BY <1>1, NoneInFlight
<1>3. /\ \A s : InFlight(s) = AwaitedOf(s, calls)
      /\ \A s : InFlight(s)' = AwaitedOf(s, calls')
  BY InFlightIs
(* A call is sent.                                                         *)
<1>4. ASSUME NEW k \in Ownership, NEW some,
             calls' = some \union {Sent(t, k)}, AwaitedOf(t, some) = {},
             \A s \in Tabs \ {t} : AwaitedOf(s, some) = InFlight(s)
      PROVE  /\ InFlight(t)' = {Sent(t, k)} /\ Sent(t, k).kind = k
             /\ \A s \in Tabs \ {t} : InFlight(s)' = InFlight(s)
  <2>1. AwaitedOf(t, {Sent(t, k)}) = {Sent(t, k)}
    BY AwaitedOfSent
  <2>2. \A s \in Tabs \ {t} : AwaitedOf(s, {Sent(t, k)}) = {}
    BY AwaitedOfSent
  <2>3. \A s : InFlight(s)' =
                 AwaitedOf(s, some) \union AwaitedOf(s, {Sent(t, k)})
    BY <1>3, <1>4, AwaitedOfUnion
  <2>4. QED
    BY <1>4, <2>1, <2>2, <2>3 DEF Sent
<1>5. CASE Open(t)
  <2>1. InFlight(t) = {} /\ tab' = [tab EXCEPT ![t] = Mounted(FALSE)]
    BY <1>1, <1>5 DEF Open, Steady
  <2>2. "load" \in Ownership /\ calls' = calls \union {Sent(t, "load")}
    BY <1>5 DEF Open, Ownership, Acquiring
  <2>3. /\ InFlight(t)' = {Sent(t, "load")} /\ Sent(t, "load").kind = "load"
        /\ \A s \in Tabs \ {t} : InFlight(s)' = InFlight(s)
    BY <1>3, <1>4, <2>1, <2>2
  <2>4. /\ Sound(Mounted(FALSE)) /\ Mounted(FALSE).page = "loading"
        /\ Fits(Mounted(FALSE), Sent(t, "load"))
    BY <2>3 DEF Mounted, Closed, Sound, Fits
  <2>5. Steady(t)'
    BY <1>1, <2>1, <2>3, <2>4, SteadyWithOne
  <2>6. QED
    BY <1>1, <2>1, <2>3, <2>5, OneTabSteady
<1>6. CASE Navigate(t)
  <2>1. PICK stale : tab' = [tab EXCEPT ![t] = Mounted(stale)]
    BY <1>6 DEF Navigate
  <2>2. "load" \in Ownership /\ calls' = Unheard(t) \union {Sent(t, "load")}
    BY <1>6 DEF Navigate, Ownership, Acquiring
  <2>3. /\ InFlight(t)' = {Sent(t, "load")} /\ Sent(t, "load").kind = "load"
        /\ \A s \in Tabs \ {t} : InFlight(s)' = InFlight(s)
    BY <1>4, <2>2, AwaitedOfUnheard
  <2>4. /\ Sound(Mounted(stale)) /\ Mounted(stale).page = "loading"
        /\ Fits(Mounted(stale), Sent(t, "load"))
    BY <2>3 DEF Mounted, Closed, Sound, Fits
  <2>5. Steady(t)'
    BY <1>1, <2>1, <2>3, <2>4, SteadyWithOne
  <2>6. QED
    BY <1>1, <2>1, <2>3, <2>5, OneTabSteady
<1>7. CASE Close(t)
  <2>1. tab' = [tab EXCEPT ![t] = Closed] /\ calls' = Unheard(t) \union Beacon(t)
    BY <1>7 DEF Close
  <2>2. /\ InFlight(t)' = {}
        /\ \A s \in Tabs \ {t} : InFlight(s)' = InFlight(s)
    <3>1. /\ AwaitedOf(t, Unheard(t)) = {}
          /\ \A s \in Tabs \ {t} : AwaitedOf(s, Unheard(t)) = InFlight(s)
      BY AwaitedOfUnheard
    <3>2. \A s : InFlight(s)' =
                   AwaitedOf(s, Unheard(t)) \union AwaitedOf(s, Beacon(t))
      BY <1>3, <2>1, AwaitedOfUnion
    <3>3. QED
      BY <3>1, <3>2, AwaitedOfBeacon
  <2>3. Sound(Closed)
    BY DEF Closed, Sound
  <2>4. Steady(t)'
    BY <1>1, <2>1, <2>2, <2>3 DEF Steady
  <2>5. QED
    BY <1>1, <2>1, <2>2, <2>4, OneTabSteady
(* A step that leaves the form as it is and sends no call to await.        *)
<1>8. ASSUME NEW h, tab' = [tab EXCEPT ![t] = h],
             h.page = tab[t].page, h.holder = tab[t].holder,
             h.beating = tab[t].beating, h.refresh = tab[t].refresh,
             \A s \in Tabs : InFlight(s)' = InFlight(s)
      PROVE  AllSteady'
  <2>1. Sound(h) /\ \A c \in InFlight(t) : Fits(h, c)
    BY <1>1, <1>8 DEF Steady, Sound, Fits
  <2>2. Steady(t)'
    BY <1>1, <1>8, <2>1, SteadyKept
  <2>3. QED
    BY <1>1, <1>8, <2>2, OneTabSteady
<1>9. CASE Hide(t)
  <2> DEFINE h == [tab[t] EXCEPT !.visible = FALSE]
  <2>1. tab' = [tab EXCEPT ![t] = h] /\ calls' = calls \union Beacon(t)
    BY <1>1, <1>9 DEF Hide
  <2>2. \A s \in Tabs : InFlight(s)' = InFlight(s)
    BY <1>3, <2>1, AwaitedOfUnion, AwaitedOfBeacon
  <2>3. /\ h.page = tab[t].page /\ h.holder = tab[t].holder
        /\ h.beating = tab[t].beating /\ h.refresh = tab[t].refresh
    BY <1>1 DEF Hook
  <2> HIDE DEF h
  <2>4. QED
    BY <1>8, <2>1, <2>2, <2>3
<1>10. CASE Poll(t)
  <2> DEFINE h == [tab[t] EXCEPT !.avail = Available(UserOf[t])]
  <2>1. tab' = [tab EXCEPT ![t] = h] /\ calls' = calls
    BY <1>1, <1>10 DEF Poll
  <2>2. /\ h.page = tab[t].page /\ h.holder = tab[t].holder
        /\ h.beating = tab[t].beating /\ h.refresh = tab[t].refresh
    BY <1>1 DEF Hook
  <2> HIDE DEF h
  <2>3. QED
    BY <1>3, <1>8, <2>1, <2>2
<1>11. CASE Save(t)
  <2>1. tab' = tab /\ calls' = calls \union {Sent(t, "save")}
    BY <1>11 DEF Save
  <2>2. "save" \notin Ownership
    BY DEF Ownership, Acquiring
  <2>3. \A s \in Tabs : InFlight(s)' = InFlight(s)
    <3>1. \A s : AwaitedOf(s, {Sent(t, "save")}) = {}
      BY <2>2, AwaitedOfSent
    <3>2. \A s : InFlight(s)' =
                   AwaitedOf(s, calls) \union AwaitedOf(s, {Sent(t, "save")})
      BY <1>3, <2>1, AwaitedOfUnion
    <3>3. QED
      BY <1>3, <3>1, <3>2
  <2>4. QED
    BY <1>1, <1>8, <2>1, <2>3
<1>12. CASE Show(t)
  <2> DEFINE h == [tab[t] EXCEPT !.visible = TRUE]
             g == [h EXCEPT !.avail = Available(UserOf[t])]
  <2>1. /\ h.page = tab[t].page /\ h.holder = tab[t].holder
        /\ h.beating = tab[t].beating /\ h.refresh = tab[t].refresh
        /\ g.page = tab[t].page /\ g.holder = tab[t].holder
        /\ g.beating = tab[t].beating /\ g.refresh = tab[t].refresh
    BY <1>1 DEF Hook
  <2>2. \/ /\ HasRoom(t) /\ calls' = calls \union {Sent(t, "reconcile")}
           /\ tab' = [tab EXCEPT ![t] = h]
        \/ calls' = calls /\ tab' = [tab EXCEPT ![t] = g]
    BY <1>12 DEF Show, Resync
  <2>3. tab[t].page # "closed"
    BY <1>12 DEF Show
  <2> HIDE DEF h, g
  <2>4. CASE calls' = calls /\ tab' = [tab EXCEPT ![t] = g]
    BY <1>3, <1>8, <2>1, <2>4
  <2>5. CASE /\ HasRoom(t) /\ calls' = calls \union {Sent(t, "reconcile")}
             /\ tab' = [tab EXCEPT ![t] = h]
    <3>1. "reconcile" \in Ownership
      BY DEF Ownership, Acquiring
    <3>2. /\ InFlight(t)' = {Sent(t, "reconcile")}
          /\ Sent(t, "reconcile").kind = "reconcile"
          /\ \A s \in Tabs \ {t} : InFlight(s)' = InFlight(s)
      BY <1>2, <1>3, <1>4, <2>5, <3>1
    <3>3. Sound(h) /\ Fits(h, Sent(t, "reconcile"))
      BY <1>1, <2>1, <3>2 DEF Steady, Sound, Fits
    <3>4. Steady(t)'
      BY <1>1, <2>1, <2>3, <2>5, <3>2, <3>3, SteadyWithOne
    <3>5. QED
      BY <1>1, <2>5, <3>2, <3>4, OneTabSteady
  <2>6. QED
    BY <2>2, <2>4, <2>5
<1>13. CASE Beat(t) \/ Retake(t)
  <2>1. PICK k \in {"beat", "retake"} :
          /\ HasRoom(t) /\ calls' = calls \union {Sent(t, k)} /\ tab' = tab
          /\ k = "beat" => tab[t].beating
          /\ k = "retake" => tab[t].page = "readonly" /\ tab[t].refresh = "none"
    BY <1>13 DEF Beat, Retake
  <2>2. k \in Ownership
    BY DEF Ownership, Acquiring
  <2>3. /\ InFlight(t)' = {Sent(t, k)} /\ Sent(t, k).kind = k
        /\ \A s \in Tabs \ {t} : InFlight(s)' = InFlight(s)
    BY <1>2, <1>3, <1>4, <2>1, <2>2
  <2>4. /\ Sound(tab[t]) /\ Fits(tab[t], Sent(t, k))
        /\ tab[t].page # "closed"
    BY <1>1, <2>1, <2>3 DEF Steady, Sound, Fits
  <2>5. Steady(t)'
    BY <2>1, <2>3, <2>4, SteadyWithOne
  <2>6. QED
    BY <2>1, <2>3, <2>5, OneTabSteady
<1>14. CASE ReadFresh(t)
  <2> DEFINE h == [tab[t] EXCEPT !.refresh = "read"]
  <2>1. /\ tab' = [tab EXCEPT ![t] = h] /\ calls' = calls
        /\ tab[t].refresh = "asked"
    BY <1>1, <1>14 DEF ReadFresh
  <2>2. /\ h.page = tab[t].page /\ h.holder = tab[t].holder
        /\ h.beating = tab[t].beating /\ h.refresh = "read"
    BY <1>1 DEF Hook
  <2> HIDE DEF h
  <2>3. Sound(h) /\ \A c \in InFlight(t) : Fits(h, c)
    BY <1>1, <2>1, <2>2 DEF Steady, Sound, Fits
  <2>4. Steady(t)'
    BY <1>1, <1>3, <2>1, <2>2, <2>3, SteadyKept
  <2>5. QED
    BY <1>1, <1>3, <2>1, <2>4, OneTabSteady
<1>15. CASE Land(t)
  <2> DEFINE fresh == [tab[t] EXCEPT !.refresh = "none",
                                     !.stale   = tab[t].refresh = "outdated"]
             open == [fresh EXCEPT !.page = "editable", !.beating = TRUE]
             h == IF fresh.holder THEN open ELSE fresh
  <2>1. /\ tab' = [tab EXCEPT ![t] = h] /\ calls' = calls
        /\ tab[t].refresh \in {"read", "outdated"}
    BY <1>1, <1>15 DEF Land
  <2>2. /\ fresh.page = tab[t].page /\ fresh.holder = tab[t].holder
        /\ fresh.beating = tab[t].beating /\ fresh.refresh = "none"
        /\ open.page = "editable" /\ open.holder = tab[t].holder
        /\ open.beating = TRUE /\ open.refresh = "none"
    BY <1>1 DEF Hook
  <2>3. h = IF tab[t].holder THEN open ELSE fresh
    BY <2>2
  <2> HIDE DEF h, open, fresh
  <2>4. tab[t].page \notin {"closed", "editable"}
    BY <1>1, <2>1 DEF Steady, Sound
  <2>5. \A c \in InFlight(t) : c.kind # "retake"
    BY <1>1, <2>1 DEF Steady, Fits
  <2>6. /\ Sound(h) /\ h.page # "closed"
        /\ \A c \in InFlight(t) : Fits(h, c)
    <3>1. CASE tab[t].holder
      BY <2>2, <2>3, <2>5, <3>1 DEF Sound, Fits
    <3>2. CASE ~tab[t].holder
      BY <1>1, <2>2, <2>3, <2>4, <2>5, <3>2 DEF Steady, Sound, Fits
    <3>3. QED
      BY <3>1, <3>2
  <2>7. Steady(t)'
    BY <1>1, <1>3, <2>1, <2>6, SteadyKept
  <2>8. QED
    BY <1>1, <1>3, <2>1, <2>7, OneTabSteady
<1>16. QED
  BY <1>5, <1>6, <1>7, <1>9, <1>10, <1>11, <1>12, <1>13, <1>14, <1>15

(* What the server and the network do with a call leaves the forms alone.  *)
LEMMA CallsSteady ==
  ASSUME TypeOK, AllSteady, NEW c \in calls, tab' = tab,
         \/ \E a \in {"yes", "no", "error"} : calls' = Answered(c, a)
         \/ \A s \in Tabs : InFlight(s)' \subseteq InFlight(s)
  PROVE  AllSteady'
<1> SUFFICES ASSUME NEW s \in Tabs  PROVE Steady(s)'
  BY DEF AllSteady
<1>1. /\ Steady(s) /\ tab'[s] = tab[s] /\ Sound(tab'[s])
      /\ \A d \in InFlight(s) : Fits(tab'[s], d)
  BY DEF AllSteady, Steady
<1>2. CASE InFlight(s)' \subseteq InFlight(s)
  BY <1>1, <1>2, SteadyKept
<1>3. ASSUME NEW a \in {"yes", "no", "error"}, calls' = Answered(c, a)
      PROVE  Steady(s)'
  <2> DEFINE d == [c EXCEPT !.state = a]
  <2>1. /\ d.kind = c.kind
        /\ InFlight(s)' \subseteq
             (InFlight(s) \ {c}) \union (IF c \in InFlight(s) THEN {d} ELSE {})
    BY <1>3, InFlightIs, AwaitedOfAnswered
  <2> HIDE DEF d
  <2>2. CASE c \in InFlight(s)
    <3>1. InFlight(s)' \subseteq {d} /\ tab'[s].page # "closed"
      BY <1>1, <2>1, <2>2 DEF Steady
    <3>2. Fits(tab'[s], d)
      BY <1>1, <2>1, <2>2 DEF Fits
    <3>3. QED
      BY <1>1, <3>1, <3>2, SteadyWithOne
  <2>3. CASE c \notin InFlight(s)
    BY <1>2, <2>1, <2>3
  <2>4. QED
    BY <2>2, <2>3
<1>4. QED
  BY <1>2, <1>3

LEMMA ServerSteady ==
  ASSUME TypeOK, AllSteady, NEW c \in calls, Serve(c) \/ Commit(c) \/ Fail(c)
  PROVE  AllSteady'
<1>1. ASSUME calls' = calls \ {c}
      PROVE  \A s \in Tabs : InFlight(s)' \subseteq InFlight(s)
  BY <1>1 DEF InFlight
<1>2. CASE Serve(c)
  <2>1. tab' = tab
    BY <1>2 DEF Serve, ServeAcquire, ServeBeat, ServeRelease, ServeSave
  <2>2. CASE c.kind = "save" /\
             calls' = (calls \ {c}) \union {[c EXCEPT !.state = "admitted"]}
    <3> DEFINE d == [c EXCEPT !.state = "admitted"]
    <3>1. d.kind = "save" /\ "save" \notin Ownership
      BY <2>2 DEF TypeOK, Call, Ownership, Acquiring
    <3> HIDE DEF d
    <3>2. \A s \in Tabs : InFlight(s)' \subseteq InFlight(s)
      BY <2>2, <3>1 DEF InFlight, d
    <3>3. QED
      BY <2>1, <3>2, CallsSteady
  <2>3. CASE calls' = calls \ {c}
    BY <1>1, <2>1, <2>3, CallsSteady
  <2>4. CASE \E a \in {"yes", "no", "error"} : calls' = Answered(c, a)
    BY <2>1, <2>4, CallsSteady
  <2>5. QED
    BY <1>2, <2>2, <2>3, <2>4
       DEF Serve, ServeAcquire, ServeBeat, ServeRelease, ServeSave
<1>3. CASE Commit(c)
  <2>1. \A s \in Tabs : InFlight(s)' \subseteq InFlight(s)
    BY <1>1, <1>3 DEF Commit
  <2>2. ASSUME NEW s \in Tabs  PROVE Steady(s)'
    <3>1. Steady(s) /\ tab[s] \in Hook
      BY DEF AllSteady, TypeOK
    <3>2. \/ tab'[s] = tab[s]
          \/ tab'[s] = Overtaken(tab[s])
      BY <1>3 DEF Commit
    <3>3. LET h == Overtaken(tab[s])
          IN  /\ h.page = tab[s].page /\ h.holder = tab[s].holder
              /\ h.beating = tab[s].beating
              /\ h.refresh = "none" <=> tab[s].refresh = "none"
      BY <3>1 DEF Overtaken, Hook
    <3>4. /\ tab'[s].page = tab[s].page /\ tab'[s].holder = tab[s].holder
          /\ tab'[s].beating = tab[s].beating
          /\ tab'[s].refresh = "none" <=> tab[s].refresh = "none"
      BY <3>2, <3>3
    <3>5. Sound(tab'[s]) /\ \A d \in InFlight(s) : Fits(tab'[s], d)
      BY <3>1, <3>4 DEF Steady, Sound, Fits
    <3>6. QED
      BY <2>1, <3>1, <3>4, <3>5, SteadyKept
  <2>3. QED
    BY <2>2 DEF AllSteady
<1>4. CASE Fail(c)
  <2>1. /\ tab' = tab
        /\ calls' = Answered(c, "error") \/ calls' = calls \ {c}
    BY <1>4 DEF Fail
  <2>2. QED
    BY <1>1, <2>1, CallsSteady
<1>5. QED
  BY <1>2, <1>3, <1>4

LEMMA ReplySteady ==
  ASSUME MaxCalls = 1, TypeOK, AllSteady, NEW c \in calls, Reply(c)
  PROVE  AllSteady'
<1> DEFINE t == c.tab
           hook == tab[c.tab]
<1>1. /\ c \in Call /\ t \in Tabs /\ hook \in Hook
      /\ tab \in [Tabs -> Hook] /\ Steady(t)
  BY DEF TypeOK, Call, AllSteady
<1>2. c.heard /\ c.state \in {"yes", "no", "error"}
  BY DEF Reply
<1> HIDE DEF t, hook
<1>3. ASSUME c.kind \in Ownership
      PROVE  /\ InFlight(t) = {c} /\ Fits(hook, c) /\ hook.page # "closed"
             /\ AwaitedOf(t, calls \ {c}) = {}
             /\ \A s \in Tabs \ {t} : AwaitedOf(s, calls \ {c}) = InFlight(s)
  <2>1. c \in InFlight(t)
    BY <1>2, <1>3 DEF InFlight, t
  <2>2. InFlight(t) = {c} /\ Fits(hook, c) /\ hook.page # "closed"
    BY <1>1, <2>1 DEF Steady, hook, t
  <2>3. AwaitedOf(t, calls \ {c}) = {}
    BY <2>2 DEF AwaitedOf, InFlight
  <2>4. \A s \in Tabs \ {t} : AwaitedOf(s, calls \ {c}) = InFlight(s)
    BY DEF AwaitedOf, InFlight, t
  <2>5. QED
    BY <2>2, <2>3, <2>4
(* The hook has no call left.                                              *)
<1>4. ASSUME NEW h, c.kind \in Ownership, tab' = [tab EXCEPT ![t] = h],
             Sound(h), calls' = calls \ {c}
      PROVE  AllSteady'
  <2>1. InFlight(t)' = {} /\ \A s \in Tabs \ {t} : InFlight(s)' = InFlight(s)
    BY <1>3, <1>4, InFlightIs
  <2>2. Steady(t)'
    BY <1>1, <1>4, <2>1 DEF Steady
  <2>3. QED
    BY <1>1, <1>4, <2>1, <2>2, OneTabSteady
<1>5. CASE ReplyOwnership(c)
  <2>1. /\ c.kind \in {"load", "own", "reconcile"} /\ c.kind \in Ownership
        /\ tab' = [tab EXCEPT ![t] = Owned(c)] /\ calls' = calls \ {c}
    BY <1>5 DEF ReplyOwnership, Ownership, Acquiring, t
  <2>2. Sound(Granted(hook, c.kind # "own"))
    <3>1. c.kind = "own" => hook.beating
      BY <1>3, <2>1 DEF Fits
    <3>2. QED
      BY <1>1, <3>1 DEF Granted, Sound, Hook
  <2>3. Sound(Denied(hook)) /\ Sound(Unknown(hook))
    BY <1>1 DEF Denied, Unknown, Sound, Hook
  <2>4. \/ Owned(c) = Granted(hook, c.kind # "own")
        \/ Owned(c) = Denied(hook)
        \/ Owned(c) = Unknown(hook)
    BY <1>2 DEF Owned, hook
  <2>5. Sound(Owned(c))
    BY <2>2, <2>3, <2>4
  <2>6. QED
    BY <1>4, <2>1, <2>5
<1>6. CASE ReplyBeat(c)
  <2>1. c.kind = "beat" /\ c.kind \in Ownership
    BY <1>6 DEF ReplyBeat, Ownership, Acquiring
  <2>2. hook.beating /\ Sound(hook)
    BY <1>1, <1>3, <2>1 DEF Fits, Steady, hook, t
  <2>3. CASE c.state = "yes"
    <3>1. /\ tab' = [tab EXCEPT ![t] = Confirmed(hook)]
          /\ calls' = calls \ {c}
      BY <1>1, <1>6, <2>3 DEF ReplyBeat, t, hook
    <3>2. Sound(Confirmed(hook))
      BY <1>1, <2>2 DEF Confirmed, Sound, Hook
    <3>3. QED
      BY <1>4, <2>1, <3>1, <3>2
  <2>4. CASE c.state = "no"
    <3>1. tab' = tab /\ calls' = (calls \ {c}) \union {Sent(t, "own")}
      BY <1>6, <2>4 DEF ReplyBeat, t
    <3>2. "own" \in Ownership /\ Sent(t, "own").kind = "own"
      BY DEF Ownership, Acquiring, Sent
    <3>3. /\ AwaitedOf(t, {Sent(t, "own")}) = {Sent(t, "own")}
          /\ \A s \in Tabs \ {t} : AwaitedOf(s, {Sent(t, "own")}) = {}
      BY <3>2, AwaitedOfSent
    <3>4. \A s : InFlight(s)' =
                   AwaitedOf(s, calls \ {c}) \union AwaitedOf(s, {Sent(t, "own")})
      BY <3>1, InFlightIs, AwaitedOfUnion
    <3>5. /\ InFlight(t)' = {Sent(t, "own")}
          /\ \A s \in Tabs \ {t} : InFlight(s)' = InFlight(s)
      BY <1>3, <2>1, <3>3, <3>4
    <3>6. Fits(hook, Sent(t, "own")) /\ hook.page # "closed"
      BY <1>3, <2>1, <2>2, <3>2 DEF Fits
    <3>7. Steady(t)'
      BY <1>1, <2>2, <3>1, <3>5, <3>6, SteadyWithOne DEF hook, t
    <3>8. QED
      BY <1>1, <3>1, <3>5, <3>7, OneTabSteady
  <2>5. CASE c.state = "error"
    <3>1. tab' = [tab EXCEPT ![t] = hook] /\ calls' = calls \ {c}
      BY <1>1, <1>6, <2>5 DEF ReplyBeat, t, hook
    <3>2. QED
      BY <1>4, <2>1, <2>2, <3>1
  <2>6. QED
    BY <1>2, <2>3, <2>4, <2>5
<1>7. CASE ReplyRetake(c)
  <2> DEFINE told == [hook EXCEPT !.avail = Available(UserOf[t])]
  <2>1. c.kind = "retake" /\ c.kind \in Ownership /\ calls' = calls \ {c}
    BY <1>7 DEF ReplyRetake, Ownership, Acquiring
  <2>2. Sound(hook) /\ hook.page # "editable" /\ hook.page # "closed"
    BY <1>1, <1>3, <2>1 DEF Fits, Steady, hook, t
  <2>3. \/ tab' = [tab EXCEPT ![t] = Retaken(hook)]
        \/ tab' = [tab EXCEPT ![t] = told]
        \/ tab' = [tab EXCEPT ![t] = hook]
    <3>1. CASE c.state = "yes"
      BY <1>1, <1>7, <3>1 DEF ReplyRetake, t, hook
    <3>2. CASE c.state = "no"
      BY <1>1, <1>7, <3>2 DEF ReplyRetake, t, hook
    <3>3. CASE c.state = "error"
      BY <1>1, <1>7, <3>3 DEF ReplyRetake, t, hook
    <3>4. QED
      BY <1>2, <3>1, <3>2, <3>3
  <2>4. Sound(Retaken(hook)) /\ Sound(told)
    BY <1>1, <2>2 DEF Retaken, Sound, Hook
  <2>5. QED
    BY <1>4, <2>1, <2>2, <2>3, <2>4
<1>8. CASE ReplyConflict(c)
  <2> DEFINE told == [hook EXCEPT !.avail = Available(UserOf[t])]
  <2>1. c.kind = "save" /\ "save" \notin Ownership
    BY <1>8 DEF ReplyConflict, Ownership, Acquiring
  <2>2. \A s \in Tabs : AwaitedOf(s, calls \ {c}) = InFlight(s)
    BY <2>1 DEF AwaitedOf, InFlight
  <2>3. CASE hook.holder
    <3>1. /\ HasRoom(t) /\ tab' = [tab EXCEPT ![t] = hook]
          /\ calls' = (calls \ {c}) \union {Sent(t, "reconcile")}
      BY <1>8, <2>3 DEF ReplyConflict, Resync, t, hook
    <3>2. "reconcile" \in Ownership /\ Sent(t, "reconcile").kind = "reconcile"
      BY DEF Ownership, Acquiring, Sent
    <3>3. InFlight(t) = {}
      BY <1>1, <3>1, NoneInFlight
    <3>4. /\ AwaitedOf(t, {Sent(t, "reconcile")}) = {Sent(t, "reconcile")}
          /\ \A s \in Tabs \ {t} : AwaitedOf(s, {Sent(t, "reconcile")}) = {}
      BY <3>2, AwaitedOfSent
    <3>5. \A s : InFlight(s)' = AwaitedOf(s, calls \ {c})
                                  \union AwaitedOf(s, {Sent(t, "reconcile")})
      BY <3>1, InFlightIs, AwaitedOfUnion
    <3>6. /\ InFlight(t)' = {Sent(t, "reconcile")}
          /\ \A s \in Tabs \ {t} : InFlight(s)' = InFlight(s)
      BY <1>1, <2>2, <3>3, <3>4, <3>5
    <3>7. /\ Sound(hook) /\ hook.page # "closed"
          /\ Fits(hook, Sent(t, "reconcile"))
      BY <1>1, <2>3, <3>2 DEF Steady, Sound, Fits, hook, t
    <3>8. Steady(t)'
      BY <1>1, <3>1, <3>6, <3>7, SteadyWithOne
    <3>9. QED
      BY <1>1, <3>1, <3>6, <3>8, OneTabSteady
  <2>4. CASE ~hook.holder
    <3>1. tab' = [tab EXCEPT ![t] = told] /\ calls' = calls \ {c}
      BY <1>8, <2>4 DEF ReplyConflict, Resync, t, hook
    <3>2. /\ told.page = hook.page /\ told.holder = hook.holder
          /\ told.beating = hook.beating /\ told.refresh = hook.refresh
      BY <1>1 DEF Hook
    <3> HIDE DEF told
    <3>3. \A s \in Tabs : InFlight(s)' = InFlight(s)
      BY <2>2, <3>1, InFlightIs
    <3>4. Sound(told) /\ \A d \in InFlight(t) : Fits(told, d)
      BY <1>1, <3>2 DEF Steady, Sound, Fits, hook, t
    <3>5. Steady(t)'
      BY <1>1, <3>1, <3>2, <3>3, <3>4, SteadyKept DEF hook, t
    <3>6. QED
      BY <1>1, <3>1, <3>3, <3>5, OneTabSteady
  <2>5. QED
    BY <2>3, <2>4
<1>9. QED
  BY <1>5, <1>6, <1>7, <1>8 DEF Reply

LEMMA AllSteadyInvariant ==
  ASSUME MaxCalls = 1
  PROVE  Spec => [](TypeOK /\ AllSteady)
<1>1. Init => AllSteady
  <2>1. ASSUME Init, NEW t \in Tabs  PROVE Steady(t)
    <3>1. tab[t] = Closed /\ InFlight(t) = {}
      BY <2>1 DEF Init, InFlight
    <3>2. Sound(Closed)
      BY DEF Closed, Sound
    <3>3. QED
      BY <3>1, <3>2 DEF Steady
  <2>2. QED
    BY <2>1 DEF AllSteady
<1>2. TypeOK /\ AllSteady /\ [Next]_vars => AllSteady'
  <2> SUFFICES ASSUME TypeOK, AllSteady, [Next]_vars  PROVE AllSteady'
    OBVIOUS
  <2>1. CASE Expire \/ GiveUp \/ UNCHANGED vars
    <3>1. tab' = tab /\ calls' = calls
      BY <2>1 DEF Expire, GiveUp, vars
    <3>2. QED
      BY <3>1 DEF AllSteady, Steady, InFlight
  <2>2. QED
    BY <2>1, PageSteady, ServerSteady, ReplySteady DEF Next
<1>3. QED
  BY <1>1, <1>2, Typing, PTL DEF Spec

(* As long as a hook waits for one answer at a time, an editable form      *)
(* beats and its tab believes it holds the lock, for any number of tabs    *)
(* and of co-declarants, and whatever is lost, hidden or left.             *)
THEOREM Beating ==
  ASSUME MaxCalls = 1
  PROVE  Spec => []EditableBeats
<1>1. AllSteady => EditableBeats
  BY DEF AllSteady, Steady, Sound, EditableBeats
<1>2. QED
  BY <1>1, AllSteadyInvariant, PTL

(* And a form that awaits the data of a retaken lock is locked until they  *)
(* have landed.                                                            *)
THEOREM AwaitingLocked ==
  ASSUME MaxCalls = 1
  PROVE  Spec => []AwaitedDataKeepsLocked
<1>1. AllSteady => AwaitedDataKeepsLocked
  BY DEF AllSteady, Steady, Sound, AwaitedDataKeepsLocked
<1>2. QED
  BY <1>1, AllSteadyInvariant, PTL
=============================================================================
