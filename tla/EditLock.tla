------------------------------ MODULE EditLock ------------------------------
(***************************************************************************)
(* The collaborative edit lock of one declaration: the row of              *)
(* declaration_locks, the procedures that take, renew, test and delete it, *)
(* the guard of declarationLockedWriteProcedure, and one instance of the   *)
(* hook useDeclarationLock per open browser tab.                           *)
(*                                                                         *)
(* A tab and the server exchange calls that are served in any order, may   *)
(* be answered in any order, may fail or lose their answer, and may        *)
(* outlive the page that sent them (heard = FALSE: the hook's "cancelled"  *)
(* flag drops the answer).  The server is stateless but for the lock row.  *)
(***************************************************************************)
EXTENDS Naturals, FiniteSets

CONSTANTS
  Tabs,       (* browser tabs on the declaration                            *)
  Users,      (* the co-declarants                                          *)
  UserOf,     (* who is logged in in each tab                               *)
  NoOne,      (* no user                                                    *)
  MaxCalls,   (* bound on the ownership calls of one mounted hook in flight *)
  MaxBacklog, (* bound on all calls, for a user to open or leave a page     *)
  Moves       (* what may happen in the instance, besides opening a tab,    *)
              (* beating, polling and retaking                              *)

ASSUME EditLockAssumption ==
  /\ UserOf \in [Tabs -> Users]
  /\ NoOne \notin Users
  /\ MaxCalls \in Nat \ {0}
  /\ MaxBacklog \in Nat
  /\ Moves \subseteq {"navigate", "close", "hide", "save", "expire", "give up", "fault"}

VARIABLES
  lock,   (* the row: its owner, NoOne when deleted; live until expires_at  *)
  tab,    (* the state of each tab's hook and form                          *)
  calls   (* the requests in flight and the answers not yet handled         *)

vars == << lock, tab, calls >>

(* acquireLock is called from four places of the hook: at mount ("load"),  *)
(* after a heartbeat that was refused ("own"), by reconcileOwnership and   *)
(* by the retake button.                                                   *)
Acquiring == { "load", "own", "reconcile", "retake" }
Ownership == Acquiring \union { "beat" }
Kind      == Ownership \union { "save", "release" }

Lock == [ owner : Users \union {NoOne}, live : BOOLEAN ]

Hook ==
  [ page    : {"closed", "loading", "editable", "readonly"},
    visible : BOOLEAN,   (* document.visibilityState                        *)
    holder  : BOOLEAN,   (* isHolderRef                                     *)
    beating : BOOLEAN,   (* intervalId # null                               *)
    refresh : {"none", "asked", "read", "outdated"},
                         (* isAwaitingFreshDataRef: the refresh a retake     *)
                         (* asked for, its data read, then overtaken by a   *)
                         (* save of someone else                            *)
    avail   : BOOLEAN,   (* last getLockAvailability answer                 *)
    stale   : BOOLEAN ]  (* a co-declarant saved since the form was loaded  *)

Call ==
  [ tab : Tabs, kind : Kind, heard : BOOLEAN,
    state : {"sent", "admitted", "yes", "no", "error"} ]

TypeOK ==
  /\ lock \in Lock
  /\ lock.live => lock.owner # NoOne
  /\ tab \in [Tabs -> Hook]
  /\ calls \subseteq Call

Free   == [ owner |-> NoOne, live |-> FALSE ]
Closed == [ page |-> "closed", visible |-> FALSE, holder |-> FALSE,
            beating |-> FALSE, refresh |-> "none", avail |-> FALSE,
            stale |-> FALSE ]

Init ==
  /\ lock  = Free
  /\ tab   = [t \in Tabs |-> Closed]
  /\ calls = {}

-----------------------------------------------------------------------------
(* The lock row, as the service's queries see it                           *)

(* getActiveLock: an expired row reads as no lock.                         *)
ActiveHolder == IF lock.live THEN lock.owner ELSE NoOne

(* Mutant: the upsert without its setWhere.                                *)
MayTakeAlways(u) == u \in Users

(* The setWhere of the upsert, or no row to conflict with.                 *)
MayTake(u) == \/ lock.owner \in {u, NoOne}
              \/ ~lock.live

(* The WHERE of refreshLock, which does not look at expires_at.            *)
MayRefresh(u) == lock.owner = u

(* Mutant: availability from the row, expired or not.                      *)
AvailableByRow(u) == lock.owner \in {NoOne, u}

(* getLockAvailability *)
Available(u) == ActiveHolder \in {NoOne, u}

(* The middleware of declarationLockedWriteProcedure.                      *)
MayWrite(u) == ActiveHolder = u

-----------------------------------------------------------------------------
(* Calls                                                                   *)

Sent(t, k) ==
  [ tab |-> t, kind |-> k, heard |-> k # "release", state |-> "sent" ]

InFlight(t) == { c \in calls : c.tab = t /\ c.heard /\ c.kind \in Ownership }
Quiet       == Cardinality(calls) < MaxBacklog
HasRoom(t)  == Cardinality(InFlight(t)) < MaxCalls
Retaking(t) == \E c \in InFlight(t) : c.kind = "retake"

(* The calls the hook of t sent before it was unmounted.                   *)
Orphans(t) == { c \in calls : c.tab = t /\ ~c.heard /\ c.kind # "release" }

(* Unmounting: requests under way still reach the server, answers do not   *)
(* reach anyone.                                                           *)
Unheard(t) ==
  { c \in calls : c.tab # t } \union
  { [c EXCEPT !.heard = FALSE] :
      c \in { d \in calls : d.tab = t /\ d.state \in {"sent", "admitted"} } }

Answered(c, s) ==
  (calls \ {c}) \union (IF c.heard THEN {[c EXCEPT !.state = s]} ELSE {})

(* handleHide: a tab that believes it holds the lock sends the beacon.     *)
Beacon(t) == IF tab[t].holder THEN { Sent(t, "release") } ELSE {}

-----------------------------------------------------------------------------
(* The page                                                                *)

Mounted(stale) ==
  [ Closed EXCEPT !.page = "loading", !.visible = TRUE, !.stale = stale ]

(* The page is rendered with the data of the moment; the mounted hook then *)
(* asks for the lock.                                                      *)
Open(t) ==
  /\ Quiet
  /\ tab[t].page = "closed"
  /\ tab'   = [tab EXCEPT ![t] = Mounted(FALSE)]
  /\ calls' = calls \union { Sent(t, "load") }
  /\ UNCHANGED lock

(* From one step to the next the hook is unmounted and mounted again       *)
(* without a release.  The draft query survives, so the next form may or   *)
(* may not show what a co-declarant saved.                                 *)
Navigate(t) ==
  /\ Quiet
  /\ "navigate" \in Moves
  /\ tab[t].page # "closed"
  /\ tab[t].visible
  /\ Orphans(t) = {}
  /\ \E stale \in {FALSE, tab[t].stale} :
       tab' = [tab EXCEPT ![t] = Mounted(stale)]
  /\ calls' = Unheard(t) \union { Sent(t, "load") }
  /\ UNCHANGED lock

(* pagehide *)
Close(t) ==
  /\ Quiet
  /\ "close" \in Moves
  /\ tab[t].page # "closed"
  /\ Orphans(t) = {}
  /\ tab'   = [tab EXCEPT ![t] = Closed]
  /\ calls' = Unheard(t) \union Beacon(t)
  /\ UNCHANGED lock

(* visibilitychange to "hidden": what the tab believes does not change.    *)
Hide(t) ==
  /\ Quiet
  /\ "hide" \in Moves
  /\ tab[t].page # "closed"
  /\ tab[t].visible
  /\ tab'   = [tab EXCEPT ![t].visible = FALSE]
  /\ calls' = calls \union Beacon(t)
  /\ UNCHANGED lock

(* resync: a believed holder takes the lock again, any other tab only asks *)
(* whether it is free.                                                     *)
Resync(t, hook, others) ==
  IF hook.holder
  THEN /\ HasRoom(t)
       /\ calls' = others \union { Sent(t, "reconcile") }
       /\ tab'   = [tab EXCEPT ![t] = hook]
  ELSE /\ calls' = others
       /\ tab'   = [tab EXCEPT ![t] = [hook EXCEPT !.avail = Available(UserOf[t])]]

(* visibilitychange to "visible", or pageshow of a page from the bfcache.  *)
Show(t) ==
  /\ tab[t].page # "closed"
  /\ ~tab[t].visible
  /\ Resync(t, [tab[t] EXCEPT !.visible = TRUE], calls)
  /\ UNCHANGED lock

Beat(t) ==
  /\ tab[t].beating
  /\ HasRoom(t)
  /\ calls' = calls \union { Sent(t, "beat") }
  /\ UNCHANGED << lock, tab >>

(* useLockAvailability: polled by a visible locked-out tab.                *)
Poll(t) ==
  /\ tab[t].page = "readonly"
  /\ tab[t].visible
  /\ tab[t].refresh = "none"
  /\ ~Retaking(t)
  /\ tab' = [tab EXCEPT ![t].avail = Available(UserOf[t])]
  /\ UNCHANGED << lock, calls >>

(* The button is shown to a locked-out tab that was told the lock is free. *)
Retake(t) ==
  /\ tab[t].page = "readonly"
  /\ tab[t].avail
  /\ tab[t].refresh = "none"
  /\ ~Retaking(t)
  /\ HasRoom(t)
  /\ calls' = calls \union { Sent(t, "retake") }
  /\ UNCHANGED << lock, tab >>

(* router.refresh and the invalidated queries read the database ...        *)
ReadFresh(t) ==
  /\ tab[t].refresh = "asked"
  /\ tab' = [tab EXCEPT ![t].refresh = "read"]
  /\ UNCHANGED << lock, calls >>

(* Mutant: the heartbeat is not started after the refresh.                 *)
LandSilent(t) ==
  /\ tab[t].refresh \in {"read", "outdated"}
  /\ LET fresh == [tab[t] EXCEPT !.refresh = "none",
                                 !.stale   = tab[t].refresh = "outdated"]
     IN tab' = [tab EXCEPT ![t] =
                  IF fresh.holder THEN [fresh EXCEPT !.page = "editable"] ELSE fresh]
  /\ UNCHANGED << lock, calls >>

(* ... and the form is mounted again with what they read; it unlocks if    *)
(* the tab still believes it holds the lock.                               *)
Land(t) ==
  /\ tab[t].refresh \in {"read", "outdated"}
  /\ LET fresh == [tab[t] EXCEPT !.refresh = "none",
                                 !.stale   = tab[t].refresh = "outdated"]
     IN tab' = [tab EXCEPT ![t] =
                  IF fresh.holder
                  THEN [fresh EXCEPT !.page = "editable", !.beating = TRUE]
                  ELSE fresh]
  /\ UNCHANGED << lock, calls >>

(* A step form is submitted.  (The autosaved draft does not go through the *)
(* guard: module DraftAutosave.)                                           *)
Save(t) ==
  /\ Quiet
  /\ "save" \in Moves
  /\ tab[t].page = "editable"
  /\ tab[t].visible
  /\ \A c \in calls : ~(c.tab = t /\ c.heard /\ c.kind = "save")
  /\ calls' = calls \union { Sent(t, "save") }
  /\ UNCHANGED << lock, tab >>

-----------------------------------------------------------------------------
(* The server                                                              *)

ServeAcquire(c) ==
  /\ c.kind \in Acquiring
  /\ IF MayTake(UserOf[c.tab])
     THEN /\ lock'  = [owner |-> UserOf[c.tab], live |-> TRUE]
          /\ calls' = Answered(c, "yes")
     ELSE /\ calls' = Answered(c, "no")
          /\ UNCHANGED lock
  /\ UNCHANGED tab

ServeBeat(c) ==
  /\ c.kind = "beat"
  /\ IF MayRefresh(UserOf[c.tab])
     THEN /\ lock'  = [lock EXCEPT !.live = TRUE]
          /\ calls' = Answered(c, "yes")
     ELSE /\ calls' = Answered(c, "no")
          /\ UNCHANGED lock
  /\ UNCHANGED tab

(* The beacon's route deletes the caller's row, expired or not.            *)
ServeRelease(c) ==
  /\ c.kind = "release"
  /\ lock'  = IF lock.owner = UserOf[c.tab] THEN Free ELSE lock
  /\ calls' = calls \ {c}
  /\ UNCHANGED tab

(* The guard of a write runs on its own, before the procedure's body.      *)
ServeSave(c) ==
  /\ c.kind = "save"
  /\ calls' = IF MayWrite(UserOf[c.tab])
              THEN (calls \ {c}) \union {[c EXCEPT !.state = "admitted"]}
              ELSE Answered(c, "no")
  /\ UNCHANGED << lock, tab >>

Serve(c) ==
  /\ c.state = "sent"
  /\ \/ ServeAcquire(c)
     \/ ServeBeat(c)
     \/ ServeRelease(c)
     \/ ServeSave(c)

(* The body of a write: every form a co-declarant has open is now behind.  *)
Overtaken(hook) ==
  [hook EXCEPT !.stale   = TRUE,
               !.refresh = IF hook.refresh = "read" THEN "outdated" ELSE @]

Commit(c) ==
  /\ c.kind = "save"
  /\ c.state = "admitted"
  /\ calls' = calls \ {c}
  /\ tab' = [t \in Tabs |->
               IF UserOf[t] # UserOf[c.tab] /\ tab[t].page # "closed"
               THEN Overtaken(tab[t]) ELSE tab[t]]
  /\ UNCHANGED lock

(* now() passes expires_at.                                                *)
Expire ==
  /\ "expire" \in Moves
  /\ lock.live
  /\ lock' = [lock EXCEPT !.live = FALSE]
  /\ UNCHANGED << tab, calls >>

(* Logout, loss of the company link, or an administrator's override.       *)
GiveUp ==
  /\ "give up" \in Moves
  /\ lock.owner # NoOne
  /\ lock' = Free
  /\ UNCHANGED << tab, calls >>

(* A request or its answer is lost.                                        *)
Fail(c) ==
  /\ "fault" \in Moves
  /\ c.state \in {"sent", "yes", "no"}
  /\ calls' = IF c.kind \in Ownership THEN Answered(c, "error") ELSE calls \ {c}
  /\ UNCHANGED << lock, tab >>

-----------------------------------------------------------------------------
(* Answers, as the hook handles them                                       *)

(* refreshOwnership, then startHeartbeat at mount and after reconciling.   *)
Granted(hook, starts) ==
  [hook EXCEPT !.holder  = TRUE,
               !.page    = IF hook.refresh = "none" THEN "editable" ELSE "readonly",
               !.beating = hook.beating \/ starts]

Denied(hook) ==
  [hook EXCEPT !.holder = FALSE, !.page = "readonly", !.beating = FALSE]

(* The catch branch leaves the heartbeat running.                          *)
Unknown(hook) == [hook EXCEPT !.holder = FALSE, !.page = "readonly"]

Owned(c) ==
  LET hook == tab[c.tab]
  IN CASE c.state = "yes" -> Granted(hook, c.kind # "own")
       [] c.state = "no"  -> Denied(hook)
       [] OTHER           -> Unknown(hook)

ReplyOwnership(c) ==
  /\ c.kind \in {"load", "own", "reconcile"}
  /\ tab'   = [tab EXCEPT ![c.tab] = Owned(c)]
  /\ calls' = calls \ {c}

(* Mutant: an accepted heartbeat unlocks in any case.                      *)
ConfirmedAtOnce(hook) == [hook EXCEPT !.holder = TRUE, !.page = "editable"]

(* An accepted heartbeat proves ownership, a refused one asks again.       *)
Confirmed(hook) ==
  [hook EXCEPT !.holder = TRUE,
               !.page   = IF hook.refresh = "none" THEN "editable" ELSE @]

(* Mutant: a refused heartbeat is not followed by an acquire.              *)
ReplyBeatDeaf(c) ==
  /\ c.kind = "beat"
  /\ calls' = calls \ {c}
  /\ tab'   = IF c.state = "yes"
              THEN [tab EXCEPT ![c.tab] = Confirmed(@)]
              ELSE tab

ReplyBeat(c) ==
  /\ c.kind = "beat"
  /\ calls' = (calls \ {c}) \union
              (IF c.state = "no" THEN { Sent(c.tab, "own") } ELSE {})
  /\ tab'   = IF c.state = "yes"
              THEN [tab EXCEPT ![c.tab] = Confirmed(@)]
              ELSE tab

(* A retaken lock asks for fresh data and leaves the form as it is.        *)
Retaken(hook) ==
  [hook EXCEPT !.holder = TRUE, !.refresh = "asked", !.avail = FALSE]

ReplyRetake(c) ==
  /\ c.kind = "retake"
  /\ calls' = calls \ {c}
  /\ tab'   = [tab EXCEPT ![c.tab] =
                 CASE c.state = "yes" -> Retaken(@)
                   [] c.state = "no"  -> [@ EXCEPT !.avail = Available(UserOf[c.tab])]
                   [] OTHER           -> @]

(* DECLARATION_LOCK_CONFLICT_MESSAGE *)
ReplyConflict(c) ==
  /\ c.kind = "save"
  /\ c.state = "no"
  /\ Resync(c.tab, tab[c.tab], calls \ {c})

Reply(c) ==
  /\ c.heard
  /\ c.state \in {"yes", "no", "error"}
  /\ \/ ReplyOwnership(c)
     \/ ReplyBeat(c)
     \/ ReplyRetake(c)
     \/ ReplyConflict(c)
  /\ UNCHANGED lock

Next ==
  \/ \E t \in Tabs :
       \/ Open(t)
       \/ Navigate(t)
       \/ Close(t)
       \/ Hide(t)
       \/ Show(t)
       \/ Beat(t)
       \/ Poll(t)
       \/ Retake(t)
       \/ ReadFresh(t)
       \/ Land(t)
       \/ Save(t)
  \/ \E c \in calls :
       \/ Serve(c)
       \/ Commit(c)
       \/ Fail(c)
       \/ Reply(c)
  \/ Expire
  \/ GiveUp

Spec == Init /\ [][Next]_vars

-----------------------------------------------------------------------------
(* Fairness: the call a hook has in flight is served and its answer        *)
(* handled, the timers of a visible tab fire, time passes.  Nothing is     *)
(* assumed of what users do, of hidden tabs, or of calls no one waits for. *)

Progress(t) == \E c \in InFlight(t) : Serve(c) \/ Reply(c)

Fairness ==
  /\ WF_vars(Expire)
  /\ \A t \in Tabs :
       /\ WF_vars(Progress(t))
       /\ WF_vars(tab[t].visible /\ Beat(t))
       /\ WF_vars(Poll(t))

FairSpec == Spec /\ Fairness

-----------------------------------------------------------------------------
(* Properties                                                              *)

Holds(t) == ActiveHolder = UserOf[t]

(* A live lock is never taken from its owner: between two owners the row   *)
(* expires or is deleted.                                                  *)
NeverTakenOver ==
  [][ lock.live => lock'.owner \in {lock.owner, NoOne} ]_vars

(* A tab that may be edited keeps its heartbeat running and believes it    *)
(* holds the lock, whichever answer unlocked it (mount, reconciling, the   *)
(* heartbeat, the refresh of a retake): without the timer it would never   *)
(* learn that it lost the lock, without the belief it would never release. *)
EditableBeats ==
  \A t \in Tabs : tab[t].page = "editable" => tab[t].holder /\ tab[t].beating

(* The comment above isAwaitingFreshDataRef: "A retaken lock must not      *)
(* unlock the forms before the refreshed data lands."                      *)
AwaitedDataKeepsLocked ==
  \A t \in Tabs : tab[t].refresh # "none" => tab[t].page # "editable"

(* The same of one step: nothing unlocks a form that awaits its data.      *)
NoUnlockWhileAwaiting ==
  [][ \A t \in Tabs :
        /\ tab[t].page = "readonly"
        /\ tab'[t].page = "editable"
        => tab'[t].refresh = "none" ]_vars

(* docs/features.md 13.7: the lock avoids "les conflits de données": what  *)
(* passes the guard was entered over the latest data of the co-declarants. *)
NoStaleWrite ==
  \A c \in calls : c.state = "admitted" /\ c.heard => ~tab[c.tab].stale

(* A visible tab that may be edited while its user has lost the lock wins  *)
(* it back or is told.                                                     *)
LossIsNoticed ==
  \A t \in Tabs :
    tab[t].page = "editable" /\ tab[t].visible /\ ~Holds(t)
    ~> \/ tab[t].page # "editable"
       \/ ~tab[t].visible
       \/ Holds(t)

(* Once the tabs of everyone else are closed, whatever they left behind    *)
(* (a lock, a beacon, requests nobody waits for), a locked-out tab that    *)
(* stays is offered the lock.                                              *)
Alone(t) == \A s \in Tabs : UserOf[s] # UserOf[t] => tab[s].page = "closed"
Waiting(t) ==
  /\ tab[t].page = "readonly" /\ tab[t].visible /\ tab[t].refresh = "none"
  /\ ~Retaking(t)
  /\ Alone(t)

LockIsOffered == \A t \in Tabs : Waiting(t) ~> (tab[t].avail \/ ~Waiting(t))

=============================================================================
