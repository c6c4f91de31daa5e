---------------------------- MODULE DraftAutosave ----------------------------
(***************************************************************************)
(* The autosaved draft of one declaration: the JSON column                 *)
(* declarations.draft, the router declarationDraft, and one instance of    *)
(* the hook useDeclarationDraft per declarant.                             *)
(*                                                                         *)
(* A save or a clear reads the column, then the edit lock, then writes the *)
(* whole column back: three statements and no transaction.  The browser    *)
(* keeps the column in a cache that is never read again (staleTime         *)
(* Infinity), only patched by the hook.                                    *)
(***************************************************************************)
CONSTANTS
  Users,     (* the co-declarants, one page each                           *)
  Steps,     (* the slices of the draft: a kind and a step                 *)
  Main,      (* those whose kind a submission purges                       *)
  Values,    (* what may be typed that differs from the saved data         *)
  Requests,  (* the calls under way                                        *)
  Nothing    (* no draft, no page, no lock, no call                        *)

VARIABLES
  draft,    (* the column                                                  *)
  holder,   (* whoever has the active edit lock                            *)
  page,     (* the page of each declarant                                  *)
  request   (* the calls of saveMutation and clearMutation                 *)

vars == << draft, holder, page, request >>

Drafts == [Steps -> Values \union {Nothing}]
Empty  == [s \in Steps |-> Nothing]

Page ==
  [ step    : Steps \union {Nothing},   (* the mounted form                 *)
    shown   : Values \union {Nothing},  (* how it differs from what is saved *)
    pending : SUBSET (Values \union {Nothing}),  (* what the timer will send *)
    cache   : Drafts,                   (* the answer of declarationDraft.get *)
    left    : [Steps -> SUBSET (Values \union {Nothing})] ]
                (* history: what was typed in each step and not saved since *)

(* A save carries the diff of a step, a clear carries Nothing. *)
Request ==
  [ at : {"idle", "sent", "read", "checked", "done"}, user : Users \union {Nothing},
    step : Steps \union {Nothing}, data : Values \union {Nothing}, copy : Drafts,
    heard : BOOLEAN ]   (* the page that sent it is still there              *)

Closed == [ step |-> Nothing, shown |-> Nothing, pending |-> {}, cache |-> Empty,
            left |-> [s \in Steps |-> {}] ]
Idle   == [ at |-> "idle", user |-> Nothing, step |-> Nothing, data |-> Nothing,
            copy |-> Empty, heard |-> FALSE ]

TypeOK ==
  /\ draft   \in Drafts
  /\ holder  \in Users \union {Nothing}
  /\ page    \in [Users -> Page]
  /\ request \in [Requests -> Request]

Init ==
  /\ draft   = Empty
  /\ holder  \in Users \union {Nothing}
  /\ page    = [u \in Users |-> Closed]
  /\ request = [r \in Requests |-> Idle]

-----------------------------------------------------------------------------
(* The hook                                                                *)

Send(r, u, s, data) ==
  /\ request[r].at = "idle"
  /\ request' = [request EXCEPT ![r] =
       [Idle EXCEPT !.at = "sent", !.user = u, !.step = s, !.data = data, !.heard = TRUE]]

(* The form of step s is mounted and takes the draft of the cache. *)
Mounted(p, s) == [p EXCEPT !.step = s, !.shown = p.cache[s], !.pending = {}]

(* The page is loaded, and get is answered with the column, or with        *)
(* nothing once the draft is 30 days old; earlier calls go on unheard.     *)
Load(u, s) ==
  /\ \E answer \in {draft, Empty} :
       page' = [page EXCEPT ![u] = Mounted([Closed EXCEPT !.cache = answer], s)]
  /\ request' = [r \in Requests |->
       IF request[r].user = u THEN [request[r] EXCEPT !.heard = FALSE] ELSE request[r]]
  /\ UNCHANGED << draft, holder >>

(* setField: the timer of 600 ms starts again. *)
Type(u, v) ==
  /\ page[u].step # Nothing
  /\ page' = [page EXCEPT ![u].shown = v, ![u].pending = {v},
                          ![u].left[page[u].step] = {v}]
  /\ UNCHANGED << draft, holder, request >>

(* The timer: the diff is sent, and the cache waits for the answer. *)
Fire(u, r) ==
  /\ \E data \in page[u].pending : Send(r, u, page[u].step, data)
  /\ page' = [page EXCEPT ![u].pending = {}]
  /\ UNCHANGED << draft, holder >>

(* From one step to another: the hook that is unmounted sends what its     *)
(* timer still held and patches the cache at once.                         *)
Turn(u, s, r) ==
  LET p == page[u] IN
  /\ p.step \notin {s, Nothing}
  /\ IF p.pending = {}
     THEN /\ page' = [page EXCEPT ![u] = Mounted(p, s)]
          /\ UNCHANGED request
     ELSE \E data \in p.pending :
            /\ Send(r, u, p.step, data)
            /\ page' = [page EXCEPT ![u] =
                 Mounted([p EXCEPT !.cache[p.step] = data], s)]
  /\ UNCHANGED << draft, holder >>

(* clearDraft, once the mutation of the step has saved its data. *)
ClearDraft(u, r) ==
  LET s == page[u].step IN
  /\ s # Nothing
  /\ Send(r, u, s, Nothing)
  /\ page' = [page EXCEPT ![u].shown = Nothing, ![u].pending = {}, ![u].left[s] = {}]
  /\ UNCHANGED << draft, holder >>

(* onSuccess patches the cache with what the answered call carried. *)
Succeed(r) ==
  LET q == request[r] IN
  /\ q.at = "done"
  /\ page' = IF q.heard THEN [page EXCEPT ![q.user].cache[q.step] = q.data] ELSE page
  /\ request' = [request EXCEPT ![r] = Idle]
  /\ UNCHANGED << draft, holder >>

-----------------------------------------------------------------------------
(* The router                                                              *)

Read(r) ==
  /\ request[r].at = "sent"
  /\ request' = [request EXCEPT ![r].at = "read", ![r].copy = draft]
  /\ UNCHANGED << draft, holder, page >>

Check(r) ==
  /\ request[r].at = "read"
  /\ request' = [request EXCEPT ![r] =
       IF holder \in {request[r].user, Nothing} THEN [@ EXCEPT !.at = "checked"] ELSE Idle]
  /\ UNCHANGED << draft, holder, page >>

(* The copy with one slice replaced; a clear of no draft writes nothing. *)
Write(r) ==
  LET q == request[r] IN
  /\ q.at = "checked"
  /\ draft' = IF q.data = Nothing /\ q.copy = Empty THEN draft
              ELSE [q.copy EXCEPT ![q.step] = q.data]
  /\ request' = [request EXCEPT ![r].at = "done"]
  /\ UNCHANGED << holder, page >>

(* purgeDraftSlice, in the transaction of the submission, which has        *)
(* already written the row: no autosave writes between its two statements. *)
Purge ==
  /\ draft' = [s \in Steps |-> IF s \in Main THEN Nothing ELSE draft[s]]
  /\ draft' # draft
  /\ UNCHANGED << holder, page, request >>

(* The edit lock is taken, released or expires. *)
MoveLock ==
  /\ holder' \in (Users \union {Nothing}) \ {holder}
  /\ UNCHANGED << draft, page, request >>

Next ==
  \/ \E u \in Users :
       \/ \E s \in Steps : Load(u, s)
       \/ \E v \in Values \union {Nothing} : Type(u, v)
       \/ \E r \in Requests : \/ Fire(u, r)
                              \/ \E s \in Steps : Turn(u, s, r)
                              \/ ClearDraft(u, r)
  \/ \E r \in Requests : Read(r) \/ Check(r) \/ Write(r) \/ Succeed(r)
  \/ Purge
  \/ MoveLock

Spec == Init /\ [][Next]_vars

-----------------------------------------------------------------------------
(* useDeclarationDraft.ts, in flushRef: "Immediately reflect the save in   *)
(* the cache so the next mount hydrates with the correct data before the   *)
(* in-flight mutation resolves": a form that is mounted again shows what   *)
(* its user typed in it last.                                              *)
MountShowsTyped ==
  \A u \in Users :
    page[u].step # Nothing => page[u].left[page[u].step] \subseteq {page[u].shown}
=============================================================================
