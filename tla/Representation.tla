--------------------------- MODULE Representation ---------------------------
(***************************************************************************)
(* The balanced-representation declaration of one company for one year:    *)
(* router representationDeclaration and its lock service.                  *)
(*                                                                         *)
(* A mutation checks the campaign, and acquireLock the status of the       *)
(* declaration, before its transaction and in no transaction with it:      *)
(* other calls may commit in between.  A transaction is one step: it takes *)
(* the row of the lock FOR UPDATE.                                         *)
(***************************************************************************)
CONSTANTS
  Users,      (* the declarants of the company                            *)
  Drafts,     (* what a declarant may have typed                          *)
  Requests,   (* the mutations under way                                  *)
  Nothing

Ops == {"acquireLock", "heartbeat", "saveDraft", "declareNotSubject", "submit"}

ASSUME RepresentationAssumption == Nothing \notin Users \union Drafts \union Ops

VARIABLES
  open,      (* isRepresentationCampaignOpen                               *)
  row,       (* table representation_declaration                           *)
  lock,      (* table representation_declaration_lock                      *)
  request,   (* the mutations that passed their checks                     *)
  relocked,  (* history: was the lock granted since the row was closed?    *)
  tenure     (* history: who wrote since the lock was granted              *)

vars == << open, row, lock, request, relocked, tenure >>

Statuses == {"none", "draft", "not_subject", "submitted"}

Row     == [ status : Statuses, draft : Drafts \union {Nothing},
             content : Drafts \union {Nothing}, declarant : Users \union {Nothing} ]
Lock    == [ user : Users \union {Nothing}, live : BOOLEAN ]
Request == [ op : Ops \union {Nothing}, user : Users \union {Nothing},
             payload : Drafts \union {Nothing} ]

Free     == [ user |-> Nothing, live |-> FALSE ]
Answered == [ op |-> Nothing, user |-> Nothing, payload |-> Nothing ]

(* A declaration closed as not subject has no draft, and a transmitted one *)
(* has what was transmitted.                                               *)
TypeOK ==
  /\ open     \in BOOLEAN
  /\ row      \in Row
  /\ lock     \in Lock
  /\ request  \in [Requests -> Request]
  /\ relocked \in BOOLEAN
  /\ tenure   \subseteq Users
  /\ row.status = "not_subject" => row.draft = Nothing
  /\ row.status = "submitted" => row.content # Nothing
  /\ row.status = "none" => row.declarant = Nothing
  /\ lock.live => lock.user # Nothing

Init ==
  /\ open     \in BOOLEAN
  /\ row      = [ status |-> "none", draft |-> Nothing, content |-> Nothing,
                  declarant |-> Nothing ]
  /\ lock     = Free
  /\ request  = [r \in Requests |-> Answered]
  /\ relocked = FALSE
  /\ tenure   = {}

-----------------------------------------------------------------------------
(* The lock service                                                        *)

(* assertRepresentationLockHeld *)
HeldUnchecked(u) == lock.live
Held(u) == lock.live /\ lock.user = u

(* acquireOrRefreshRepresentationLock: the upsert takes a free lock, the   *)
(* user's own, or one that has expired.                                    *)
Grantable(u) == ~lock.live \/ lock.user = u

Grant(u) ==
  /\ lock'     = [ user |-> u, live |-> TRUE ]
  /\ relocked' = TRUE
  /\ tenure'   = IF Held(u) THEN tenure ELSE {}

(* releaseRepresentationLock *)
Unlocked(u) == IF lock.user = u THEN Free ELSE lock

Release(u) ==
  /\ lock' = Unlocked(u)
  /\ UNCHANGED << open, row, request, relocked, tenure >>

(* The lease runs out: no heartbeat came in time. *)
Expire ==
  /\ lock.live
  /\ lock' = [lock EXCEPT !.live = FALSE]
  /\ UNCHANGED << open, row, request, relocked, tenure >>

-----------------------------------------------------------------------------
(* The checks that come before the transaction                             *)

Submitted == row.status = "submitted"

AdmittedAnyTime(op) == open
Admitted(op) == open /\ (op = "acquireLock" => ~Submitted)

Payloads(op) == IF op \in {"saveDraft", "submit"} THEN Drafts ELSE {Nothing}

Admit(r, u, op) ==
  /\ request[r] = Answered
  /\ Admitted(op)
  /\ \E p \in Payloads(op) :
       request' = [request EXCEPT ![r] = [ op |-> op, user |-> u, payload |-> p ]]
  /\ UNCHANGED << open, row, lock, relocked, tenure >>

Answer(r) == request' = [request EXCEPT ![r] = Answered]

-----------------------------------------------------------------------------
(* The transactions                                                        *)

AcquireLock(r) ==
  LET u == request[r].user
  IN  /\ request[r].op = "acquireLock"
      /\ IF Grantable(u) THEN Grant(u) ELSE UNCHANGED << lock, relocked, tenure >>
      /\ Answer(r)
      /\ UNCHANGED << open, row >>

(* refreshRepresentationLock: an expired lock is not revived. *)
Beat(u) == lock

Heartbeat(r) ==
  /\ request[r].op = "heartbeat"
  /\ lock' = Beat(request[r].user)
  /\ Answer(r)
  /\ UNCHANGED << open, row, relocked, tenure >>

Declarant(u) == IF row.status = "none" THEN u ELSE row.declarant

(* A write by a user who does not hold the lock is refused (CONFLICT). *)
Refuse(r) ==
  /\ request[r].op \in {"saveDraft", "declareNotSubject", "submit"}
  /\ ~Held(request[r].user) \/ (request[r].op = "declareNotSubject" /\ Submitted)
  /\ Answer(r)
  /\ UNCHANGED << open, row, lock, relocked, tenure >>

StatusKept(status) == IF status = "none" THEN "draft" ELSE status
StatusOnSave(status) == IF status \in {"none", "not_subject"} THEN "draft" ELSE status

SaveDraft(r) ==
  LET u == request[r].user
  IN  /\ request[r].op = "saveDraft"
      /\ Held(u)
      /\ row' = [row EXCEPT !.status = StatusOnSave(@), !.draft = request[r].payload,
                            !.declarant = Declarant(u)]
      /\ tenure' = tenure \union {u}
      /\ Answer(r)
      /\ UNCHANGED << open, lock, relocked >>

(* The transaction of a mutation that closes the declaration also gives    *)
(* the lock back.                                                          *)
CloseKeepingLock(r, closed) ==
  LET u == request[r].user
  IN  /\ Held(u)
      /\ row' = closed
      /\ tenure' = tenure \union {u}
      /\ relocked' = FALSE
      /\ Answer(r)
      /\ UNCHANGED << open, lock >>

Close(r, closed) ==
  LET u == request[r].user
  IN  /\ Held(u)
      /\ row' = closed
      /\ lock' = Unlocked(u)
      /\ tenure' = tenure \union {u}
      /\ relocked' = FALSE
      /\ Answer(r)
      /\ UNCHANGED open

DeclareNotSubject(r) ==
  /\ request[r].op = "declareNotSubject"
  /\ ~Submitted
  /\ Close(r, [row EXCEPT !.status = "not_subject", !.draft = Nothing,
                          !.declarant = request[r].user])

(* The declarant of the row is never overwritten. *)
Submit(r) ==
  /\ request[r].op = "submit"
  /\ Close(r, [row EXCEPT !.status = "submitted", !.draft = Nothing,
                          !.content = request[r].payload,
                          !.declarant = Declarant(request[r].user)])

-----------------------------------------------------------------------------
(* The campaign opens and closes with its dates, which administrators move. *)
MoveCampaign ==
  /\ open' = ~open
  /\ UNCHANGED << row, lock, request, relocked, tenure >>

Transaction(r) ==
  \/ AcquireLock(r) \/ Heartbeat(r) \/ Refuse(r)
  \/ SaveDraft(r) \/ DeclareNotSubject(r) \/ Submit(r)

Next ==
  \/ \E r \in Requests : \/ \E u \in Users, op \in Ops : Admit(r, u, op)
                         \/ Transaction(r)
  \/ \E u \in Users : Release(u)
  \/ Expire
  \/ MoveCampaign

Spec == Init /\ [][Next]_vars

-----------------------------------------------------------------------------
(* Properties                                                              *)

(* The lock excludes: as long as a user has it, nobody else has written    *)
(* since it was granted to him, whatever calls were already under way.     *)
ExclusiveTenure == lock.live => tenure \subseteq {lock.user}

(* Transmitting a declaration, or closing it as not subject, ends the      *)
(* tenure of the lock: an automatic save that arrives late, typed before,  *)
(* cannot write on the closed declaration.  Only the owner of a lock       *)
(* granted since then can.                                                 *)
LateSaveNeverReopens ==
  [][row.status \in {"submitted", "not_subject"} /\ row' # row => relocked]_vars

(* acquireLock refuses a transmitted declaration, but its check is outside *)
(* the transaction that grants the lock.  Once no such request is under    *)
(* way and nobody holds the lock, the transmission is final for good:      *)
(* nobody will ever hold the lock, or write, again.                        *)
Settled ==
  /\ Submitted
  /\ ~lock.live
  /\ \A r \in Requests : request[r].op # "acquireLock"

TransmissionSettles == [][Settled => Settled' /\ row' = row]_vars
=============================================================================
