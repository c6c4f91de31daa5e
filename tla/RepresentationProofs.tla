------------------------- MODULE RepresentationProofs -------------------------
(***************************************************************************)
(* The balanced-representation declaration for any number of declarants,   *)
(* of values and of mutations under way: its lock excludes, and closing    *)
(* the declaration ends the tenure of the lock.  All of it stands behind   *)
(* the links of CompanyLink, which follow the sign-ins.                    *)
(***************************************************************************)
EXTENDS CompanyLink, TLAPS

Writing == {"saveDraft", "submit"}

(* Whoever asked is a user, and a write carries what it writes.            *)
RequestsCarry ==
  \A r \in Requests :
    /\ request[r].op # Nothing => request[r].user \in Users
    /\ request[r].op \in Writing => request[r].payload \in Drafts

(* A lock that lives on a closed declaration was granted since.            *)
RelockedWhenClosed ==
  row.status \in {"submitted", "not_subject"} /\ lock.live => relocked

IInv == TypeOK /\ RequestsCarry /\ ExclusiveTenure /\ RelockedWhenClosed

LEMMA Initially == Init => IInv
<1> SUFFICES ASSUME Init PROVE IInv
  OBVIOUS
<1>1. Answered \in Request /\ Answered.op = Nothing /\ Nothing \notin Writing
  BY RepresentationAssumption DEF Answered, Request, Writing, Ops
<1>2. RequestsCarry /\ request \in [Requests -> Request]
  BY <1>1 DEF Init, RequestsCarry
<1>3. Free \in Lock /\ ~Free.live
  BY DEF Free, Lock
<1>4. /\ row \in Row
      /\ row.status = "none" /\ row.declarant = Nothing
  BY DEF Init, Row, Statuses
<1>5. QED
  BY <1>2, <1>3, <1>4
     DEF Init, IInv, TypeOK, ExclusiveTenure, RelockedWhenClosed

(* What an answered or an admitted call leaves of the requests.            *)
LEMMA AnswerCarries ==
  ASSUME IInv, NEW r \in Requests, Answer(r)
  PROVE  request' \in [Requests -> Request] /\ RequestsCarry'
<1>1. Answered \in Request /\ Answered.op = Nothing
  BY DEF Answered, Request
<1>2. Nothing \notin Writing
  BY RepresentationAssumption DEF Writing, Ops
<1>3. QED
  BY <1>1, <1>2 DEF IInv, TypeOK, RequestsCarry, Answer

LEMMA AdmitCarries ==
  ASSUME IInv, NEW r \in Requests, NEW u \in Users, NEW op \in Ops, Admit(r, u, op)
  PROVE  IInv'
<1>1. PICK p \in Payloads(op) :
        request' = [request EXCEPT ![r] = [ op |-> op, user |-> u, payload |-> p ]]
  BY DEF Admit
<1>2. [ op |-> op, user |-> u, payload |-> p ] \in Request
  BY DEF Request, Payloads
<1>3. op \in Writing => p \in Drafts
  BY DEF Writing, Payloads
<1>4. request' \in [Requests -> Request] /\ RequestsCarry'
  BY <1>1, <1>2, <1>3 DEF IInv, TypeOK, RequestsCarry
<1>5. UNCHANGED << open, row, lock, relocked, tenure >>
  BY DEF Admit
<1>6. QED
  BY <1>4, <1>5 DEF IInv, TypeOK, ExclusiveTenure, RelockedWhenClosed

(* A mutation that closes the declaration: r writes `closed`.              *)
LEMMA CloseKeeps ==
  ASSUME IInv, NEW r \in Requests, request[r].op # Nothing,
         NEW closed \in Row, Close(r, closed),
         closed.status \in {"submitted", "not_subject"},
         closed.status = "not_subject" => closed.draft = Nothing,
         closed.status = "submitted" => closed.content # Nothing
  PROVE  IInv'
<1>1. request' \in [Requests -> Request] /\ RequestsCarry'
  BY AnswerCarries DEF Close
<1>2. request[r].user \in Users
  BY DEF IInv, RequestsCarry
<1>3. lock' = Free
  BY DEF Close, Held, Unlocked
<1>4. Free \in Lock /\ ~Free.live
  BY DEF Free, Lock
<1>5. TypeOK'
  BY <1>1, <1>2, <1>3, <1>4 DEF IInv, TypeOK, Close
<1>6. ExclusiveTenure' /\ RelockedWhenClosed'
  BY <1>3, <1>4 DEF ExclusiveTenure, RelockedWhenClosed
<1>7. QED
  BY <1>1, <1>5, <1>6 DEF IInv

LEMMA TransactionKeeps ==
  ASSUME IInv, NEW r \in Requests, Transaction(r)
  PROVE  IInv'
<1>1. request' \in [Requests -> Request] /\ RequestsCarry'
  BY AnswerCarries
     DEF Transaction, AcquireLock, Heartbeat, Refuse, SaveDraft, DeclareNotSubject,
         Submit, Close
<1>2. Nothing \notin Ops
  BY RepresentationAssumption
<1>3. CASE AcquireLock(r)
  <2>1. request[r].user \in Users
    BY <1>2, <1>3 DEF IInv, RequestsCarry, AcquireLock, Ops
  <2>2. CASE Grant(request[r].user)
    <3>1. /\ lock' = [ user |-> request[r].user, live |-> TRUE ]
          /\ lock' \in Lock
          /\ lock'.user # Nothing
      BY <2>1, <2>2, RepresentationAssumption DEF Grant, Lock
    <3>2. tenure' \subseteq {request[r].user}
      BY <2>2 DEF Grant, Held, IInv, ExclusiveTenure
    <3>3. QED
      BY <1>1, <1>3, <2>1, <2>2, <3>1, <3>2
         DEF IInv, TypeOK, ExclusiveTenure, RelockedWhenClosed, AcquireLock, Grant
  <2>3. CASE UNCHANGED << lock, relocked, tenure >>
    BY <1>1, <1>3, <2>3
       DEF IInv, TypeOK, ExclusiveTenure, RelockedWhenClosed, AcquireLock
  <2>4. QED
    BY <1>3, <2>2, <2>3 DEF AcquireLock
<1>4. CASE Heartbeat(r) \/ Refuse(r)
  BY <1>1, <1>4 DEF IInv, TypeOK, ExclusiveTenure, RelockedWhenClosed, Heartbeat, Beat, Refuse
<1>5. CASE SaveDraft(r)
  <2>1. request[r].user \in Users /\ request[r].payload \in Drafts
    BY <1>2, <1>5 DEF IInv, RequestsCarry, SaveDraft, Ops, Writing
  <2>2. /\ row \in Row
        /\ StatusOnSave(row.status) \in {"draft", "submitted"}
        /\ StatusOnSave(row.status) = "submitted" <=> row.status = "submitted"
    BY DEF IInv, TypeOK, Row, Statuses, StatusOnSave
  <2>3. Declarant(request[r].user) \in Users \union {Nothing}
    BY <2>1, <2>2 DEF Declarant, Row
  <2>4. /\ row' \in Row
        /\ row'.status = StatusOnSave(row.status)
        /\ row'.content = row.content
    BY <1>5, <2>1, <2>2, <2>3 DEF SaveDraft, Row, Statuses
  <2>5. TypeOK'
    BY <1>1, <1>5, <2>1, <2>2, <2>4 DEF IInv, TypeOK, SaveDraft
  <2>6. ExclusiveTenure' /\ RelockedWhenClosed'
    BY <1>5, <2>2, <2>4 DEF IInv, ExclusiveTenure, RelockedWhenClosed, SaveDraft, Held
  <2>7. QED
    BY <1>1, <2>5, <2>6 DEF IInv
<1>6. CASE DeclareNotSubject(r)
  <2>1. request[r].op # Nothing /\ request[r].user \in Users
    BY <1>2, <1>6 DEF IInv, RequestsCarry, DeclareNotSubject, Ops
  <2> DEFINE closed == [row EXCEPT !.status = "not_subject", !.draft = Nothing,
                                   !.declarant = request[r].user]
  <2>2. /\ closed \in Row
        /\ closed.status = "not_subject" /\ closed.draft = Nothing
    BY <2>1 DEF IInv, TypeOK, Row, Statuses
  <2>3. Close(r, closed)
    BY <1>6 DEF DeclareNotSubject
  <2>4. QED
    BY <2>1, <2>2, <2>3, CloseKeeps
<1>7. CASE Submit(r)
  <2>1. /\ request[r].op # Nothing
        /\ request[r].user \in Users
        /\ request[r].payload \in Drafts
        /\ request[r].payload # Nothing
    BY <1>2, <1>7, RepresentationAssumption
       DEF IInv, RequestsCarry, Submit, Ops, Writing
  <2> DEFINE closed == [row EXCEPT !.status = "submitted", !.draft = Nothing,
                                   !.content = request[r].payload,
                                   !.declarant = Declarant(request[r].user)]
  <2>2. Declarant(request[r].user) \in Users \union {Nothing}
    BY <2>1 DEF Declarant, IInv, TypeOK, Row
  <2>3. /\ closed \in Row
        /\ closed.status = "submitted" /\ closed.content # Nothing
    BY <2>1, <2>2 DEF IInv, TypeOK, Row, Statuses
  <2>4. Close(r, closed)
    BY <1>7 DEF Submit
  <2>5. QED
    BY <2>1, <2>3, <2>4, CloseKeeps
<1>8. QED
  BY <1>3, <1>4, <1>5, <1>6, <1>7 DEF Transaction

LEMMA StepKeeps == IInv /\ [Next]_vars => IInv'
<1> SUFFICES ASSUME IInv, [Next]_vars PROVE IInv'
  OBVIOUS
<1>1. ASSUME NEW r \in Requests, NEW u \in Users, NEW op \in Ops, Admit(r, u, op)
      PROVE  IInv'
  BY <1>1, AdmitCarries
<1>2. ASSUME NEW r \in Requests, Transaction(r)
      PROVE  IInv'
  BY <1>2, TransactionKeeps
(* The lock is given back, or its lease runs out.                          *)
<1>3. ASSUME lock' \in {lock, Free, [lock EXCEPT !.live = FALSE]},
             UNCHANGED << open, row, request, relocked, tenure >>
      PROVE  IInv'
  <2>1. Free \in Lock /\ ~Free.live /\ lock \in Lock
    BY DEF Free, Lock, IInv, TypeOK
  <2>2. lock' \in Lock /\ (lock'.live => lock' = lock)
    BY <1>3, <2>1 DEF Lock
  <2>3. TypeOK' /\ RequestsCarry'
    BY <1>3, <2>2 DEF IInv, TypeOK, RequestsCarry
  <2>4. ExclusiveTenure' /\ RelockedWhenClosed'
    BY <1>3, <2>2 DEF IInv, ExclusiveTenure, RelockedWhenClosed
  <2>5. QED
    BY <2>3, <2>4 DEF IInv
<1>4. ASSUME NEW u \in Users, Release(u)
      PROVE  IInv'
  <2>1. lock' \in {lock, Free}
    BY <1>4 DEF Release, Unlocked
  <2>2. UNCHANGED << open, row, request, relocked, tenure >>
    BY <1>4 DEF Release
  <2>3. QED
    BY <1>3, <2>1, <2>2
<1>5. CASE Expire
  BY <1>3, <1>5 DEF Expire
<1>6. CASE MoveCampaign \/ UNCHANGED vars
  BY <1>6 DEF MoveCampaign, vars, IInv, TypeOK, RequestsCarry, ExclusiveTenure,
              RelockedWhenClosed
<1>7. QED
  BY <1>1, <1>2, <1>4, <1>5, <1>6 DEF Next

LEMMA Invariance == Spec => []IInv
BY Initially, StepKeeps, PTL DEF Spec

(* The row, the lock and the calls are well formed; a declaration closed   *)
(* as not subject keeps no draft and a transmitted one has its content.    *)
THEOREM Typing == Spec => []TypeOK
<1>1. IInv => TypeOK
  BY DEF IInv
<1>2. QED
  BY <1>1, Invariance, PTL

(* assertRepresentationLockHeld: while a user has the lock, nobody else    *)
(* has written since it was granted, whatever calls were under way.        *)
THEOREM Exclusion == Spec => []ExclusiveTenure
<1>1. IInv => ExclusiveTenure
  BY DEF IInv
<1>2. QED
  BY <1>1, Invariance, PTL

(* submit and declareNotSubject give the lock back in the transaction that *)
(* closes the declaration: a save that was typed before writes no more.    *)
THEOREM Closing == Spec => LateSaveNeverReopens
<1>1. ASSUME IInv, [Next]_vars, row' # row
      PROVE  lock.live
  BY <1>1 DEF Next, vars, Admit, Transaction, AcquireLock, Heartbeat, Refuse, SaveDraft,
              DeclareNotSubject, Submit, Close, Held, Release, Expire, MoveCampaign
<1>2. IInv /\ [Next]_vars =>
        [row.status \in {"submitted", "not_subject"} /\ row' # row => relocked]_vars
  BY <1>1 DEF IInv, RelockedWhenClosed
<1>3. QED
  BY <1>2, Invariance, PTL DEF Spec, LateSaveNeverReopens

(* acquireLock refuses a transmitted declaration before its transaction;   *)
(* once no such request is under way and nobody holds the lock, the        *)
(* declaration is never written again.                                     *)
THEOREM Settling == Spec => TransmissionSettles
<1>1. ASSUME IInv, [Next]_vars, Settled
      PROVE  Settled' /\ row' = row
  <2>1. ASSUME NEW r \in Requests, NEW u \in Users, NEW op \in Ops, Admit(r, u, op)
        PROVE  Settled' /\ row' = row
    BY <1>1, <2>1 DEF Admit, Admitted, Settled, Submitted, IInv, TypeOK, Request
  <2>2. ASSUME NEW r \in Requests, Transaction(r)
        PROVE  Settled' /\ row' = row
    <3>1. Heartbeat(r) \/ Refuse(r)
      BY <1>1, <2>2 DEF Settled, Transaction, AcquireLock, SaveDraft,
                        DeclareNotSubject, Submit, Close, Held
    <3>2. Answered.op # "acquireLock"
      BY RepresentationAssumption DEF Answered, Ops
    <3>3. QED
      BY <1>1, <3>1, <3>2 DEF Heartbeat, Beat, Refuse, Answer, Settled, Submitted,
                              IInv, TypeOK
  <2>3. ASSUME NEW u \in Users, Release(u)
        PROVE  Settled' /\ row' = row
    BY <1>1, <2>3 DEF Release, Unlocked, Free, Settled, Submitted
  <2>4. CASE Expire \/ MoveCampaign \/ UNCHANGED vars
    BY <1>1, <2>4 DEF Expire, MoveCampaign, vars, Settled, Submitted
  <2>5. QED
    BY <1>1, <2>1, <2>2, <2>3, <2>4 DEF Next
<1>2. IInv /\ [Next]_vars => [Settled => Settled' /\ row' = row]_vars
  BY <1>1
<1>3. QED
  BY <1>2, Invariance, PTL DEF Spec, TransmissionSettles

-----------------------------------------------------------------------------
(* The links                                                               *)

(* A sign-in under way is of a user, of one company at most, alone for     *)
(* that user, and has deleted all his links but its own.                   *)
SignInsCarry ==
  \A i \in SignIns :
    signIn[i] # Away =>
      /\ signIn[i].user \in Users
      /\ \E c \in Companies : signIn[i].own \subseteq {c}
      /\ signIn[i].revoked = link[signIn[i].user] \ signIn[i].own

SignInsAlone ==
  \A i, j \in SignIns :
    signIn[i] # Away /\ signIn[j] # Away /\ signIn[i].user = signIn[j].user => i = j

LInv == LinkTypeOK /\ SignInsCarry /\ SignInsAlone

LEMMA LinksInitially == LinkInit => LInv
<1>1. Away \in SignIn
  BY DEF Away, SignIn
<1>2. LinkInit => LinkTypeOK
  BY <1>1 DEF LinkInit, LinkTypeOK
<1>3. LinkInit => SignInsCarry /\ SignInsAlone
  BY DEF LinkInit, SignInsCarry, SignInsAlone
<1>4. QED
  BY <1>2, <1>3 DEF LInv

LEMMA RelinkKeeps ==
  ASSUME LInv, NEW i \in SignIns, NEW u \in Movers,
         NEW siren \in Companies \union {Nothing}, Relink(i, u, siren)
  PROVE  LInv'
<1> DEFINE next == [ user |-> u, own |-> Own(siren), revoked |-> link[u] \ Own(siren) ]
<1>1. u \in Users /\ Own(siren) \subseteq Companies
  BY CompanyLinkAssumption DEF Own
<1>2. \E c \in Companies : Own(siren) \subseteq {c}
  BY CompanyLinkAssumption DEF Own
<1>3. next \in SignIn /\ link[u] \subseteq Companies
  BY <1>1 DEF SignIn, LInv, LinkTypeOK
<1>4. signIn' = [signIn EXCEPT ![i] = next] /\ link' = link /\ late' = late
  BY DEF Relink
<1>5. LinkTypeOK'
  BY <1>3, <1>4 DEF LInv, LinkTypeOK
<1>6. SignInsCarry'
  BY <1>1, <1>2, <1>4 DEF LInv, LinkTypeOK, SignInsCarry
<1>7. \A j \in SignIns : signIn[j].user # u
  BY DEF Relink, Serialised
<1>8. SignInsAlone'
  BY <1>4, <1>7 DEF LInv, LinkTypeOK, SignInsAlone
<1>9. QED
  BY <1>5, <1>6, <1>8 DEF LInv

LEMMA CommitKeeps ==
  ASSUME LInv, NEW i \in SignIns, Commit(i)
  PROVE  LInv'
<1> DEFINE u == signIn[i].user
<1>1. signIn[i] # Away /\ u \in Users
  BY DEF Commit, LInv, SignInsCarry
<1>2. /\ signIn' = [signIn EXCEPT ![i] = Away]
      /\ link' = [link EXCEPT ![u] = (@ \union signIn[i].own) \ signIn[i].revoked]
      /\ late' = late
  BY DEF Commit
<1>3. Away \in SignIn /\ signIn[i] \in SignIn
  BY DEF Away, SignIn, LInv, LinkTypeOK
<1>4. (link[u] \union signIn[i].own) \ signIn[i].revoked \in SUBSET Companies
  BY <1>1, <1>3 DEF LInv, LinkTypeOK, SignIn
<1>5. LinkTypeOK'
  BY <1>2, <1>3, <1>4 DEF LInv, LinkTypeOK
<1>6. ASSUME NEW j \in SignIns, signIn'[j] # Away
      PROVE  /\ signIn'[j] = signIn[j] /\ j # i
             /\ signIn[j].user # u
             /\ link'[signIn[j].user] = link[signIn[j].user]
  BY <1>1, <1>2, <1>6 DEF LInv, LinkTypeOK, SignInsAlone, SignInsCarry
<1>7. SignInsCarry' /\ SignInsAlone'
  BY <1>6 DEF LInv, SignInsCarry, SignInsAlone
<1>8. QED
  BY <1>5, <1>7 DEF LInv

LEMMA LinksKept == LInv /\ [LinkNext]_allVars => LInv'
<1> SUFFICES ASSUME LInv, [LinkNext]_allVars PROVE LInv'
  OBVIOUS
<1>1. ASSUME NEW i \in SignIns, NEW u \in Movers,
             NEW siren \in Companies \union {Nothing}, Relink(i, u, siren)
      PROVE  LInv'
  BY <1>1, RelinkKeeps
<1>2. ASSUME NEW i \in SignIns, Commit(i)
      PROVE  LInv'
  BY <1>2, CommitKeeps
<1>3. ASSUME NEW i \in SignIns, Fail(i)
      PROVE  LInv'
  <2>1. Away \in SignIn
    BY DEF Away, SignIn
  <2>2. QED
    BY <1>3, <2>1 DEF Fail, LInv, LinkTypeOK, SignInsCarry, SignInsAlone
<1>4. ASSUME UNCHANGED << link, signIn >>, late' \in BOOLEAN
      PROVE  LInv'
  BY <1>4 DEF LInv, LinkTypeOK, SignInsCarry, SignInsAlone
<1>5. ASSUME NEW r \in Requests, Serve(r)
      PROVE  LInv'
  <2>1. late' \in BOOLEAN
    BY <1>5 DEF Serve, LInv, LinkTypeOK
  <2>2. QED
    BY <1>4, <1>5, <2>1 DEF Serve
<1>6. ASSUME UNCHANGED linkVars
      PROVE  LInv'
  BY <1>4, <1>6 DEF linkVars, LInv, LinkTypeOK
<1>7. QED
  BY <1>1, <1>2, <1>3, <1>5, <1>6 DEF LinkNext, allVars, SignOut, GiveBack, Ask

LEMMA LinksInvariant == LinkSpec => []LInv
BY LinksInitially, LinksKept, PTL DEF LinkSpec

(* What a step does to the declaration and its lock is a step of           *)
(* Representation.                                                         *)
LEMMA StepsBelow == LInv /\ [LinkNext]_allVars => [Next]_vars
<1> SUFFICES ASSUME LInv, [LinkNext]_allVars PROVE [Next]_vars
  OBVIOUS
<1>1. ASSUME NEW i \in SignIns, Commit(i)
      PROVE  [Next]_vars
  <2>1. signIn[i].user \in Users
    BY <1>1 DEF Commit, LInv, SignInsCarry
  <2>2. UNCHANGED vars \/ Release(signIn[i].user)
    BY <1>1 DEF Commit, LockAfter, Release, vars
  <2>3. QED
    BY <2>1, <2>2 DEF Next
<1>2. ASSUME NEW i \in SignIns, NEW u \in Movers,
             NEW siren \in Companies \union {Nothing}, Relink(i, u, siren)
      PROVE  UNCHANGED vars
  BY <1>2 DEF Relink
<1>3. ASSUME NEW i \in SignIns, Fail(i)
      PROVE  UNCHANGED vars
  BY <1>3 DEF Fail
<1>4. QED
  BY <1>1, <1>2, <1>3
     DEF LinkNext, allVars, SignOut, GiveBack, Ask, Serve, Next

(* companyProcedure in front of every call, and the sign-ins: what the     *)
(* theorems above say of the declaration and its lock stands behind them.  *)
THEOREM Behind == LinkSpec => Spec
<1>1. LinkInit => Init
  BY DEF LinkInit
<1>2. QED
  BY <1>1, LinksInvariant, StepsBelow, PTL DEF LinkSpec, Spec

LEMMA BothInvariant == LinkSpec => [](IInv /\ LInv)
BY Behind, Invariance, LinksInvariant, PTL

(* inUserLinkTransaction: two sign-ins of one user under different SIRETs  *)
(* never leave him with both companies.                                    *)
THEOREM OneLink == LinkSpec => OneCompany
<1>1. ASSUME LInv, [LinkNext]_allVars, NEW u \in Users, link'[u] # link[u]
      PROVE  \E c \in Companies : link'[u] \subseteq {c}
  <2>1. PICK i \in SignIns : Commit(i)
    BY <1>1 DEF LinkNext, allVars, linkVars, Relink, Fail, SignOut, GiveBack, Ask, Serve
  <2>2. /\ signIn[i].user \in Users
        /\ \E c \in Companies : signIn[i].own \subseteq {c}
        /\ signIn[i].revoked = link[signIn[i].user] \ signIn[i].own
    BY <1>1, <2>1 DEF Commit, LInv, SignInsCarry
  <2>3. link' = [link EXCEPT ![signIn[i].user] = (@ \union signIn[i].own) \ signIn[i].revoked]
    BY <2>1 DEF Commit
  <2>4. u = signIn[i].user /\ link'[u] \subseteq signIn[i].own
    BY <1>1, <2>2, <2>3 DEF LInv, LinkTypeOK
  <2>5. QED
    BY <2>2, <2>4
<1>2. LInv /\ [LinkNext]_allVars =>
        [\A u \in Users : link'[u] # link[u] =>
           \E c \in Companies : link'[u] \subseteq {c}]_allVars
  BY <1>1
<1>3. QED
  BY <1>2, LinksInvariant, PTL DEF LinkSpec, OneCompany

(* revokeLinks: a lock is held by a user whom a link entitles to it, or    *)
(* was granted to a call that had passed its check before.                 *)
THEOREM Entitled == LinkSpec => []HolderIsLinked
<1>1. LinkInit => HolderIsLinked
  BY DEF LinkInit, Init, Free, HolderIsLinked
<1>2. IInv /\ LInv /\ HolderIsLinked /\ [LinkNext]_allVars => HolderIsLinked'
  <2> SUFFICES ASSUME IInv, LInv, HolderIsLinked, [LinkNext]_allVars
               PROVE  HolderIsLinked'
    OBVIOUS
  <2>1. ASSUME UNCHANGED << lock, link, late >>
        PROVE  HolderIsLinked'
    BY <2>1 DEF HolderIsLinked
  (* A lock that is given back or runs out is nobody's.                    *)
  <2>2. ASSUME lock' \in {lock, Free, [lock EXCEPT !.live = FALSE]},
               UNCHANGED << link, late >>
        PROVE  HolderIsLinked'
    BY <2>2 DEF HolderIsLinked, Free, IInv, TypeOK, Lock
  <2>3. ASSUME NEW i \in SignIns, Commit(i)
        PROVE  HolderIsLinked'
    <3> DEFINE u == signIn[i].user
    <3>1. /\ u \in Users
          /\ signIn[i].revoked = link[u] \ signIn[i].own
          /\ link' = [link EXCEPT ![u] = (@ \union signIn[i].own) \ signIn[i].revoked]
          /\ lock' = LockAfter(u, signIn[i].revoked)
          /\ late' = late
      BY <2>3 DEF Commit, LInv, SignInsCarry
    <3>2. lock.live => lock.user \in Users
      BY DEF IInv, TypeOK, Lock
    <3>3. CASE lock' = Free
      BY <3>3 DEF HolderIsLinked, Free
    <3>4. CASE lock' = lock /\ (lock.user = u => Here \notin signIn[i].revoked)
      <4>1. CASE lock.live /\ Here \in link[lock.user]
        <5>1. Here \in link'[lock.user]
          BY <3>1, <3>2, <3>4, <4>1 DEF LInv, LinkTypeOK
        <5>2. QED
          BY <3>4, <5>1 DEF HolderIsLinked
      <4>2. CASE ~lock.live \/ late
        BY <3>1, <3>4, <4>2 DEF HolderIsLinked
      <4>3. QED
        BY <4>1, <4>2 DEF HolderIsLinked
    <3>5. QED
      BY <3>1, <3>3, <3>4 DEF LockAfter, Unlocked
  <2>4. ASSUME NEW r \in Requests, Serve(r)
        PROVE  HolderIsLinked'
    <3>1. link' = link /\ Transaction(r)
      BY <2>4 DEF Serve
    <3>2. CASE AcquireLock(r) /\ Grantable(request[r].user)
      <4>1. lock' = [ user |-> request[r].user, live |-> TRUE ]
        BY <3>2 DEF AcquireLock, Grant
      <4>2. late' = (Here \notin link[request[r].user])
        BY <2>4, <3>2 DEF Serve, Granting, AcquireLock
      <4>3. QED
        BY <3>1, <4>1, <4>2 DEF HolderIsLinked
    <3>3. CASE ~(AcquireLock(r) /\ Grantable(request[r].user))
      <4>1. ~Granting(r)
        BY <3>1, <3>3, RepresentationAssumption
           DEF Transaction, AcquireLock, Heartbeat, Refuse, SaveDraft, DeclareNotSubject,
               Submit, Granting
      <4>2. late' = late
        BY <2>4, <4>1 DEF Serve
      <4>3. lock' \in {lock, Free}
        BY <3>1, <3>3 DEF Transaction, AcquireLock, Heartbeat, Beat, Refuse, SaveDraft,
                          DeclareNotSubject, Submit, Close, Unlocked
      <4>4. QED
        BY <2>2, <3>1, <4>2, <4>3
    <3>4. QED
      BY <3>2, <3>3
  <2>5. ASSUME NEW u \in Users, SignOut(u) \/ GiveBack(u)
        PROVE  HolderIsLinked'
    BY <2>2, <2>5 DEF SignOut, GiveBack, Release, Unlocked, linkVars
  <2>6. CASE (Expire \/ MoveCampaign) /\ UNCHANGED linkVars
    BY <2>2, <2>6 DEF Expire, MoveCampaign, linkVars
  <2>7. QED
    BY <2>1, <2>3, <2>4, <2>5, <2>6
       DEF LinkNext, allVars, vars, linkVars, Relink, Fail, Ask, Admit
<1>3. QED
  BY <1>1, <1>2, BothInvariant, PTL DEF LinkSpec

(* canAccessCompany: a user without the link, the lock or an acquisition   *)
(* under way never has the lock again and writes nothing, until a sign-in  *)
(* links him again.                                                        *)
THEOREM Revoked == LinkSpec => RevocationSettles
<1>1. ASSUME IInv, LInv, [LinkNext]_allVars, NEW u \in Users, Gone(u), Here \notin link'[u]
      PROVE  Gone(u)' /\ (row' # row => lock.user # u)
  <2>1. Answered.op # "acquireLock" /\ request \in [Requests -> Request]
    <3>1. Answered.op # "acquireLock"
      BY RepresentationAssumption DEF Answered, Ops
    <3>2. QED
      BY <1>1, <3>1 DEF IInv, TypeOK
  <2>2. ASSUME lock'.live /\ lock'.user = u => Held(u),
               \A r \in Requests : request'[r] \in {request[r], Answered},
               row' # row => lock.user # u
        PROVE  Gone(u)' /\ (row' # row => lock.user # u)
    BY <1>1, <2>1, <2>2 DEF Gone, Held
  <2>3. ASSUME UNCHANGED vars
        PROVE  Gone(u)' /\ (row' # row => lock.user # u)
    BY <2>2, <2>3 DEF vars, Held
  <2>4. ASSUME lock'.live => lock' = lock, UNCHANGED << row, request >>
        PROVE  Gone(u)' /\ (row' # row => lock.user # u)
    BY <2>2, <2>4 DEF Held
  <2>5. ASSUME NEW i \in SignIns, Commit(i)
        PROVE  Gone(u)' /\ (row' # row => lock.user # u)
    <3>1. lock' \in {lock, Free} /\ ~Free.live
      BY <2>5 DEF Commit, LockAfter, Unlocked, Free
    <3>2. QED
      BY <2>4, <2>5, <3>1 DEF Commit
  <2>6. ASSUME NEW v \in Users, SignOut(v) \/ GiveBack(v)
        PROVE  Gone(u)' /\ (row' # row => lock.user # u)
    <3>1. lock' \in {lock, Free} /\ ~Free.live
      BY <2>6 DEF SignOut, GiveBack, Release, Unlocked, Free
    <3>2. QED
      BY <2>4, <2>6, <3>1 DEF SignOut, GiveBack, Release
  <2>7. CASE Expire \/ MoveCampaign
    <3>1. lock \in Lock
      BY <1>1 DEF IInv, TypeOK
    <3>2. lock'.live => lock' = lock
      BY <2>7, <3>1 DEF Expire, MoveCampaign, Lock
    <3>3. QED
      BY <2>4, <2>7, <3>2 DEF Expire, MoveCampaign
  <2>8. ASSUME NEW r \in Requests, NEW v \in Users, NEW op \in Ops, Ask(r, v, op)
        PROVE  Gone(u)' /\ (row' # row => lock.user # u)
    <3>1. v # u
      BY <1>1, <2>8 DEF Ask, Linked, Gone
    <3>2. PICK p \in Payloads(op) :
            request' = [request EXCEPT ![r] = [ op |-> op, user |-> v, payload |-> p ]]
      BY <2>8 DEF Ask, Admit
    <3>3. UNCHANGED << lock, row >>
      BY <2>8 DEF Ask, Admit
    <3>4. QED
      BY <1>1, <2>1, <3>1, <3>2, <3>3 DEF Gone, Held
  <2>9. ASSUME NEW r \in Requests, Serve(r)
        PROVE  Gone(u)' /\ (row' # row => lock.user # u)
    <3>1. Transaction(r)
      BY <2>9 DEF Serve
    <3>2. \A s \in Requests : request'[s] \in {request[s], Answered}
      BY <2>1, <3>1 DEF Transaction, AcquireLock, Heartbeat, Refuse, SaveDraft,
                       DeclareNotSubject, Submit, Close, Answer
    <3>3. row' # row => Held(request[r].user)
      BY <3>1 DEF Transaction, AcquireLock, Heartbeat, Refuse, SaveDraft,
                  DeclareNotSubject, Submit, Close
    <3>4. row' # row => lock.user # u
      BY <1>1, <3>3 DEF Gone, Held
    <3>5. CASE AcquireLock(r) /\ Grant(request[r].user)
      <4>1. request[r].user # u
        BY <1>1, <3>5 DEF Gone, AcquireLock
      <4>2. lock'.user # u
        BY <3>5, <4>1 DEF Grant
      <4>3. QED
        BY <2>2, <3>2, <3>4, <4>2
    <3>6. CASE ~(AcquireLock(r) /\ Grant(request[r].user))
      <4>1. lock' \in {lock, Free} /\ ~Free.live
        BY <3>1, <3>6 DEF Transaction, AcquireLock, Heartbeat, Beat, Refuse, SaveDraft,
                          DeclareNotSubject, Submit, Close, Unlocked, Free
      <4>2. QED
        BY <2>2, <3>2, <3>4, <4>1 DEF Held
    <3>7. QED
      BY <3>5, <3>6
  <2>10. QED
    BY <1>1, <2>3, <2>5, <2>6, <2>7, <2>8, <2>9 DEF LinkNext, allVars, Relink, Fail
<1>2. IInv /\ LInv /\ [LinkNext]_allVars =>
        [\A u \in Users :
           Gone(u) /\ Here \notin link'[u] =>
             Gone(u)' /\ (row' # row => lock.user # u)]_allVars
  BY <1>1
<1>3. QED
  BY <1>2, BothInvariant, PTL DEF LinkSpec, RevocationSettles
=============================================================================
