----------------------------- MODULE CompanyLink -----------------------------
(***************************************************************************)
(* Who may act for the company of Representation.  Every sign-in makes the *)
(* links of a user (table user_companies) follow the SIRET that ProConnect *)
(* gives, in one transaction per user at a time (syncUserCompanyLink), and *)
(* gives back the locks on the companies it takes away.  Every mutation    *)
(* asks the database for the link first (companyProcedure), in no          *)
(* transaction with what follows: a sign-in may commit in between.         *)
(*                                                                         *)
(* The SIRET that a session claims is left out: it only narrows what the   *)
(* links allow.                                                            *)
(***************************************************************************)
EXTENDS Representation

CONSTANTS
  Companies,
  Here,      (* the company whose declaration this is                       *)
  Movers,    (* the users who sign in, in the instance                      *)
  SignIns    (* the sign-ins under way                                      *)

ASSUME CompanyLinkAssumption ==
  Here \in Companies /\ Nothing \notin Companies /\ Movers \subseteq Users

VARIABLES
  link,    (* table user_companies: the companies of each user              *)
  signIn,  (* the sign-ins, by what they have done so far                   *)
  late     (* history: was the lock granted to a user without the link?     *)

linkVars == << link, signIn, late >>
allVars  == << vars, linkVars >>

(* A sign-in under way has inserted the link of its SIRET and deleted the  *)
(* others, in a transaction that nobody else sees yet.                     *)
SignIn == [ user : Users \union {Nothing}, own : SUBSET Companies,
            revoked : SUBSET Companies ]
Away   == [ user |-> Nothing, own |-> {}, revoked |-> {} ]

LinkTypeOK ==
  /\ link   \in [Users -> SUBSET Companies]
  /\ signIn \in [SignIns -> SignIn]
  /\ late   \in BOOLEAN

(* A user may have links from before they followed the sign-ins.           *)
LinkInit ==
  /\ Init
  /\ link   \in [Users -> SUBSET Companies]
  /\ signIn = [i \in SignIns |-> Away]
  /\ late   = FALSE

-----------------------------------------------------------------------------
(* syncUserCompanyLink                                                     *)

(* parseSiren: a missing or malformed SIRET names no company. *)
Own(siren) == {siren} \ {Nothing}

(* inUserLinkTransaction: the advisory lock of the user.                   *)
Overlapping(u) == u \in Users
Serialised(u) == \A i \in SignIns : signIn[i].user # u

(* What comes before, the profile and the registry, touches no link.       *)
Relink(i, u, siren) ==
  /\ signIn[i] = Away
  /\ Serialised(u)
  /\ signIn' = [signIn EXCEPT ![i] = [ user |-> u, own |-> Own(siren),
                                       revoked |-> link[u] \ Own(siren) ]]
  /\ UNCHANGED << vars, link, late >>

(* releaseRepresentationLocksForUserOnSirens.  Its statement comes just    *)
(* before the commit, and a lock granted between the two is as late as one *)
(* granted after both: the two are one step.                               *)
LockKept(u, revoked) == lock
LockAfter(u, revoked) == IF Here \in revoked THEN Unlocked(u) ELSE lock

Commit(i) ==
  LET u       == signIn[i].user
      revoked == signIn[i].revoked
  IN  /\ signIn[i] # Away
      /\ link'   = [link EXCEPT ![u] = (@ \union signIn[i].own) \ revoked]
      /\ lock'   = LockAfter(u, revoked)
      /\ signIn' = [signIn EXCEPT ![i] = Away]
      /\ UNCHANGED << open, row, request, relocked, tenure, late >>

(* The database fails: the sign-in does too, and nothing is changed.       *)
Fail(i) ==
  /\ signIn[i] # Away
  /\ signIn' = [signIn EXCEPT ![i] = Away]
  /\ UNCHANGED << vars, link, late >>

(* The logout route gives back every lock of the user, linked or not.      *)
SignOut(u) ==
  /\ Release(u)
  /\ UNCHANGED linkVars

-----------------------------------------------------------------------------
(* The calls of Representation, behind the link                            *)

(* canAccessCompany: read from the database, never from the session.       *)
LinkedBySession(u) == u \in Users
Linked(u) == Here \in link[u]

Ask(r, u, op) ==
  /\ Linked(u)
  /\ Admit(r, u, op)
  /\ UNCHANGED linkVars

(* releaseLock, and the beacon of a page that is left. *)
GiveBack(u) ==
  /\ Linked(u)
  /\ Release(u)
  /\ UNCHANGED linkVars

Granting(r) == request[r].op = "acquireLock" /\ Grantable(request[r].user)

Serve(r) ==
  /\ Transaction(r)
  /\ late' = IF Granting(r) THEN Here \notin link[request[r].user] ELSE late
  /\ UNCHANGED << link, signIn >>

LinkNext ==
  \/ \E i \in SignIns :
       \/ \E u \in Movers, siren \in Companies \union {Nothing} : Relink(i, u, siren)
       \/ Commit(i) \/ Fail(i)
  \/ \E u \in Users : SignOut(u) \/ GiveBack(u)
  \/ \E r \in Requests : \/ \E u \in Users, op \in Ops : Ask(r, u, op)
                         \/ Serve(r)
  \/ (Expire \/ MoveCampaign) /\ UNCHANGED linkVars

LinkSpec == LinkInit /\ [][LinkNext]_allVars

-----------------------------------------------------------------------------
(* Properties                                                              *)

(* Two sign-ins of one user under different SIRETs would each miss the     *)
(* link the other inserts: whenever the links of a user change, he is left *)
(* with one company at most.                                               *)
OneCompany ==
  [][\A u \in Users : link'[u] # link[u] => \E c \in Companies : link'[u] \subseteq {c}]_allVars

(* The lock belongs to a user who is linked to the company: a sign-in that *)
(* takes the link away gives the lock back.  The only other lock is one    *)
(* granted late, to a call that had passed its check before.               *)
HolderIsLinked == lock.live => Here \in link[lock.user] \/ late

(* canAccessCompany: a revoked link "stops granting access on the next     *)
(* request".  Once a user without the link has neither the lock nor an     *)
(* acquisition under way, he never has the lock again, and writes nothing, *)
(* until a sign-in links him again, whatever other calls of his were       *)
(* admitted before.                                                        *)
Gone(u) ==
  /\ Here \notin link[u]
  /\ ~Held(u)
  /\ \A r \in Requests : ~(request[r].op = "acquireLock" /\ request[r].user = u)

RevocationSettles ==
  [][\A u \in Users :
       Gone(u) /\ Here \notin link'[u] =>
         Gone(u)' /\ (row' # row => lock.user # u)]_allVars
=============================================================================
