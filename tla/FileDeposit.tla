---------------------------- MODULE FileDeposit ----------------------------
(***************************************************************************)
(* The documents of one declaration: the upload pipeline (POST /api/upload *)
(* and runUploadPipeline), the router cseOpinion, and the retention purge. *)
(*                                                                         *)
(* A request goes from one await to the next; between two of them other    *)
(* requests run, the object store may fail and the process may die.  A     *)
(* database transaction is one step: those of the CSE opinion all take the *)
(* advisory lock of the declaration first.                                 *)
(***************************************************************************)
EXTENDS Naturals, FiniteSets

CONSTANTS
  Documents,     (* the identifiers crypto.randomUUID() draws              *)
  Infected,      (* the documents in which the antivirus finds a virus     *)
  Requests,      (* the requests under way                                 *)
  Flows,         (* the types of document in the instance                  *)
  Sheets,        (* the opinions a declarant may save                      *)
  Nothing,       (* no opinion, no type, no document                       *)
  ContentTypes,  (* what an opinion may be about: a declaration and a type *)
  Requirements,  (* the sets of content types a declaration may call for   *)
  MaxCseFiles,   (* MAX_CSE_FILES                                          *)
  Faults         (* what may go wrong: "crash", "s3", "db"                 *)

ASSUME FileDepositAssumption ==
  /\ IsFiniteSet(Documents)
  /\ Infected \subseteq Documents
  /\ Flows \subseteq {"cse_opinion", "joint_evaluation", "formal_notice_joint_evaluation"}
  /\ Nothing \notin Documents \union Sheets
  /\ Nothing \notin {"cse_opinion", "joint_evaluation", "formal_notice_joint_evaluation"}
  /\ IsFiniteSet(ContentTypes)
  /\ Requirements \subseteq SUBSET ContentTypes
  /\ MaxCseFiles \in Nat
  /\ Faults \subseteq {"crash", "s3", "db"}

VARIABLES
  file,      (* table file: the type of each document's row, or Nothing    *)
  links,     (* table cse_opinion_file: the document of each content type  *)
  blobs,     (* the objects of the S3 bucket                               *)
  drawn,     (* the identifiers already drawn                              *)
  case,      (* what the declaration says of its CSE opinion               *)
  request,   (* where each request is                                      *)
  lost       (* history: the objects nobody will delete                    *)

vars == << file, links, blobs, drawn, case, request, lost >>

Links == [ContentTypes -> Documents \union {Nothing}]

Case ==
  [ required : Requirements,           (* getRequiredContentTypes            *)
    opinions : Sheets \union {Nothing},
    draft    : BOOLEAN,                (* cse_opinion_draft_updated_at # null *)
    journal  : BOOLEAN,                (* a cse_opinion_submit is recorded   *)
    expired  : BOOLEAN ]               (* its year is out of retention       *)

(* A request between two awaits: uploading a document (docs), its object   *)
(* stored, deleting objects that no row names any more, or about to run    *)
(* the one transaction of deleteFile or setFileContentTypes.               *)
Request ==
  [ at : {"idle", "streaming", "stored", "discarding", "deleting", "linking"},
    flow : Flows \union {Nothing}, docs : SUBSET Documents, links : Links ]

NoLinks == [t \in ContentTypes |-> Nothing]
Idle    == [ at |-> "idle", flow |-> Nothing, docs |-> {}, links |-> NoLinks ]

(* The types, and the foreign key of cse_opinion_file: a link names a row, *)
(* of an opinion.                                                          *)
TypeOK ==
  /\ file    \in [Documents -> Flows \union {Nothing}]
  /\ links   \in Links
  /\ blobs   \subseteq Documents
  /\ drawn   \subseteq Documents
  /\ case    \in Case
  /\ request \in [Requests -> Request]
  /\ lost    \subseteq Documents
  /\ \A t \in ContentTypes : links[t] # Nothing => file[links[t]] = "cse_opinion"

Init ==
  /\ file    = [d \in Documents |-> Nothing]
  /\ links   = NoLinks
  /\ blobs   = {}
  /\ drawn   = {}
  /\ case    \in { [ required |-> r, opinions |-> Nothing, draft |-> FALSE,
                     journal |-> FALSE, expired |-> FALSE ] : r \in Requirements }
  /\ request = [r \in Requests |-> Idle]
  /\ lost    = {}

-----------------------------------------------------------------------------
(* Reads                                                                   *)

OfType(flow) == { d \in Documents : file[d] = flow }
CseFiles     == OfType("cse_opinion")
Linked       == { links[t] : t \in ContentTypes } \ {Nothing}
Covered      == { t \in ContentTypes : links[t] # Nothing }

CseFileQuota ==
  IF Cardinality(case.required) < MaxCseFiles
  THEN Cardinality(case.required) ELSE MaxCseFiles

HasRoom == Cardinality(CseFiles) < CseFileQuota

(* findTransmittedCseOpinions: the opinion is shown as transmitted. *)
Shown == case.journal /\ ~case.draft

-----------------------------------------------------------------------------
(* The steps of a request                                                  *)

Goto(r, at) == request' = [request EXCEPT ![r].at = at]
Finish(r)   == request' = [request EXCEPT ![r] = Idle]

Drafted == case' = [case EXCEPT !.draft = TRUE]

(* The request r has objects left to delete before it ends, or ends. *)
Discarding(r, docs) ==
  request' = [request EXCEPT ![r] =
    IF docs = {} THEN Idle
    ELSE [Idle EXCEPT !.at = "discarding", !.docs = docs]]

-----------------------------------------------------------------------------
(* Upload                                                                  *)

(* The checks made before the body is read, then the first chunk. *)
StartUpload(r, flow, d) ==
  /\ request[r].at = "idle"
  /\ ~case.expired
  /\ flow = "cse_opinion" => HasRoom
  /\ d \notin drawn
  /\ drawn' = drawn \union {d}
  /\ request' = [request EXCEPT ![r] =
       [Idle EXCEPT !.at = "streaming", !.flow = flow, !.docs = {d}]]
  /\ UNCHANGED << file, links, blobs, case, lost >>

(* Too large, empty, wrong signature, virus, scanner down, request aborted *)
(* or timed out: the multipart upload is aborted and nothing is stored.    *)
Refuse(r) ==
  /\ request[r].at = "streaming"
  /\ Finish(r)
  /\ UNCHANGED << file, links, blobs, drawn, case, lost >>

(* The scanner has answered that the document is clean: complete(). *)
Complete(r) ==
  /\ request[r].at = "streaming"
  /\ request[r].docs \intersect Infected = {}
  /\ blobs' = blobs \union request[r].docs
  /\ Goto(r, "stored")
  /\ UNCHANGED << file, links, drawn, case, lost >>

(* complete() throws although S3 has assembled the object (the request was *)
(* aborted, the answer was lost): the error leaves the pipeline before its *)
(* try block and nothing deletes the object.                               *)
CompleteUnheard(r) ==
  /\ "s3" \in Faults
  /\ request[r].at = "streaming"
  /\ request[r].docs \intersect Infected = {}
  /\ blobs' = blobs \union request[r].docs
  /\ lost'  = lost \union request[r].docs
  /\ Finish(r)
  /\ UNCHANGED << file, links, drawn, case >>

(* Mutant: the quota is not read again under the lock. *)
CommitRowUnchecked(r) ==
  /\ request[r].at = "stored"
  /\ ~case.expired
  /\ LET flow     == request[r].flow
         replaced == IF flow = "cse_opinion" THEN {} ELSE OfType(flow)
     IN  /\ file' = [d \in Documents |->
                       IF d \in request[r].docs THEN flow
                       ELSE IF d \in replaced THEN Nothing ELSE file[d]]
         /\ IF flow = "cse_opinion" THEN Drafted ELSE UNCHANGED case
         /\ Discarding(r, replaced)
  /\ UNCHANGED << links, blobs, drawn, lost >>

(* commitFileRow: the CSE quota is read again under the lock; a report     *)
(* takes the place of the one on file, whose object is deleted afterwards. *)
CommitRow(r) ==
  /\ request[r].at = "stored"
  /\ ~case.expired
  /\ request[r].flow = "cse_opinion" => HasRoom
  /\ LET flow     == request[r].flow
         replaced == IF flow = "cse_opinion" THEN {} ELSE OfType(flow)
     IN  /\ file' = [d \in Documents |->
                       IF d \in request[r].docs THEN flow
                       ELSE IF d \in replaced THEN Nothing ELSE file[d]]
         /\ IF flow = "cse_opinion" THEN Drafted ELSE UNCHANGED case
         /\ Discarding(r, replaced)
  /\ UNCHANGED << links, blobs, drawn, lost >>

(* Mutant: a refused upload is reported and its object forgotten. *)
CommitRefusedForgetful(r) ==
  /\ request[r].at = "stored"
  /\ request[r].flow = "cse_opinion" /\ ~HasRoom
  /\ Finish(r)
  /\ UNCHANGED << file, links, blobs, drawn, case, lost >>

(* MaxFilesReachedError, or a transaction that fails: nothing is written,  *)
(* the object just stored is deleted.                                      *)
CommitRefused(r) ==
  /\ request[r].at = "stored"
  /\ \/ request[r].flow = "cse_opinion" /\ ~HasRoom
     \/ "db" \in Faults
  /\ Discarding(r, request[r].docs)
  /\ UNCHANGED << file, links, blobs, drawn, case, lost >>

-----------------------------------------------------------------------------
(* Deleting objects, and dying                                             *)

Discard(r) ==
  /\ request[r].at = "discarding"
  /\ \E d \in request[r].docs :
       /\ blobs' = blobs \ {d}
       /\ Discarding(r, request[r].docs \ {d})
  /\ UNCHANGED << file, links, drawn, case, lost >>

DiscardFails(r) ==
  /\ "s3" \in Faults
  /\ request[r].at = "discarding"
  /\ \E d \in request[r].docs :
       /\ lost' = lost \union {d}
       /\ Discarding(r, request[r].docs \ {d})
  /\ UNCHANGED << file, links, blobs, drawn, case >>

(* The process stops: what it had stored or was deleting stays as it is. *)
Crash(r) ==
  /\ "crash" \in Faults
  /\ request[r].at # "idle"
  /\ lost' = IF request[r].at \in {"stored", "discarding"}
             THEN lost \union request[r].docs ELSE lost
  /\ Finish(r)
  /\ UNCHANGED << file, links, blobs, drawn, case >>

-----------------------------------------------------------------------------
(* Router cseOpinion                                                       *)

(* Mutant: the opinions are rewritten, the marker left alone. *)
SaveOpinionsUnmarked(sheet) ==
  /\ ~case.expired
  /\ case' = [case EXCEPT !.opinions = sheet]
  /\ links' = [t \in ContentTypes |->
                 IF t \in case.required THEN links[t] ELSE Nothing]
  /\ UNCHANGED << file, blobs, drawn, request, lost >>

(* The opinions are rewritten, links that are no longer called for pruned. *)
SaveOpinions(sheet) ==
  /\ ~case.expired
  /\ case' = [case EXCEPT !.opinions = sheet, !.draft = TRUE]
  /\ links' = [t \in ContentTypes |->
                 IF t \in case.required THEN links[t] ELSE Nothing]
  /\ UNCHANGED << file, blobs, drawn, request, lost >>

(* setFileContentTypes: the documents are looked up first ... *)
StartLinking(r, wanted) ==
  /\ request[r].at = "idle"
  /\ ~case.expired
  /\ \A t \in ContentTypes : wanted[t] # Nothing => wanted[t] \in CseFiles
  /\ request' = [request EXCEPT ![r] =
       [Idle EXCEPT !.at = "linking", !.links = wanted]]
  /\ UNCHANGED << file, links, blobs, drawn, case, lost >>

(* Mutant: the table has no foreign key on the document. *)
LinkUnreferenced(r) ==
  /\ request[r].at = "linking"
  /\ links' = request[r].links
  /\ Drafted
  /\ Finish(r)
  /\ UNCHANGED << file, blobs, drawn, lost >>

(* ... and all links replaced in a transaction, which the foreign key      *)
(* aborts when a document was deleted meanwhile.                           *)
Link(r) ==
  /\ request[r].at = "linking"
  /\ IF \A t \in ContentTypes :
          request[r].links[t] # Nothing => file[request[r].links[t]] # Nothing
     THEN links' = request[r].links /\ Drafted
     ELSE UNCHANGED << links, case >>
  /\ Finish(r)
  /\ UNCHANGED << file, blobs, drawn, lost >>

(* deleteFile: the path is read first ... *)
StartDelete(r, d) ==
  /\ request[r].at = "idle"
  /\ ~case.expired
  /\ d \in CseFiles
  /\ request' = [request EXCEPT ![r] =
       [Idle EXCEPT !.at = "deleting", !.docs = {d}]]
  /\ UNCHANGED << file, links, blobs, drawn, case, lost >>

(* Mutant: the object is deleted first, the row afterwards. *)
DeleteObjectFirst(r) ==
  /\ request[r].at = "deleting"
  /\ blobs' = blobs \ request[r].docs
  /\ Discarding(r, request[r].docs)
  /\ UNCHANGED << file, links, drawn, case, lost >>

(* ... then the row is deleted, its links with it (ON DELETE CASCADE), and *)
(* the object is left to delete.                                           *)
DeleteRow(r) ==
  /\ request[r].at = "deleting"
  /\ file'  = [d \in Documents |->
                 IF d \in request[r].docs THEN Nothing ELSE file[d]]
  /\ links' = [t \in ContentTypes |->
                 IF links[t] \in request[r].docs THEN Nothing ELSE links[t]]
  /\ Drafted
  /\ Discarding(r, request[r].docs)
  /\ UNCHANGED << blobs, drawn, lost >>

(* Mutant: a document without a content type does not block. *)
FinalizeWithOrphans ==
  /\ ~case.expired
  /\ case.opinions # Nothing
  /\ CseFiles # {}
  /\ case.required \subseteq Covered
  /\ case' = [case EXCEPT !.journal = TRUE, !.draft = FALSE]
  /\ UNCHANGED << file, links, blobs, drawn, request, lost >>

Finalize ==
  /\ ~case.expired
  /\ case.opinions # Nothing
  /\ CseFiles # {}
  /\ case.required \subseteq Covered
  /\ CseFiles \subseteq Linked
  /\ case' = [case EXCEPT !.journal = TRUE, !.draft = FALSE]
  /\ UNCHANGED << file, links, blobs, drawn, request, lost >>

-----------------------------------------------------------------------------
(* The rest of the démarche                                                *)

(* A path choice, a second declaration, an edited category: they change    *)
(* what the council is asked, until its opinion has been transmitted.      *)
Revise(required) ==
  /\ ~case.expired /\ ~case.journal
  /\ case' = [case EXCEPT !.required = required]
  /\ UNCHANGED << file, links, blobs, drawn, request, lost >>

(* The declaration is years old; no request on it is still running. *)
Age ==
  /\ ~case.expired
  /\ \A r \in Requests : request[r].at = "idle"
  /\ case' = [case EXCEPT !.expired = TRUE]
  /\ UNCHANGED << file, links, blobs, drawn, request, lost >>

(* runDeclarationCleanup: the rows in one transaction, then their objects. *)
Purge(r) ==
  /\ case.expired
  /\ request[r].at = "idle"
  /\ \E d \in Documents : file[d] # Nothing
  /\ Discarding(r, { d \in Documents : file[d] # Nothing })
  /\ file'  = [d \in Documents |-> Nothing]
  /\ links' = NoLinks
  /\ case'  = [case EXCEPT !.opinions = Nothing, !.journal = FALSE]
  /\ UNCHANGED << blobs, drawn, lost >>

-----------------------------------------------------------------------------
Step(r) ==
  \/ \E flow \in Flows, d \in Documents : StartUpload(r, flow, d)
  \/ Refuse(r)
  \/ Complete(r)
  \/ CompleteUnheard(r)
  \/ CommitRow(r)
  \/ CommitRefused(r)
  \/ Discard(r)
  \/ DiscardFails(r)
  \/ Crash(r)
  \/ \E wanted \in Links : StartLinking(r, wanted)
  \/ Link(r)
  \/ \E d \in Documents : StartDelete(r, d)
  \/ DeleteRow(r)
  \/ Purge(r)

Next ==
  \/ \E r \in Requests : Step(r)
  \/ \E sheet \in Sheets : SaveOpinions(sheet)
  \/ Finalize
  \/ \E required \in Requirements : Revise(required)
  \/ Age

Spec == Init /\ [][Next]_vars

-----------------------------------------------------------------------------
(* Properties                                                              *)

(* The deposit keeps the promise of DocumentStore: whatever is interrupted, *)
(* a row names an object that is stored and was scanned.                   *)
Listed == { d \in Documents : file[d] # Nothing }

Shelf == INSTANCE DocumentStore WITH listed <- Listed, stored <- blobs

KeepsDocuments == Shelf!StoreSpec

(* An object that no row names is in the hands of a request that will      *)
(* delete or list it, or was lost to a fault: never to a refusal.          *)
InHand ==
  UNION { request[r].docs :
            r \in { q \in Requests : request[q].at \in {"stored", "discarding"} } }

OrphansExplained == blobs \subseteq Listed \union InHand \union lost

(* No interleaving of uploads adds a document beyond one per required type. *)
AddedWithinQuota ==
  [][ CseFiles' \subseteq CseFiles \/ Cardinality(CseFiles') <= CseFileQuota ]_vars

(* What is shown as transmitted is what was transmitted: the first edit    *)
(* of an opinion, a document or a link hides it until the next finalize.   *)
ShownAsSent ==
  [][ Shown /\ Shown' => UNCHANGED << CseFiles, links, case.opinions >> ]_vars

(* What is shown as transmitted answers everything the council was asked,  *)
(* with no document that answers nothing.                                  *)
ShownIsComplete ==
  Shown => /\ case.required \subseteq Covered
           /\ CseFiles # {}
           /\ CseFiles = Linked

=============================================================================
