--------------------------- MODULE FileDepositProofs ---------------------------
(***************************************************************************)
(* The deposit of documents for any number of documents, of requests under *)
(* way, of types and of content types, whatever faults are allowed.        *)
(***************************************************************************)
EXTENDS FileDeposit, FiniteSetTheorems, TLAPS

(***************************************************************************)
(* The inductive invariant.  It says who may touch a document: one request *)
(* while it is uploaded, nobody else, since its identifier is drawn once.  *)
(***************************************************************************)
Uploading(q) == q.at \in {"streaming", "stored"}

(* A row names an object that is stored. *)
RowsStored ==
  \A d \in Documents : file[d] # Nothing => d \in blobs /\ d \in drawn

(* An upload has one document, of no row yet, and stored once it says so. *)
UploadsWhole ==
  \A r \in Requests : Uploading(request[r]) =>
    /\ request[r].flow \in Flows
    /\ \E d \in Documents :
         /\ request[r].docs = {d}
         /\ file[d] = Nothing
         /\ request[r].at = "stored" => d \in blobs

(* Nobody else has the document of an upload in hand, to delete or to link. *)
UploadsApart ==
  \A r, q \in Requests : Uploading(request[r]) =>
    /\ r # q => request[r].docs \intersect request[q].docs = {}
    /\ \A t \in ContentTypes : request[q].links[t] \notin request[r].docs

DocsDrawn ==
  \A r \in Requests :
    /\ request[r].docs \subseteq drawn
    /\ \A t \in ContentTypes : request[r].links[t] # Nothing => request[r].links[t] \in drawn

(* What a request is discarding has no row. *)
DroppedUnlisted ==
  \A r \in Requests : request[r].at = "discarding" =>
    \A d \in request[r].docs : file[d] = Nothing

(* A document looked up for a link was of an opinion; it may be gone. *)
LinksOfOpinions ==
  \A r \in Requests, t \in ContentTypes :
    request[r].links[t] # Nothing => file[request[r].links[t]] \in {"cse_opinion", Nothing}

Lawful ==
  /\ RowsStored
  /\ UploadsWhole
  /\ UploadsApart
  /\ DocsDrawn
  /\ DroppedUnlisted
  /\ LinksOfOpinions

IInv == TypeOK /\ Lawful

-----------------------------------------------------------------------------
(* Requests                                                                *)

LEMMA IdleTyped ==
  /\ NoLinks \in Links
  /\ Idle \in Request
  /\ Idle.at = "idle" /\ Idle.docs = {} /\ Idle.links = NoLinks
  /\ \A t \in ContentTypes : NoLinks[t] = Nothing
BY DEF Idle, NoLinks, Links, Request

LEMMA NothingApart ==
  /\ Nothing \notin Documents /\ Nothing \notin Flows
  /\ "cse_opinion" # Nothing
BY FileDepositAssumption

(* The request r moves on and the rows stay as they are.                   *)
LEMMA RequestMoves ==
  ASSUME IInv, NEW r \in Requests, NEW next \in Request,
         request' = [request EXCEPT ![r] = next],
         UNCHANGED file, drawn \subseteq drawn', blobs \subseteq blobs',
         next.docs \subseteq drawn',
         \A t \in ContentTypes : next.links[t] # Nothing =>
           next.links[t] \in drawn' /\ file[next.links[t]] \in {"cse_opinion", Nothing},
         Uploading(next) =>
           /\ next.flow \in Flows
           /\ \E d \in Documents : /\ next.docs = {d}
                                   /\ file[d] = Nothing
                                   /\ next.at = "stored" => d \in blobs'
           /\ \A q \in Requests : \A t \in ContentTypes :
                /\ request[q].links[t] \notin next.docs
                /\ next.links[t] \notin next.docs,
         \A q \in Requests : q # r /\ (Uploading(next) \/ Uploading(request[q])) =>
           /\ request[q].docs \intersect next.docs = {}
           /\ Uploading(request[q]) =>
                \A t \in ContentTypes : next.links[t] \notin request[q].docs,
         next.at = "discarding" => \A d \in next.docs : file[d] = Nothing
  PROVE  Lawful' /\ request' \in [Requests -> Request]
<1>1. /\ request \in [Requests -> Request]
      /\ request' \in [Requests -> Request]
      /\ request'[r] = next
      /\ \A q \in Requests : q # r => request'[q] = request[q]
  BY DEF IInv, TypeOK
<1>2. RowsStored'
  BY DEF IInv, Lawful, RowsStored
<1>3. UploadsWhole'
  BY <1>1 DEF IInv, Lawful, UploadsWhole
<1>4. UploadsApart'
  <2> SUFFICES ASSUME NEW p \in Requests, NEW q \in Requests, Uploading(request'[p])
               PROVE  /\ p # q => request'[p].docs \intersect request'[q].docs = {}
                      /\ \A t \in ContentTypes : request'[q].links[t] \notin request'[p].docs
    BY DEF UploadsApart
  <2>1. CASE p # r /\ q # r
    BY <1>1, <2>1 DEF IInv, Lawful, UploadsApart
  <2>2. CASE p = r
    BY <1>1, <2>2
  <2>3. CASE p # r /\ q = r
    BY <1>1, <2>3
  <2>4. QED
    BY <2>1, <2>2, <2>3
<1>5. DocsDrawn'
  BY <1>1 DEF IInv, Lawful, DocsDrawn
<1>6. DroppedUnlisted'
  BY <1>1 DEF IInv, Lawful, DroppedUnlisted
<1>7. LinksOfOpinions'
  BY <1>1 DEF IInv, Lawful, LinksOfOpinions
<1>8. QED
  BY <1>1, <1>2, <1>3, <1>4, <1>5, <1>6, <1>7 DEF Lawful

(* Its end is one of those moves.                                          *)
LEMMA FinishMoves ==
  ASSUME IInv, NEW r \in Requests, Finish(r),
         UNCHANGED << file, drawn >>, blobs \subseteq blobs'
  PROVE  Lawful' /\ request' \in [Requests -> Request]
<1>1. /\ request' = [request EXCEPT ![r] = Idle]
      /\ ~Uploading(Idle)
  BY IdleTyped DEF Finish, Uploading
<1>2. \A q \in Requests : Uploading(request[q]) =>
        \A t \in ContentTypes : Idle.links[t] \notin request[q].docs
  BY IdleTyped, NothingApart DEF IInv, TypeOK, Request
<1>3. QED
  BY <1>1, <1>2, IdleTyped, RequestMoves

(* What a request that has objects to delete becomes.                      *)
Dropping(docs) ==
  IF docs = {} THEN Idle ELSE [Idle EXCEPT !.at = "discarding", !.docs = docs]

LEMMA DroppingTyped ==
  ASSUME NEW docs \in SUBSET Documents
  PROVE  /\ Dropping(docs) \in Request
         /\ Dropping(docs).docs = docs
         /\ Dropping(docs).links = NoLinks
         /\ ~Uploading(Dropping(docs))
         /\ Dropping(docs).at \in {"idle", "discarding"}
         /\ docs # {} => Dropping(docs).at = "discarding"
BY IdleTyped DEF Dropping, Idle, Request, Uploading

(* The documents of a request are documents, already drawn.                *)
LEMMA RequestTyped ==
  ASSUME IInv, NEW r \in Requests
  PROVE  /\ request[r] \in Request
         /\ request[r].docs \in SUBSET Documents
         /\ request[r].links \in Links
         /\ request[r].docs \subseteq drawn
BY DEF IInv, TypeOK, Request, Lawful, DocsDrawn

(* The rows change and the request r is left with objects to delete: what  *)
(* the three writers of the table owe the others.                          *)
LEMMA RowsMove ==
  ASSUME IInv, NEW r \in Requests, NEW docs \in SUBSET Documents,
         request' = [request EXCEPT ![r] = Dropping(docs)],
         UNCHANGED << blobs, drawn >>, docs \subseteq drawn,
         \A d \in Documents : file'[d] # Nothing => d \in blobs /\ d \in drawn,
         \A d \in docs : file'[d] = Nothing,
         \A q \in Requests : q # r =>
           /\ Uploading(request[q]) =>
                /\ request[q].docs \intersect docs = {}
                /\ \A d \in request[q].docs : file'[d] = Nothing
           /\ request[q].at = "discarding" =>
                \A d \in request[q].docs : file'[d] = Nothing
           /\ \A t \in ContentTypes : request[q].links[t] # Nothing =>
                file'[request[q].links[t]] \in {"cse_opinion", Nothing}
  PROVE  Lawful' /\ request' \in [Requests -> Request]
<1>1. /\ request \in [Requests -> Request]
      /\ request' \in [Requests -> Request]
      /\ request'[r] = Dropping(docs)
      /\ \A q \in Requests : q # r => request'[q] = request[q]
  BY DroppingTyped DEF IInv, TypeOK
<1>2. /\ ~Uploading(request'[r])
      /\ request'[r].docs = docs
      /\ \A t \in ContentTypes : request'[r].links[t] = Nothing
  BY <1>1, DroppingTyped, IdleTyped
<1>3. RowsStored'
  BY DEF RowsStored
<1>4. UploadsWhole'
  BY <1>1, <1>2 DEF IInv, Lawful, UploadsWhole
<1>5. UploadsApart'
  <2> SUFFICES ASSUME NEW p \in Requests, NEW q \in Requests, Uploading(request'[p])
               PROVE  /\ p # q => request'[p].docs \intersect request'[q].docs = {}
                      /\ \A t \in ContentTypes : request'[q].links[t] \notin request'[p].docs
    BY DEF UploadsApart
  <2>1. p # r /\ request'[p] = request[p] /\ Uploading(request[p])
    BY <1>1, <1>2
  <2>2. CASE q # r
    BY <1>1, <2>1, <2>2 DEF IInv, Lawful, UploadsApart
  <2>3. CASE q = r
    <3>1. Nothing \notin request[p].docs
      BY RequestTyped, NothingApart
    <3>2. QED
      BY <1>2, <2>1, <2>3, <3>1
  <2>4. QED
    BY <2>2, <2>3
<1>6. DocsDrawn'
  BY <1>1, <1>2 DEF IInv, Lawful, DocsDrawn
<1>7. DroppedUnlisted'
  BY <1>1, <1>2 DEF IInv, Lawful, DroppedUnlisted
<1>8. LinksOfOpinions'
  BY <1>1, <1>2 DEF IInv, Lawful, LinksOfOpinions
<1>9. QED
  BY <1>1, <1>3, <1>4, <1>5, <1>6, <1>7, <1>8 DEF Lawful
-----------------------------------------------------------------------------
(* Actions                                                                 *)

LEMMA CaseTyped ==
  ASSUME IInv
  PROVE  /\ Drafted => case' \in Case
         /\ UNCHANGED case => case' \in Case
         /\ \A t \in ContentTypes : links[t] # Nothing =>
              links[t] \in Documents /\ file[links[t]] = "cse_opinion"
BY DEF IInv, TypeOK, Drafted, Case, Links

(* Nobody else has the document of an upload in hand.                      *)
LEMMA UploadAlone ==
  ASSUME IInv, NEW r \in Requests, Uploading(request[r])
  PROVE  /\ request[r].flow \in Flows
         /\ \E d \in Documents : /\ request[r].docs = {d}
                                 /\ file[d] = Nothing
                                 /\ request[r].at = "stored" => d \in blobs
         /\ \A q \in Requests : q # r => request[r].docs \intersect request[q].docs = {}
         /\ \A q \in Requests, t \in ContentTypes : request[q].links[t] \notin request[r].docs
BY DEF IInv, Lawful, UploadsWhole, UploadsApart

LEMMA StartUploadKeeps ==
  ASSUME IInv, NEW r \in Requests, NEW flow \in Flows, NEW d \in Documents,
         StartUpload(r, flow, d)
  PROVE  IInv'
<1> DEFINE next == [Idle EXCEPT !.at = "streaming", !.flow = flow, !.docs = {d}]
<1>1. /\ next \in Request
      /\ next.at = "streaming" /\ next.flow = flow /\ next.docs = {d}
      /\ next.links = NoLinks
  BY IdleTyped DEF Idle, Request
<1>2. /\ request' = [request EXCEPT ![r] = next]
      /\ d \notin drawn /\ drawn' = drawn \union {d}
      /\ UNCHANGED << file, links, blobs, case, lost >>
  BY DEF StartUpload
<1>3. file[d] = Nothing
  BY <1>2 DEF IInv, Lawful, RowsStored
<1>4. \A q \in Requests : /\ d \notin request[q].docs
                         /\ \A t \in ContentTypes : request[q].links[t] # d
  BY <1>2, NothingApart DEF IInv, Lawful, DocsDrawn
<1>5. \A q \in Requests : Nothing \notin request[q].docs
  BY RequestTyped, NothingApart
<1>6. Lawful' /\ request' \in [Requests -> Request]
  <2>1. \A t \in ContentTypes : next.links[t] = Nothing
    BY <1>1, IdleTyped
  <2>2. /\ UNCHANGED file /\ drawn \subseteq drawn' /\ blobs \subseteq blobs'
        /\ next.docs \subseteq drawn'
        /\ next.at # "discarding"
    BY <1>1, <1>2
  <2>3. \A t \in ContentTypes : next.links[t] # Nothing =>
          next.links[t] \in drawn' /\ file[next.links[t]] \in {"cse_opinion", Nothing}
    BY <2>1
  <2>4. /\ next.flow \in Flows
        /\ \E e \in Documents : /\ next.docs = {e}
                                /\ file[e] = Nothing
                                /\ next.at = "stored" => e \in blobs'
        /\ \A q \in Requests : \A t \in ContentTypes :
             /\ request[q].links[t] \notin next.docs
             /\ next.links[t] \notin next.docs
    BY <1>1, <1>3, <1>4, <2>1, NothingApart
  <2>5. \A q \in Requests : q # r /\ (Uploading(next) \/ Uploading(request[q])) =>
          /\ request[q].docs \intersect next.docs = {}
          /\ Uploading(request[q]) =>
               \A t \in ContentTypes : next.links[t] \notin request[q].docs
    BY <1>1, <1>4, <1>5, <2>1
  <2> HIDE DEF next
  <2>6. QED
    BY <1>1, <1>2, <2>2, <2>3, <2>4, <2>5, RequestMoves
<1>7. QED
  BY <1>2, <1>6 DEF IInv, TypeOK

LEMMA RefuseKeeps ==
  ASSUME IInv, NEW r \in Requests, Refuse(r)
  PROVE  IInv'
BY FinishMoves DEF IInv, TypeOK, Refuse

LEMMA CompleteUnheardKeeps ==
  ASSUME IInv, NEW r \in Requests, CompleteUnheard(r)
  PROVE  IInv'
<1>1. Lawful' /\ request' \in [Requests -> Request]
  BY FinishMoves DEF CompleteUnheard
<1>2. blobs' \subseteq Documents /\ lost' \subseteq Documents
  BY RequestTyped DEF IInv, TypeOK, CompleteUnheard
<1>3. QED
  BY <1>1, <1>2 DEF IInv, TypeOK, CompleteUnheard

LEMMA CrashKeeps ==
  ASSUME IInv, NEW r \in Requests, Crash(r)
  PROVE  IInv'
<1>1. Lawful' /\ request' \in [Requests -> Request]
  BY FinishMoves DEF Crash
<1>2. lost' \subseteq Documents
  BY RequestTyped DEF IInv, TypeOK, Crash
<1>3. QED
  BY <1>1, <1>2 DEF IInv, TypeOK, Crash

LEMMA CompleteKeeps ==
  ASSUME IInv, NEW r \in Requests, Complete(r)
  PROVE  IInv'
<1> DEFINE next == [request[r] EXCEPT !.at = "stored"]
<1>1. /\ request' = [request EXCEPT ![r] = next]
      /\ request[r].at = "streaming"
      /\ blobs' = blobs \union request[r].docs
      /\ UNCHANGED << file, links, drawn, case, lost >>
  BY DEF Complete, Goto
<1>2. /\ next \in Request
      /\ next.at = "stored" /\ next.flow = request[r].flow
      /\ next.docs = request[r].docs /\ next.links = request[r].links
  BY RequestTyped DEF Request
<1>3. Uploading(request[r])
  BY <1>1 DEF Uploading
<1>4. Lawful' /\ request' \in [Requests -> Request]
  <2>1. /\ drawn \subseteq drawn' /\ blobs \subseteq blobs'
        /\ next.docs \subseteq drawn'
        /\ next.at # "discarding"
    BY <1>1, <1>2, RequestTyped
  <2>2. \A t \in ContentTypes : next.links[t] # Nothing =>
          next.links[t] \in drawn' /\ file[next.links[t]] \in {"cse_opinion", Nothing}
    BY <1>1, <1>2 DEF IInv, Lawful, DocsDrawn, LinksOfOpinions
  <2>3. /\ next.flow \in Flows
        /\ \E d \in Documents : /\ next.docs = {d}
                                /\ file[d] = Nothing
                                /\ next.at = "stored" => d \in blobs'
        /\ \A q \in Requests : \A t \in ContentTypes :
             /\ request[q].links[t] \notin next.docs
             /\ next.links[t] \notin next.docs
    BY <1>1, <1>2, <1>3, UploadAlone
  <2>4. \A q \in Requests : q # r /\ (Uploading(next) \/ Uploading(request[q])) =>
          /\ request[q].docs \intersect next.docs = {}
          /\ Uploading(request[q]) =>
               \A t \in ContentTypes : next.links[t] \notin request[q].docs
    BY <1>2, <1>3, UploadAlone
  <2> HIDE DEF next
  <2>5. QED
    BY <1>1, <1>2, <2>1, <2>2, <2>3, <2>4, RequestMoves
<1>5. blobs' \subseteq Documents
  BY <1>1, RequestTyped DEF IInv, TypeOK
<1>6. QED
  BY <1>1, <1>4, <1>5 DEF IInv, TypeOK
(* A request is left with some of its documents to delete, none of which   *)
(* has a row, or ends.                                                     *)
LEMMA DroppingMoves ==
  ASSUME IInv, NEW r \in Requests, NEW docs \in SUBSET Documents,
         Discarding(r, docs), UNCHANGED << file, drawn >>, blobs \subseteq blobs',
         docs \subseteq request[r].docs,
         \A d \in docs : file[d] = Nothing
  PROVE  Lawful' /\ request' \in [Requests -> Request]
<1> DEFINE next == Dropping(docs)
<1>1. /\ next \in Request /\ ~Uploading(next)
      /\ next.docs = docs
      /\ \A t \in ContentTypes : next.links[t] = Nothing
      /\ request' = [request EXCEPT ![r] = next]
  BY DroppingTyped, IdleTyped DEF Discarding, Dropping
<1>2. next.docs \subseteq drawn'
  BY <1>1, RequestTyped
<1>3. \A q \in Requests : q # r /\ Uploading(request[q]) =>
        /\ request[q].docs \intersect docs = {}
        /\ \A t \in ContentTypes : next.links[t] \notin request[q].docs
  BY <1>1, UploadAlone, RequestTyped, NothingApart
<1> HIDE DEF next
<1>4. QED
  BY <1>1, <1>2, <1>3, RequestMoves

LEMMA CommitRefusedKeeps ==
  ASSUME IInv, NEW r \in Requests, CommitRefused(r)
  PROVE  IInv'
<1>1. Uploading(request[r])
  BY DEF CommitRefused, Uploading
<1>2. \A d \in request[r].docs : file[d] = Nothing
  BY <1>1, UploadAlone
<1>3. Lawful' /\ request' \in [Requests -> Request]
  BY <1>2, DroppingMoves, RequestTyped DEF CommitRefused
<1>4. QED
  BY <1>3 DEF IInv, TypeOK, CommitRefused

LEMMA DiscardFailsKeeps ==
  ASSUME IInv, NEW r \in Requests, DiscardFails(r)
  PROVE  IInv'
<1>1. PICK d \in request[r].docs : /\ lost' = lost \union {d}
                                   /\ Discarding(r, request[r].docs \ {d})
  BY DEF DiscardFails
<1>2. \A e \in request[r].docs : file[e] = Nothing
  BY DEF IInv, Lawful, DroppedUnlisted, DiscardFails
<1>3. request[r].docs \ {d} \in SUBSET Documents /\ d \in Documents
  BY RequestTyped
<1>4. Lawful' /\ request' \in [Requests -> Request]
  BY <1>1, <1>2, <1>3, DroppingMoves DEF DiscardFails
<1>5. QED
  BY <1>1, <1>3, <1>4 DEF IInv, TypeOK, DiscardFails

(* The object goes once no row names it.                                   *)
LEMMA DiscardKeeps ==
  ASSUME IInv, NEW r \in Requests, Discard(r)
  PROVE  IInv'
<1>1. PICK d \in request[r].docs : /\ blobs' = blobs \ {d}
                                   /\ Discarding(r, request[r].docs \ {d})
  BY DEF Discard
<1> DEFINE docs == request[r].docs \ {d}
<1>2. /\ docs \in SUBSET Documents /\ d \in Documents
      /\ docs \subseteq drawn
      /\ request' = [request EXCEPT ![r] = Dropping(docs)]
      /\ request[r].at = "discarding"
      /\ UNCHANGED << file, links, drawn, case, lost >>
  BY <1>1, RequestTyped DEF Discard, Discarding, Dropping
<1>3. \A e \in request[r].docs : file[e] = Nothing
  BY <1>2 DEF IInv, Lawful, DroppedUnlisted
<1>4. \A q \in Requests : Uploading(request[q]) =>
        q # r /\ d \notin request[q].docs /\ request[q].docs \intersect docs = {}
  BY <1>2, UploadAlone DEF Uploading
<1> HIDE DEF docs
<1>5. /\ request' \in [Requests -> Request]
      /\ request'[r] = Dropping(docs)
      /\ \A q \in Requests : q # r => request'[q] = request[q]
  BY <1>2, DroppingTyped DEF IInv, TypeOK
<1>6. /\ ~Uploading(request'[r])
      /\ request'[r].docs = docs
      /\ \A t \in ContentTypes : request'[r].links[t] = Nothing
  BY <1>2, <1>5, DroppingTyped, IdleTyped
<1>7. RowsStored'
  BY <1>1, <1>2, <1>3 DEF IInv, Lawful, RowsStored
<1>8. UploadsWhole'
  BY <1>1, <1>2, <1>4, <1>5, <1>6 DEF IInv, Lawful, UploadsWhole
<1>9. UploadsApart'
  <2> SUFFICES ASSUME NEW p \in Requests, NEW q \in Requests, Uploading(request'[p])
               PROVE  /\ p # q => request'[p].docs \intersect request'[q].docs = {}
                      /\ \A t \in ContentTypes : request'[q].links[t] \notin request'[p].docs
    BY DEF UploadsApart
  <2>1. p # r /\ request'[p] = request[p] /\ Uploading(request[p])
    BY <1>5, <1>6
  <2>2. CASE q # r
    BY <1>5, <2>1, <2>2 DEF IInv, Lawful, UploadsApart
  <2>3. CASE q = r
    <3>1. Nothing \notin request[p].docs
      BY RequestTyped, NothingApart
    <3>2. QED
      BY <1>4, <1>6, <2>1, <2>3, <3>1
  <2>4. QED
    BY <2>2, <2>3
<1>10. DocsDrawn' /\ DroppedUnlisted' /\ LinksOfOpinions'
  <2>1. DocsDrawn'
    BY <1>2, <1>5, <1>6 DEF IInv, Lawful, DocsDrawn
  <2>2. DroppedUnlisted'
    BY <1>2, <1>3, <1>5, <1>6 DEF IInv, Lawful, DroppedUnlisted, docs
  <2>3. LinksOfOpinions'
    BY <1>2, <1>5, <1>6 DEF IInv, Lawful, LinksOfOpinions
  <2>4. QED
    BY <2>1, <2>2, <2>3
<1>11. Lawful'
  BY <1>7, <1>8, <1>9, <1>10 DEF Lawful
<1>12. QED
  BY <1>1, <1>2, <1>5, <1>11 DEF IInv, TypeOK

(* The row is written once its object is stored; the row it replaces goes. *)
LEMMA CommitRowKeeps ==
  ASSUME IInv, NEW r \in Requests, CommitRow(r)
  PROVE  IInv'
<1> DEFINE flow == request[r].flow
           replaced == IF flow = "cse_opinion" THEN {} ELSE OfType(flow)
<1>1. /\ file' = [d \in Documents |->
                    IF d \in request[r].docs THEN flow
                    ELSE IF d \in replaced THEN Nothing ELSE file[d]]
      /\ request' = [request EXCEPT ![r] = Dropping(replaced)]
      /\ Drafted \/ UNCHANGED case
      /\ UNCHANGED << links, blobs, drawn, lost >>
  BY DEF CommitRow, Discarding, Dropping
<1>2. Uploading(request[r]) /\ request[r].at = "stored"
  BY DEF CommitRow, Uploading
<1>3. PICK d \in Documents : /\ request[r].docs = {d}
                             /\ file[d] = Nothing
                             /\ d \in blobs
  BY <1>2, UploadAlone
<1>4. flow \in Flows /\ d \in drawn
  BY <1>2, <1>3, UploadAlone, RequestTyped
<1>5. /\ \A e \in replaced : e \in Documents /\ e # d /\ file[e] = flow /\ flow # "cse_opinion"
      /\ replaced \in SUBSET Documents
  BY <1>3, <1>4, NothingApart DEF OfType
<1> HIDE DEF flow, replaced
<1>6. replaced \subseteq drawn
  BY <1>4, <1>5, NothingApart DEF IInv, Lawful, RowsStored
<1>7. \A e \in Documents : file'[e] # Nothing => e \in blobs /\ e \in drawn
  BY <1>1, <1>3, <1>4 DEF IInv, Lawful, RowsStored
<1>8. \A e \in replaced : file'[e] = Nothing
  BY <1>1, <1>3, <1>5
<1>9. \A q \in Requests : q # r => d \notin request[q].docs
  BY <1>2, <1>3, UploadAlone
<1>10. \A q \in Requests : q # r =>
         /\ Uploading(request[q]) =>
              /\ request[q].docs \intersect replaced = {}
              /\ \A e \in request[q].docs : file'[e] = Nothing
         /\ request[q].at = "discarding" =>
              \A e \in request[q].docs : file'[e] = Nothing
         /\ \A t \in ContentTypes : request[q].links[t] # Nothing =>
              file'[request[q].links[t]] \in {"cse_opinion", Nothing}
  <2> SUFFICES ASSUME NEW q \in Requests, q # r
               PROVE  /\ Uploading(request[q]) =>
                           /\ request[q].docs \intersect replaced = {}
                           /\ \A e \in request[q].docs : file'[e] = Nothing
                      /\ request[q].at = "discarding" =>
                           \A e \in request[q].docs : file'[e] = Nothing
                      /\ \A t \in ContentTypes : request[q].links[t] # Nothing =>
                           file'[request[q].links[t]] \in {"cse_opinion", Nothing}
    OBVIOUS
  <2>1. \A e \in request[q].docs : e \in Documents /\ (file[e] = Nothing => file'[e] = Nothing)
    BY <1>1, <1>3, <1>9, RequestTyped
  <2>2. Uploading(request[q]) =>
          /\ request[q].docs \intersect replaced = {}
          /\ \A e \in request[q].docs : file'[e] = Nothing
    BY <1>4, <1>5, <2>1, UploadAlone, NothingApart
  <2>3. request[q].at = "discarding" => \A e \in request[q].docs : file'[e] = Nothing
    BY <2>1 DEF IInv, Lawful, DroppedUnlisted
  <2>4. ASSUME NEW t \in ContentTypes, request[q].links[t] # Nothing
        PROVE  file'[request[q].links[t]] \in {"cse_opinion", Nothing}
    <3>1. request[q].links[t] \in Documents
      BY <2>4, RequestTyped DEF Links
    <3>2. request[q].links[t] # d
      BY <1>2, <1>3, UploadAlone
    <3>3. file[request[q].links[t]] \in {"cse_opinion", Nothing}
      BY <2>4 DEF IInv, Lawful, LinksOfOpinions
    <3>4. QED
      BY <1>1, <1>3, <3>1, <3>2, <3>3
  <2>5. QED
    BY <2>2, <2>3, <2>4
<1>11. Lawful' /\ request' \in [Requests -> Request]
  BY <1>1, <1>5, <1>6, <1>7, <1>8, <1>10, RowsMove
<1>12. file' \in [Documents -> Flows \union {Nothing}]
  BY <1>1, <1>4 DEF IInv, TypeOK
<1>13. \A t \in ContentTypes : links'[t] # Nothing => file'[links'[t]] = "cse_opinion"
  BY <1>1, <1>3, <1>5, CaseTyped, NothingApart
<1>14. QED
  BY <1>1, <1>11, <1>12, <1>13, CaseTyped DEF IInv, TypeOK
(* A document of an opinion has a row: it is not one being uploaded.       *)
LEMMA OpinionsApart ==
  ASSUME IInv, NEW d \in CseFiles
  PROVE  /\ d \in Documents /\ file[d] = "cse_opinion" /\ d \in drawn
         /\ \A q \in Requests : Uploading(request[q]) => d \notin request[q].docs
<1>1. d \in Documents /\ file[d] = "cse_opinion" /\ file[d] # Nothing
  BY NothingApart DEF CseFiles, OfType
<1>2. d \in drawn
  BY <1>1 DEF IInv, Lawful, RowsStored
<1>3. QED
  BY <1>1, <1>2, UploadAlone

LEMMA StartLinkingKeeps ==
  ASSUME IInv, NEW r \in Requests, NEW wanted \in Links, StartLinking(r, wanted)
  PROVE  IInv'
<1> DEFINE next == [Idle EXCEPT !.at = "linking", !.links = wanted]
<1>1. /\ next \in Request /\ ~Uploading(next) /\ next.at = "linking"
      /\ next.docs = {} /\ next.links = wanted
  BY IdleTyped DEF Idle, Request, Uploading
<1>2. /\ request' = [request EXCEPT ![r] = next]
      /\ \A t \in ContentTypes : wanted[t] # Nothing => wanted[t] \in CseFiles
      /\ UNCHANGED << file, links, blobs, drawn, case, lost >>
  BY DEF StartLinking
<1> HIDE DEF next
<1>3. \A t \in ContentTypes : next.links[t] # Nothing =>
        next.links[t] \in drawn' /\ file[next.links[t]] \in {"cse_opinion", Nothing}
  BY <1>1, <1>2, OpinionsApart
<1>4. \A q \in Requests : q # r /\ (Uploading(next) \/ Uploading(request[q])) =>
        /\ request[q].docs \intersect next.docs = {}
        /\ Uploading(request[q]) =>
             \A t \in ContentTypes : next.links[t] \notin request[q].docs
  BY <1>1, <1>2, OpinionsApart, RequestTyped, NothingApart
<1>5. /\ drawn \subseteq drawn' /\ blobs \subseteq blobs'
      /\ next.docs \subseteq drawn' /\ next.at # "discarding"
  BY <1>1, <1>2
<1>6. Lawful' /\ request' \in [Requests -> Request]
  BY <1>1, <1>2, <1>3, <1>4, <1>5, RequestMoves
<1>7. QED
  BY <1>2, <1>6 DEF IInv, TypeOK

(* The links are those looked up, when none of their documents is gone.    *)
LEMMA LinkKeeps ==
  ASSUME IInv, NEW r \in Requests, Link(r)
  PROVE  IInv'
<1>1. Lawful' /\ request' \in [Requests -> Request]
  BY FinishMoves DEF Link
<1>2. /\ links' \in Links /\ case' \in Case
      /\ \A t \in ContentTypes : links'[t] # Nothing => file[links'[t]] = "cse_opinion"
  <2>1. CASE links' = request[r].links /\ Drafted /\
             \A t \in ContentTypes :
               request[r].links[t] # Nothing => file[request[r].links[t]] # Nothing
    BY <2>1, RequestTyped, CaseTyped DEF IInv, Lawful, LinksOfOpinions
  <2>2. CASE UNCHANGED << links, case >>
    BY <2>2, CaseTyped DEF IInv, TypeOK
  <2>3. QED
    BY <2>1, <2>2 DEF Link
<1>3. QED
  BY <1>1, <1>2 DEF IInv, TypeOK, Link

LEMMA StartDeleteKeeps ==
  ASSUME IInv, NEW r \in Requests, NEW d \in Documents, StartDelete(r, d)
  PROVE  IInv'
<1> DEFINE next == [Idle EXCEPT !.at = "deleting", !.docs = {d}]
<1>1. /\ next \in Request /\ ~Uploading(next) /\ next.at = "deleting"
      /\ next.docs = {d} /\ next.links = NoLinks
  BY IdleTyped DEF Idle, Request, Uploading
<1>2. /\ request' = [request EXCEPT ![r] = next]
      /\ d \in CseFiles
      /\ UNCHANGED << file, links, blobs, drawn, case, lost >>
  BY DEF StartDelete
<1> HIDE DEF next
<1>3. \A t \in ContentTypes : next.links[t] = Nothing
  BY <1>1, IdleTyped
<1>4. \A q \in Requests : Uploading(request[q]) =>
        /\ request[q].docs \intersect next.docs = {}
        /\ \A t \in ContentTypes : next.links[t] \notin request[q].docs
  BY <1>1, <1>2, <1>3, OpinionsApart, RequestTyped, NothingApart
<1>5. next.docs \subseteq drawn'
  BY <1>1, <1>2, OpinionsApart
<1>6. Lawful' /\ request' \in [Requests -> Request]
  BY <1>1, <1>2, <1>3, <1>4, <1>5, RequestMoves
<1>7. QED
  BY <1>2, <1>6 DEF IInv, TypeOK

(* Rows only go: what others discard, upload or link is none the worse.    *)
LEMMA RowsGone ==
  ASSUME IInv, NEW r \in Requests, NEW docs \in SUBSET Documents,
         Discarding(r, docs), UNCHANGED << blobs, drawn >>, docs \subseteq drawn,
         file' = [d \in Documents |-> IF d \in docs THEN Nothing ELSE file[d]],
         \A q \in Requests : q # r /\ Uploading(request[q]) =>
           request[q].docs \intersect docs = {}
  PROVE  /\ Lawful'
         /\ request' \in [Requests -> Request]
         /\ file' \in [Documents -> Flows \union {Nothing}]
<1>1. request' = [request EXCEPT ![r] = Dropping(docs)]
  BY DEF Discarding, Dropping
<1>2. \A d \in Documents : file'[d] # Nothing => d \in blobs /\ d \in drawn
  BY DEF IInv, Lawful, RowsStored
<1>3. \A q \in Requests : q # r =>
        /\ Uploading(request[q]) =>
             /\ request[q].docs \intersect docs = {}
             /\ \A d \in request[q].docs : file'[d] = Nothing
        /\ request[q].at = "discarding" =>
             \A d \in request[q].docs : file'[d] = Nothing
        /\ \A t \in ContentTypes : request[q].links[t] # Nothing =>
             file'[request[q].links[t]] \in {"cse_opinion", Nothing}
  <2> SUFFICES ASSUME NEW q \in Requests, q # r
               PROVE  /\ Uploading(request[q]) =>
                           /\ request[q].docs \intersect docs = {}
                           /\ \A d \in request[q].docs : file'[d] = Nothing
                      /\ request[q].at = "discarding" =>
                           \A d \in request[q].docs : file'[d] = Nothing
                      /\ \A t \in ContentTypes : request[q].links[t] # Nothing =>
                           file'[request[q].links[t]] \in {"cse_opinion", Nothing}
    OBVIOUS
  <2>1. \A d \in Documents : file[d] = Nothing => file'[d] = Nothing
    OBVIOUS
  <2>2. Uploading(request[q]) => \A d \in request[q].docs : file[d] = Nothing
    BY UploadAlone
  <2>3. request[q].at = "discarding" => \A d \in request[q].docs : file[d] = Nothing
    BY DEF IInv, Lawful, DroppedUnlisted
  <2>4. \A t \in ContentTypes : request[q].links[t] # Nothing =>
          /\ request[q].links[t] \in Documents
          /\ file[request[q].links[t]] \in {"cse_opinion", Nothing}
    BY RequestTyped DEF Links, IInv, Lawful, LinksOfOpinions
  <2>5. QED
    BY <2>1, <2>2, <2>3, <2>4, RequestTyped
<1>4. \A d \in docs : file'[d] = Nothing
  OBVIOUS
<1>5. QED
  BY <1>1, <1>2, <1>3, <1>4, RowsMove DEF IInv, TypeOK

LEMMA DeleteRowKeeps ==
  ASSUME IInv, NEW r \in Requests, DeleteRow(r)
  PROVE  IInv'
<1>1. /\ request[r].at = "deleting"
      /\ request[r].docs \in SUBSET Documents /\ request[r].docs \subseteq drawn
  BY RequestTyped DEF DeleteRow
<1>2. \A q \in Requests : q # r /\ Uploading(request[q]) =>
        request[q].docs \intersect request[r].docs = {}
  BY UploadAlone
<1>3. /\ Lawful'
      /\ request' \in [Requests -> Request]
      /\ file' \in [Documents -> Flows \union {Nothing}]
  BY <1>1, <1>2, RowsGone DEF DeleteRow
<1>4. /\ links' \in Links
      /\ \A t \in ContentTypes : links'[t] # Nothing =>
           links'[t] = links[t] /\ links[t] \notin request[r].docs
  BY DEF IInv, TypeOK, Links, DeleteRow
<1>5. \A t \in ContentTypes : links'[t] # Nothing => file'[links'[t]] = "cse_opinion"
  BY <1>4, CaseTyped DEF DeleteRow
<1>6. QED
  BY <1>3, <1>4, <1>5, CaseTyped DEF IInv, TypeOK, DeleteRow

LEMMA PurgeKeeps ==
  ASSUME IInv, NEW r \in Requests, Purge(r)
  PROVE  IInv'
<1> DEFINE docs == { d \in Documents : file[d] # Nothing }
<1>1. docs \in SUBSET Documents /\ docs \subseteq drawn
  BY DEF IInv, Lawful, RowsStored
<1>2. \A q \in Requests : Uploading(request[q]) => request[q].docs \intersect docs = {}
  BY UploadAlone
<1>3. /\ file' = [d \in Documents |-> IF d \in docs THEN Nothing ELSE file[d]]
      /\ Discarding(r, docs) /\ UNCHANGED << blobs, drawn >>
  BY DEF Purge
<1>4. /\ Lawful'
      /\ request' \in [Requests -> Request]
      /\ file' \in [Documents -> Flows \union {Nothing}]
  <2> HIDE DEF docs
  <2>1. QED
    BY <1>1, <1>2, <1>3, RowsGone
<1>5. case' \in Case /\ links' \in Links /\ \A t \in ContentTypes : links'[t] = Nothing
  BY IdleTyped DEF IInv, TypeOK, Case, Purge
<1>6. QED
  BY <1>4, <1>5 DEF IInv, TypeOK, Purge

(* What leaves the documents and the requests alone.                       *)
LEMMA CaseKeeps ==
  ASSUME IInv, UNCHANGED << file, blobs, drawn, request, lost >>,
         \/ \E sheet \in Sheets : SaveOpinions(sheet)
         \/ Finalize
         \/ \E required \in Requirements : Revise(required)
         \/ Age
         \/ UNCHANGED << links, case >>
  PROVE  IInv'
<1>1. Lawful'
  BY DEF IInv, Lawful, RowsStored, UploadsWhole, UploadsApart, DocsDrawn,
         DroppedUnlisted, LinksOfOpinions
<1>2. case' \in Case
  BY DEF IInv, TypeOK, Case, SaveOpinions, Finalize, Revise, Age
<1>3. links' \in Links /\ \A t \in ContentTypes : links'[t] # Nothing => links'[t] = links[t]
  BY DEF IInv, TypeOK, Links, SaveOpinions, Finalize, Revise, Age
<1>4. QED
  BY <1>1, <1>2, <1>3 DEF IInv, TypeOK

LEMMA InitInv == Init => IInv
<1> SUFFICES ASSUME Init PROVE IInv
  OBVIOUS
<1>1. case \in Case
  <2>1. PICK needed \in Requirements :
          case = [ required |-> needed, opinions |-> Nothing, draft |-> FALSE,
                   journal |-> FALSE, expired |-> FALSE ]
    BY DEF Init
  <2>2. QED
    BY <2>1 DEF Case
<1>2. TypeOK
  BY <1>1, IdleTyped DEF Init, TypeOK
<1>3. \A r \in Requests : /\ request[r].at = "idle" /\ request[r].docs = {}
                         /\ \A t \in ContentTypes : request[r].links[t] = Nothing
  BY IdleTyped DEF Init
<1>4. Lawful
  <2>1. RowsStored
    BY DEF Init, RowsStored
  <2>2. UploadsWhole /\ UploadsApart
    BY <1>3 DEF UploadsWhole, UploadsApart, Uploading
  <2>3. DocsDrawn /\ DroppedUnlisted /\ LinksOfOpinions
    BY <1>3 DEF DocsDrawn, DroppedUnlisted, LinksOfOpinions
  <2>4. QED
    BY <2>1, <2>2, <2>3 DEF Lawful
<1>5. QED
  BY <1>2, <1>4 DEF IInv

LEMMA NextInv ==
  ASSUME IInv, [Next]_vars
  PROVE  IInv'
<1>1. ASSUME NEW r \in Requests, Step(r) PROVE IInv'
  BY <1>1, StartUploadKeeps, RefuseKeeps, CompleteKeeps, CompleteUnheardKeeps,
     CommitRowKeeps, CommitRefusedKeeps, DiscardKeeps, DiscardFailsKeeps, CrashKeeps,
     StartLinkingKeeps, LinkKeeps, StartDeleteKeeps, DeleteRowKeeps, PurgeKeeps
  DEF Step
<1>2. CASE \/ \E sheet \in Sheets : SaveOpinions(sheet)
           \/ Finalize
           \/ \E required \in Requirements : Revise(required)
           \/ Age
  <2>1. UNCHANGED << file, blobs, drawn, request, lost >>
    BY <1>2 DEF SaveOpinions, Finalize, Revise, Age
  <2>2. QED
    BY <1>2, <2>1, CaseKeeps
<1>3. CASE UNCHANGED vars
  BY <1>3, CaseKeeps DEF vars
<1>4. QED
  BY <1>1, <1>2, <1>3 DEF Next

LEMMA Invariance == Spec => []IInv
<1>1. IInv /\ [Next]_vars => IInv'
  BY NextInv
<1>2. QED
  BY <1>1, InitInv, PTL DEF Spec

(* The tables, the bucket and the requests keep their types, and a link    *)
(* always names the row of a document of an opinion: commitFileRow,        *)
(* setFileContentTypes and deleteFile interleaved in any number, the       *)
(* foreign key of cse_opinion_file is never violated.                      *)
THEOREM Typing == Spec => []TypeOK
<1>1. IInv => TypeOK
  BY DEF IInv
<1>2. QED
  BY <1>1, Invariance, PTL
-----------------------------------------------------------------------------
(* The deposit implements the store of documents                           *)

(* The rows are listed and the blobs stored: every step of a request is a  *)
(* step of the abstract store, or none.                                    *)
LEMMA StepStores ==
  ASSUME IInv, NEW r \in Requests, Step(r)
  PROVE  Shelf!StoreNext \/ UNCHANGED << Listed, blobs, drawn >>
<1>1. ASSUME NEW flow \in Flows, NEW d \in Documents, StartUpload(r, flow, d)
      PROVE  Shelf!StoreNext
  <2>1. Shelf!Draw(d)
    BY <1>1 DEF StartUpload, Listed, Shelf!Draw
  <2>2. QED
    BY <2>1 DEF Shelf!StoreNext
<1>2. CASE Complete(r) \/ CompleteUnheard(r)
  <2>1. Uploading(request[r]) /\ request[r].docs \intersect Infected = {}
    BY <1>2 DEF Complete, CompleteUnheard, Uploading
  <2>2. PICK d \in Documents : request[r].docs = {d} /\ file[d] = Nothing
    BY <2>1, UploadAlone
  <2>3. d \in drawn /\ d \notin Infected /\ d \notin Listed
    BY <2>1, <2>2, RequestTyped DEF Listed
  <2>4. Shelf!Store(d)
    BY <1>2, <2>2, <2>3 DEF Complete, CompleteUnheard, Listed, Shelf!Store
  <2>5. QED
    BY <2>4 DEF Shelf!StoreNext
<1>3. CASE CommitRow(r)
  <2> DEFINE flow == request[r].flow
             replaced == IF flow = "cse_opinion" THEN {} ELSE OfType(flow)
  <2>1. Uploading(request[r]) /\ request[r].at = "stored"
    BY <1>3 DEF CommitRow, Uploading
  <2>2. PICK d \in Documents : request[r].docs = {d} /\ file[d] = Nothing /\ d \in blobs
    BY <2>1, UploadAlone
  <2>3. flow # Nothing
    BY <2>1, UploadAlone, NothingApart
  <2>4. /\ file' = [e \in Documents |->
                     IF e = d THEN flow ELSE IF e \in replaced THEN Nothing ELSE file[e]]
        /\ UNCHANGED << blobs, drawn >>
    BY <1>3, <2>2 DEF CommitRow
  <2>5. replaced \in SUBSET Documents
    BY DEF OfType
  <2> HIDE DEF flow, replaced
  <2>6. Listed' = (Listed \ replaced) \union {d}
    BY <2>2, <2>3, <2>4, <2>5 DEF Listed
  <2>7. Shelf!List(d, replaced)
    BY <2>2, <2>4, <2>6 DEF Shelf!List
  <2>8. QED
    BY <2>5, <2>7 DEF Shelf!StoreNext
<1>4. CASE Discard(r)
  <2>1. PICK d \in request[r].docs : blobs' = blobs \ {d}
    BY <1>4 DEF Discard
  <2>2. d \in Documents /\ d \notin Listed
    BY <1>4, RequestTyped DEF IInv, Lawful, DroppedUnlisted, Discard, Listed
  <2>3. Shelf!Discard(d)
    BY <1>4, <2>1, <2>2 DEF Discard, Listed, Shelf!Discard
  <2>4. QED
    BY <2>2, <2>3 DEF Shelf!StoreNext
<1>5. CASE DeleteRow(r)
  <2>1. Listed' = Listed \ request[r].docs
    BY <1>5 DEF DeleteRow, Listed
  <2>2. Shelf!Unlist(request[r].docs)
    BY <1>5, <2>1 DEF DeleteRow, Shelf!Unlist
  <2>3. QED
    BY <2>2, RequestTyped DEF Shelf!StoreNext
<1>6. CASE Purge(r)
  <2>1. Listed' = Listed \ Documents
    BY <1>6 DEF Purge, Listed
  <2>2. Shelf!Unlist(Documents)
    BY <1>6, <2>1 DEF Purge, Shelf!Unlist
  <2>3. QED
    BY <2>2 DEF Shelf!StoreNext
<1>7. CASE \/ Refuse(r) \/ CommitRefused(r) \/ DiscardFails(r) \/ Crash(r) \/ Link(r)
           \/ \E wanted \in Links : StartLinking(r, wanted)
           \/ \E d \in Documents : StartDelete(r, d)
  BY <1>7 DEF Refuse, CommitRefused, DiscardFails, Crash, Link, StartLinking, StartDelete, Listed
<1>8. QED
  BY <1>1, <1>2, <1>3, <1>4, <1>5, <1>6, <1>7 DEF Step

(* Whatever is interrupted, refused or lost, a row names an object that is *)
(* stored, that the antivirus has cleared and that no later request can    *)
(* overwrite: the object is stored before its row and goes after it.       *)
THEOREM Deposit == Spec => KeepsDocuments
<1>1. Init => Shelf!StoreInit
  BY DEF Init, Listed, Shelf!StoreInit
<1>2. IInv /\ [Next]_vars => [Shelf!StoreNext]_<< Listed, blobs, drawn >>
  <2> SUFFICES ASSUME IInv, [Next]_vars
               PROVE  Shelf!StoreNext \/ UNCHANGED << Listed, blobs, drawn >>
    OBVIOUS
  <2>1. CASE \E r \in Requests : Step(r)
    BY <2>1, StepStores
  <2>2. CASE \/ \E sheet \in Sheets : SaveOpinions(sheet)
             \/ Finalize
             \/ \E required \in Requirements : Revise(required)
             \/ Age
             \/ UNCHANGED vars
    BY <2>2 DEF SaveOpinions, Finalize, Revise, Age, vars, Listed
  <2>3. QED
    BY <2>1, <2>2 DEF Next
<1>3. QED
  BY <1>1, <1>2, Invariance, PTL DEF Spec, KeepsDocuments, Shelf!StoreSpec
-----------------------------------------------------------------------------
(* What is shown                                                           *)

(* A step that leaves the draft marker alone touches no document of an     *)
(* opinion, no link and no opinion.                                        *)
LEMMA ShownKept ==
  ASSUME IInv, NEW r \in Requests, Step(r), case'.journal, ~case'.draft
  PROVE  UNCHANGED << CseFiles, links, case >>
<1>1. Drafted => case'.draft
  BY DEF IInv, TypeOK, Case, Drafted
<1>2. CASE CommitRow(r)
  <2> DEFINE flow == request[r].flow
             replaced == IF flow = "cse_opinion" THEN {} ELSE OfType(flow)
  <2>1. Uploading(request[r])
    BY <1>2 DEF CommitRow, Uploading
  <2>2. PICK d \in Documents : request[r].docs = {d} /\ file[d] = Nothing
    BY <2>1, UploadAlone
  <2>3. /\ flow # "cse_opinion" /\ UNCHANGED << links, case >>
        /\ file' = [e \in Documents |->
                     IF e = d THEN flow ELSE IF e \in replaced THEN Nothing ELSE file[e]]
    BY <1>1, <1>2, <2>2 DEF CommitRow
  <2>4. \A e \in replaced : file[e] # "cse_opinion"
    BY <2>3 DEF OfType
  <2> HIDE DEF flow, replaced
  <2>5. UNCHANGED CseFiles
    BY <2>2, <2>3, <2>4, NothingApart DEF CseFiles, OfType
  <2>6. QED
    BY <2>3, <2>5
<1>3. CASE Link(r)
  BY <1>1, <1>3 DEF Link, CseFiles, OfType
<1>4. ~DeleteRow(r)
  BY <1>1 DEF DeleteRow
<1>5. ~Purge(r)
  BY DEF IInv, TypeOK, Case, Purge
<1>6. CASE \/ \E flow \in Flows, d \in Documents : StartUpload(r, flow, d)
           \/ Refuse(r) \/ Complete(r) \/ CompleteUnheard(r) \/ CommitRefused(r)
           \/ Discard(r) \/ DiscardFails(r) \/ Crash(r)
           \/ \E wanted \in Links : StartLinking(r, wanted)
           \/ \E d \in Documents : StartDelete(r, d)
  BY <1>6 DEF StartUpload, Refuse, Complete, CompleteUnheard, CommitRefused, Discard,
     DiscardFails, Crash, StartLinking, StartDelete, CseFiles, OfType
<1>7. QED
  BY <1>2, <1>3, <1>4, <1>5, <1>6 DEF Step

(* An opinion still shown as transmitted after a step has not changed, nor *)
(* its documents, nor what each is about: commitFileRow, deleteFile,       *)
(* setFileContentTypes and saveOpinions all mark it in their transaction.  *)
THEOREM Sent == Spec => ShownAsSent
<1>1. IInv /\ [Next]_vars =>
        [Shown /\ Shown' => UNCHANGED << CseFiles, links, case.opinions >>]_vars
  <2> SUFFICES ASSUME IInv, [Next]_vars, Shown, Shown'
               PROVE  UNCHANGED << CseFiles, links, case.opinions >>
    OBVIOUS
  <2>1. case'.journal /\ ~case'.draft
    BY DEF Shown
  <2>2. CASE \E r \in Requests : Step(r)
    BY <2>1, <2>2, ShownKept
  <2>3. ~ \E sheet \in Sheets : SaveOpinions(sheet)
    BY <2>1 DEF IInv, TypeOK, Case, SaveOpinions
  <2>4. CASE Finalize
    BY <2>4 DEF IInv, TypeOK, Case, Finalize, CseFiles, OfType
  <2>5. CASE Age
    BY <2>5 DEF IInv, TypeOK, Case, Age, CseFiles, OfType
  <2>6. ~ \E required \in Requirements : Revise(required)
    BY DEF Revise, Shown
  <2>7. CASE UNCHANGED vars
    BY <2>7 DEF vars, CseFiles, OfType
  <2>8. QED
    BY <2>2, <2>3, <2>4, <2>5, <2>6, <2>7 DEF Next
<1>2. QED
  BY <1>1, Invariance, PTL DEF Spec, ShownAsSent

(* An opinion shown as transmitted has a document for every content type   *)
(* the council was asked about, and no document without one: what finalize *)
(* checked is still so after any later edit, upload or deletion.           *)
THEOREM Completeness == Spec => []ShownIsComplete
<1>1. Init => ShownIsComplete
  BY DEF Init, ShownIsComplete, Shown
<1>2. IInv /\ ShownIsComplete /\ [Next]_vars => ShownIsComplete'
  <2> SUFFICES ASSUME IInv, ShownIsComplete, [Next]_vars, Shown'
               PROVE  /\ case'.required \subseteq Covered'
                      /\ CseFiles' # {}
                      /\ CseFiles' = Linked'
    BY DEF ShownIsComplete
  <2>1. case'.journal /\ ~case'.draft
    BY DEF Shown
  <2>2. CASE UNCHANGED << CseFiles, links, case >>
    BY <2>2 DEF ShownIsComplete, Shown, Covered, Linked
  <2>3. CASE \E r \in Requests : Step(r)
    BY <2>1, <2>2, <2>3, ShownKept
  <2>4. CASE Finalize
    <3>1. Linked \subseteq CseFiles
      BY CaseTyped DEF Linked, CseFiles, OfType
    <3>2. /\ case.required \subseteq Covered /\ CseFiles # {} /\ CseFiles \subseteq Linked
          /\ case'.required = case.required /\ UNCHANGED << file, links >>
      BY <2>4 DEF IInv, TypeOK, Case, Finalize
    <3>3. QED
      BY <3>1, <3>2 DEF Covered, Linked, CseFiles, OfType
  <2>5. ~ \E sheet \in Sheets : SaveOpinions(sheet)
    BY <2>1 DEF IInv, TypeOK, Case, SaveOpinions
  <2>6. ~ \E required \in Requirements : Revise(required)
    BY <2>1 DEF IInv, TypeOK, Case, Revise
  <2>7. CASE Age
    BY <2>1, <2>7 DEF IInv, TypeOK, Case, Age, ShownIsComplete, Shown, Covered, Linked,
       CseFiles, OfType
  <2>8. CASE UNCHANGED vars
    BY <2>2, <2>8 DEF vars, CseFiles, OfType
  <2>9. QED
    BY <2>3, <2>4, <2>5, <2>6, <2>7, <2>8 DEF Next
<1>3. QED
  BY <1>1, <1>2, Invariance, PTL DEF Spec
-----------------------------------------------------------------------------
(* The quota                                                               *)

LEMMA QuotaTyped ==
  ASSUME IInv
  PROVE  /\ IsFiniteSet(CseFiles) /\ Cardinality(CseFiles) \in Nat
         /\ CseFileQuota \in Nat
<1>1. IsFiniteSet(CseFiles)
  BY FileDepositAssumption, FS_Subset DEF CseFiles, OfType
<1>2. case.required \in SUBSET ContentTypes
  BY FileDepositAssumption DEF IInv, TypeOK, Case
<1>3. IsFiniteSet(case.required)
  BY <1>2, FileDepositAssumption, FS_Subset
<1>4. Cardinality(CseFiles) \in Nat /\ Cardinality(case.required) \in Nat
  BY <1>1, <1>3, FS_CardinalityType
<1>5. QED
  BY <1>1, <1>4, FileDepositAssumption DEF CseFileQuota

(* Any number of uploads that found room before they were streamed add no  *)
(* document of an opinion beyond the quota: commitFileRow counts again.    *)
THEOREM Quota == Spec => AddedWithinQuota
<1>1. IInv /\ [Next]_vars =>
        [CseFiles' \subseteq CseFiles \/ Cardinality(CseFiles') <= CseFileQuota]_vars
  <2> SUFFICES ASSUME IInv, [Next]_vars
               PROVE  CseFiles' \subseteq CseFiles \/ Cardinality(CseFiles') <= CseFileQuota
    OBVIOUS
  <2>1. ASSUME NEW r \in Requests, CommitRow(r)
        PROVE  CseFiles' \subseteq CseFiles \/ Cardinality(CseFiles') <= CseFileQuota
    <3> DEFINE flow == request[r].flow
               replaced == IF flow = "cse_opinion" THEN {} ELSE OfType(flow)
    <3>1. Uploading(request[r])
      BY <2>1 DEF CommitRow, Uploading
    <3>2. PICK d \in Documents : request[r].docs = {d} /\ file[d] = Nothing
      BY <3>1, UploadAlone
    <3>3. file' = [e \in Documents |->
                    IF e = d THEN flow ELSE IF e \in replaced THEN Nothing ELSE file[e]]
      BY <2>1, <3>2 DEF CommitRow
    <3>4. CASE flow = "cse_opinion"
      <4>1. HasRoom /\ replaced = {}
        BY <2>1, <3>4 DEF CommitRow
      <4> HIDE DEF flow, replaced
      <4>2. CseFiles' = CseFiles \union {d}
        BY <3>2, <3>3, <3>4, <4>1 DEF CseFiles, OfType
      <4>3. d \notin CseFiles
        BY <3>2, NothingApart DEF CseFiles, OfType
      <4>4. Cardinality(CseFiles') = Cardinality(CseFiles) + 1
        BY <4>2, <4>3, QuotaTyped, FS_AddElement
      <4>5. QED
        BY <4>1, <4>4, QuotaTyped DEF HasRoom
    <3>5. CASE flow # "cse_opinion"
      <4> HIDE DEF flow, replaced
      <4>1. QED
        BY <3>3, <3>5, NothingApart DEF CseFiles, OfType
    <3>6. QED
      BY <3>4, <3>5
  <2>2. ASSUME NEW r \in Requests, DeleteRow(r) \/ Purge(r)
        PROVE  CseFiles' \subseteq CseFiles
    BY <2>2, NothingApart DEF DeleteRow, Purge, CseFiles, OfType
  <2>3. ASSUME UNCHANGED file
        PROVE  CseFiles' \subseteq CseFiles
    BY <2>3 DEF CseFiles, OfType
  <2>4. QED
    BY <2>1, <2>2, <2>3 DEF Next, Step, vars, StartUpload, Refuse, Complete,
       CompleteUnheard, CommitRefused, Discard, DiscardFails, Crash, StartLinking,
       Link, StartDelete, SaveOpinions, Finalize, Revise, Age
<1>2. QED
  BY <1>1, Invariance, PTL DEF Spec, AddedWithinQuota
-----------------------------------------------------------------------------
(* The objects without a row                                               *)

Held(q) == q.at \in {"stored", "discarding"}

LEMMA OrphansByObject ==
  OrphansExplained <=>
    \A d \in blobs : \/ d \in Listed
                     \/ \E q \in Requests : Held(request[q]) /\ d \in request[q].docs
                     \/ d \in lost
BY DEF OrphansExplained, InHand, Held

(* What a step owes an object: it is still explained, or it is gone.       *)
LEMMA OrphansKept ==
  ASSUME IInv, OrphansExplained, NEW r \in Requests, IInv',
         \A q \in Requests : q # r => request'[q] = request[q],
         lost \subseteq lost',
         \A d \in blobs' \ blobs :
           d \in lost' \/ (Held(request'[r]) /\ d \in request'[r].docs),
         Held(request[r]) => \A d \in request[r].docs :
           \/ d \notin blobs' \/ d \in lost' \/ d \in Listed'
           \/ Held(request'[r]) /\ d \in request'[r].docs,
         \A d \in Listed \ Listed' : Held(request'[r]) /\ d \in request'[r].docs
  PROVE  OrphansExplained'
<1>1. SUFFICES ASSUME NEW d \in blobs'
               PROVE  \/ d \in Listed'
                      \/ \E q \in Requests : Held(request'[q]) /\ d \in request'[q].docs
                      \/ d \in lost'
  BY DEF OrphansExplained, InHand, Held
<1>2. CASE d \notin blobs
  BY <1>2
<1>3. CASE d \in blobs
  <2>1. CASE d \in Listed
    BY <2>1
  <2>2. ASSUME NEW q \in Requests, Held(request[q]), d \in request[q].docs
        PROVE  \/ d \in Listed'
               \/ \E p \in Requests : Held(request'[p]) /\ d \in request'[p].docs
               \/ d \in lost'
    BY <2>2
  <2>3. CASE d \in lost
    BY <2>3
  <2>4. QED
    BY <1>3, <2>1, <2>2, <2>3, OrphansByObject
<1>4. QED
  BY <1>2, <1>3

(* A step of a request leaves the others where they are.                   *)
LEMMA OthersStay ==
  ASSUME IInv, NEW r \in Requests, NEW next \in Request,
         request' = [request EXCEPT ![r] = next]
  PROVE  /\ request'[r] = next
         /\ \A q \in Requests : q # r => request'[q] = request[q]
BY DEF IInv, TypeOK

LEMMA DroppingHolds ==
  ASSUME NEW docs \in SUBSET Documents
  PROVE  \A d \in docs : Held(Dropping(docs)) /\ d \in Dropping(docs).docs
BY DroppingTyped DEF Held

LEMMA StepOrphans ==
  ASSUME IInv, IInv', OrphansExplained, NEW r \in Requests, Step(r)
  PROVE  OrphansExplained'
<1>1. ASSUME NEW flow \in Flows, NEW d \in Documents, StartUpload(r, flow, d)
      PROVE  OrphansExplained'
  <2>1. /\ ~Held(request[r])
        /\ \A q \in Requests : q # r => request'[q] = request[q]
    BY <1>1 DEF StartUpload, Held, IInv, TypeOK
  <2>2. QED
    BY <1>1, <2>1, OrphansKept DEF StartUpload, Listed
<1>2. CASE Refuse(r)
  <2>1. /\ ~Held(request[r])
        /\ \A q \in Requests : q # r => request'[q] = request[q]
    BY <1>2 DEF Refuse, Finish, Held, IInv, TypeOK
  <2>2. QED
    BY <1>2, <2>1, OrphansKept DEF Refuse, Listed
<1>3. CASE Complete(r)
  <2> DEFINE next == [request[r] EXCEPT !.at = "stored"]
  <2>1. next \in Request /\ next.docs = request[r].docs /\ Held(next)
    BY RequestTyped DEF Request, Held
  <2>2. /\ request'[r] = next
        /\ \A q \in Requests : q # r => request'[q] = request[q]
    BY <1>3, <2>1, OthersStay DEF Complete, Goto
  <2> HIDE DEF next
  <2>3. ~Held(request[r])
    BY <1>3 DEF Complete, Held
  <2>4. QED
    BY <1>3, <2>1, <2>2, <2>3, OrphansKept DEF Complete, Listed
<1>4. CASE CompleteUnheard(r)
  <2>1. /\ ~Held(request[r])
        /\ \A q \in Requests : q # r => request'[q] = request[q]
    BY <1>4 DEF CompleteUnheard, Finish, Held, IInv, TypeOK
  <2>2. QED
    BY <1>4, <2>1, OrphansKept DEF CompleteUnheard, Listed
<1>5. CASE CommitRow(r)
  <2> DEFINE flow == request[r].flow
             replaced == IF flow = "cse_opinion" THEN {} ELSE OfType(flow)
  <2>1. /\ request' = [request EXCEPT ![r] = Dropping(replaced)]
        /\ replaced \in SUBSET Documents
    BY <1>5 DEF CommitRow, Discarding, Dropping, OfType
  <2>2. Uploading(request[r])
    BY <1>5 DEF CommitRow, Uploading
  <2>3. PICK d \in Documents : request[r].docs = {d} /\ file[d] = Nothing
    BY <2>2, UploadAlone
  <2>4. /\ file' = [e \in Documents |->
                     IF e = d THEN flow ELSE IF e \in replaced THEN Nothing ELSE file[e]]
        /\ UNCHANGED << blobs, lost >> /\ flow # Nothing
    BY <1>5, <2>2, <2>3, UploadAlone, NothingApart DEF CommitRow
  <2> HIDE DEF flow, replaced
  <2>5. /\ request'[r] = Dropping(replaced)
        /\ \A q \in Requests : q # r => request'[q] = request[q]
    BY <2>1, DroppingTyped, OthersStay
  <2>6. d \in Listed' /\ Listed \ Listed' \subseteq replaced
    BY <2>3, <2>4 DEF Listed
  <2>7. QED
    BY <2>1, <2>3, <2>4, <2>5, <2>6, DroppingHolds, OrphansKept
<1>6. CASE CommitRefused(r)
  <2>1. request' = [request EXCEPT ![r] = Dropping(request[r].docs)]
    BY <1>6 DEF CommitRefused, Discarding, Dropping
  <2>2. /\ request'[r] = Dropping(request[r].docs)
        /\ \A q \in Requests : q # r => request'[q] = request[q]
    BY <2>1, RequestTyped, DroppingTyped, OthersStay
  <2>3. QED
    BY <1>6, <2>2, RequestTyped, DroppingHolds, OrphansKept DEF CommitRefused, Listed
<1>7. CASE Discard(r) \/ DiscardFails(r)
  <2>1. PICK d \in request[r].docs :
          /\ request' = [request EXCEPT ![r] = Dropping(request[r].docs \ {d})]
          /\ \/ blobs' = blobs \ {d} /\ UNCHANGED lost
             \/ lost' = lost \union {d} /\ UNCHANGED blobs
    BY <1>7 DEF Discard, DiscardFails, Discarding, Dropping
  <2>2. /\ request'[r] = Dropping(request[r].docs \ {d})
        /\ \A q \in Requests : q # r => request'[q] = request[q]
    BY <2>1, RequestTyped, DroppingTyped, OthersStay
  <2>3. \A e \in request[r].docs \ {d} : Held(request'[r]) /\ e \in request'[r].docs
    BY <2>2, RequestTyped, DroppingHolds
  <2>4. UNCHANGED Listed
    BY <1>7 DEF Discard, DiscardFails, Listed
  <2>5. QED
    BY <2>1, <2>2, <2>3, <2>4, OrphansKept
<1>8. CASE Crash(r)
  <2>1. \A q \in Requests : q # r => request'[q] = request[q]
    BY <1>8 DEF Crash, Finish, IInv, TypeOK
  <2>2. /\ Held(request[r]) => request[r].docs \subseteq lost'
        /\ lost \subseteq lost'
    BY <1>8 DEF Crash, Held
  <2>3. QED
    BY <1>8, <2>1, <2>2, OrphansKept DEF Crash, Listed
<1>9. CASE DeleteRow(r)
  <2>1. /\ request' = [request EXCEPT ![r] = Dropping(request[r].docs)]
        /\ ~Held(request[r])
    BY <1>9 DEF DeleteRow, Discarding, Dropping, Held
  <2>2. /\ request'[r] = Dropping(request[r].docs)
        /\ \A q \in Requests : q # r => request'[q] = request[q]
    BY <2>1, RequestTyped, DroppingTyped, OthersStay
  <2>3. Listed \ Listed' \subseteq request[r].docs
    BY <1>9 DEF DeleteRow, Listed
  <2>4. QED
    BY <1>9, <2>1, <2>2, <2>3, RequestTyped, DroppingHolds, OrphansKept DEF DeleteRow
<1>10. CASE Purge(r)
  <2>1. /\ request' = [request EXCEPT ![r] = Dropping(Listed)]
        /\ ~Held(request[r]) /\ Listed \in SUBSET Documents
    BY <1>10 DEF Purge, Discarding, Dropping, Held, Listed
  <2>2. /\ request'[r] = Dropping(Listed)
        /\ \A q \in Requests : q # r => request'[q] = request[q]
    BY <2>1, DroppingTyped, OthersStay
  <2>3. QED
    BY <1>10, <2>1, <2>2, DroppingHolds, OrphansKept DEF Purge
<1>11. CASE Link(r)
  <2>1. /\ ~Held(request[r])
        /\ \A q \in Requests : q # r => request'[q] = request[q]
    BY <1>11 DEF Link, Finish, Held, IInv, TypeOK
  <2>2. QED
    BY <1>11, <2>1, OrphansKept DEF Link, Listed
<1>12. CASE \/ \E wanted \in Links : StartLinking(r, wanted)
            \/ \E d \in Documents : StartDelete(r, d)
  <2>1. /\ ~Held(request[r])
        /\ \A q \in Requests : q # r => request'[q] = request[q]
    BY <1>12 DEF StartLinking, StartDelete, Held, IInv, TypeOK
  <2>2. QED
    BY <1>12, <2>1, OrphansKept DEF StartLinking, StartDelete, Listed
<1>13. QED
  BY <1>1, <1>2, <1>3, <1>4, <1>5, <1>6, <1>7, <1>8, <1>9, <1>10, <1>11, <1>12 DEF Step

(* An object without a row is being listed or deleted by a request, or was *)
(* lost to a fault: no refusal, no race of two uploads and no replacement  *)
(* by itself leaves an object behind.                                      *)
THEOREM Orphans == Spec => []OrphansExplained
<1>1. Init => OrphansExplained
  BY DEF Init, OrphansExplained
<1>2. IInv /\ OrphansExplained /\ [Next]_vars => OrphansExplained'
  <2> SUFFICES ASSUME IInv, OrphansExplained, [Next]_vars
               PROVE  OrphansExplained'
    OBVIOUS
  <2>1. CASE \E r \in Requests : Step(r)
    BY <2>1, NextInv, StepOrphans
  <2>2. CASE \/ \E sheet \in Sheets : SaveOpinions(sheet)
             \/ Finalize
             \/ \E required \in Requirements : Revise(required)
             \/ Age
             \/ UNCHANGED vars
    BY <2>2 DEF SaveOpinions, Finalize, Revise, Age, vars, OrphansExplained, Listed, InHand
  <2>3. QED
    BY <2>1, <2>2 DEF Next
<1>3. QED
  BY <1>1, <1>2, Invariance, PTL DEF Spec
=============================================================================
