--------------------------- MODULE DocumentStore ---------------------------
(***************************************************************************)
(* What the deposit of documents promises, whatever the requests, faults   *)
(* and crashes on the way: the table `files` lists documents that the      *)
(* object store holds, the antivirus has cleared every object that was     *)
(* ever stored, and an identifier is used for one document only.           *)
(***************************************************************************)
CONSTANTS
  Documents,  (* the identifiers of documents                              *)
  Infected    (* those whose content the antivirus refuses                 *)

VARIABLES
  listed,   (* the documents the database lists                            *)
  stored,   (* the documents the object store holds                        *)
  drawn     (* the identifiers already used                                *)

StoreInit == listed = {} /\ stored = {} /\ drawn = {}

Draw(d) ==
  /\ d \notin drawn
  /\ drawn' = drawn \union {d}
  /\ UNCHANGED << listed, stored >>

Store(d) ==
  /\ d \in drawn \ (Infected \union listed)
  /\ stored' = stored \union {d}
  /\ UNCHANGED << listed, drawn >>

(* Listing a document may take others off the list: those it replaces. *)
List(d, replaced) ==
  /\ d \in stored
  /\ listed' = (listed \ replaced) \union {d}
  /\ UNCHANGED << stored, drawn >>

Unlist(gone) ==
  /\ listed' = listed \ gone
  /\ UNCHANGED << stored, drawn >>

Discard(d) ==
  /\ d \notin listed
  /\ stored' = stored \ {d}
  /\ UNCHANGED << listed, drawn >>

StoreNext ==
  \/ \E d \in Documents : Draw(d) \/ Store(d) \/ Discard(d)
  \/ \E d \in Documents, others \in SUBSET Documents : List(d, others)
  \/ \E gone \in SUBSET Documents : Unlist(gone)

StoreSpec == StoreInit /\ [][StoreNext]_<< listed, stored, drawn >>
=============================================================================
