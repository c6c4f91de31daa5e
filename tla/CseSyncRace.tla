---------------------------- MODULE CseSyncRace ----------------------------
(***************************************************************************)
(* Transactions on one active declaration, split where they can interleave.*)
(* The routers' mutations take pg_advisory_xact_lock on the declaration,   *)
(* read its row and the company, ask the engine and commit.  The           *)
(* realignment of the CSE requirement (company.updateHasCse and the batch  *)
(* after a GIP import) reads the same row and writes it back without that  *)
(* lock.  Demarche has each of them as one step; here they overlap.        *)
(*                                                                         *)
(* The mutations kept are submit, saveCompliancePath for the two round-1   *)
(* paths that need no second declaration, submitJointEvaluation and the    *)
(* CSE opinion's finalize: enough to enter, revise and leave every status  *)
(* in which a realignment acts.                                            *)
(***************************************************************************)
EXTENDS RulesEngine

CONSTANTS
  Workers,   (* requests that mutate the démarche at the same time          *)
  Syncs,     (* realignments at the same time                               *)
  MaxTime    (* bound on the journal writes                                 *)

ASSUME RaceAssumption == MaxTime \in Nat

VARIABLES
  row,      (* declarations: status, CSE snapshot and round-1 choice        *)
  journal,  (* declaration_status_history, dated by rank                    *)
  clock,
  hasCse,   (* companies.has_cse = true                                     *)
  above,    (* GIP workforce >= 100                                         *)
  tx,       (* per worker: idle, or the decision it is about to commit      *)
  sync      (* per realignment: idle, or how far it is                      *)

company == << hasCse, above >>
vars    == << row, journal, clock, company, tx, sync >>

Idle == [ phase |-> "idle" ]

Row == [ status : Status, cseRequired : BOOLEAN, first : Path \union {None} ]

Decision ==
  [ phase : {"decided"}, read : Status, to : Status, events : SUBSET Event,
    cseRequired : BOOLEAN, snapshot : BOOLEAN ]

Sync ==
  {Idle} \union [ phase : {"imported"} ]
         \union [ phase : {"answered"}, hasCse : BOOLEAN, above : BOOLEAN ]
         \union [ phase : {"refresh-snapshot", "release"}, required : BOOLEAN ]

TypeOK ==
  /\ row \in Row
  /\ journal \subseteq [ type : EventType, value : Path \union {None},
                         round : 0..2, at : 1..MaxTime ]
  /\ clock \in 0..MaxTime
  /\ hasCse \in BOOLEAN /\ above \in BOOLEAN
  /\ tx \in [Workers -> {Idle} \union Decision]
  /\ sync \in [Syncs -> Sync]

Init ==
  /\ row = [ status |-> "draft", cseRequired |-> FALSE, first |-> None ]
  /\ journal = {}
  /\ clock = 0
  /\ hasCse \in BOOLEAN
  /\ above \in BOOLEAN
  /\ tx = [w \in Workers |-> Idle]
  /\ sync = [s \in Syncs |-> Idle]

FactsOfRow ==
  [ currentState |-> row.status, cseRequired |-> row.cseRequired,
    first |-> row.first, second |-> None, opinion1 |-> None, opinion2 |-> None ]

Dated(events) ==
  { [ type |-> e.type, value |-> e.value, round |-> e.round, at |-> clock + 1 ] :
      e \in events }

Record(events) ==
  /\ clock < MaxTime
  /\ clock'   = clock + 1
  /\ journal' = journal \union Dated(events)

-----------------------------------------------------------------------------
(* Transactions under the advisory lock                                    *)

(* Mutant: without the advisory lock.                                      *)
UnlockedAnyway(w) == tx[w].phase = "idle"

(* pg_advisory_xact_lock: granted when no transaction under it is open.    *)
Unlocked(w) == \A v \in Workers : tx[v].phase = "idle"

(* lockAndReadDeclaration, the engine's answer, and what will be written.  *)
(* A snapshot of the CSE requirement is written by submit only.            *)
Decide(w, moves, snapshot, cseRequired) ==
  /\ Unlocked(w)
  /\ \E move \in moves :
       tx' = [tx EXCEPT ![w] =
                [ phase |-> "decided", read |-> row.status,
                  to |-> move.to, events |-> move.events,
                  snapshot |-> snapshot, cseRequired |-> cseRequired ]]
  /\ UNCHANGED << row, journal, clock, company, sync >>

Submit(w, gap) ==
  /\ ~FirstDeclarationSuperseded(journal)
  /\ Decide(w, SubmitMoves(row.status, above, hasCse, TRUE, gap),
            TRUE, CseRequired(above, hasCse))

SaveCompliancePath(w, path) ==
  /\ ~PathChoiceLocked(journal, 1)
  /\ Decide(w, ChoosePathMoves(FactsOfRow, path), FALSE, FALSE)

SubmitJointEvaluation(w) ==
  Decide(w, JointEvaluationMoves(FactsOfRow), FALSE, FALSE)

FinalizeCseOpinion(w) ==
  Decide(w, CseOpinionMoves(FactsOfRow), FALSE, FALSE)

(* The insert into the journal, the update of the row and the commit, which*)
(* releases the lock.                                                      *)
Commit(w) ==
  /\ tx[w].phase = "decided"
  /\ Record(tx[w].events)
  /\ row' = [row EXCEPT
               !.status      = tx[w].to,
               !.first       = ProjectedChoice(tx[w].events, 1, @),
               !.cseRequired = IF tx[w].snapshot THEN tx[w].cseRequired ELSE @]
  /\ tx' = [tx EXCEPT ![w] = Idle]
  /\ UNCHANGED << company, sync >>

(* A failed statement or a lost connection rolls everything back.          *)
Abort(w) ==
  /\ tx[w].phase = "decided"
  /\ tx' = [tx EXCEPT ![w] = Idle]
  /\ UNCHANGED << row, journal, clock, company, sync >>

-----------------------------------------------------------------------------
(* Realignments, outside the lock                                          *)

Resolved(h, a) ==
  LET required == CseRequired(a, h)
      outcome  == Reconciliation(row.status, row.cseRequired, required)
  IN IF outcome = "none"
     THEN Idle
     ELSE [ phase |-> outcome, required |-> required ]

(* updateHasCse: the answer is stored first ...                            *)
Answer(s, answer) ==
  /\ sync[s] = Idle
  /\ above
  /\ hasCse' = answer
  /\ sync' = [sync EXCEPT ![s] =
                [ phase |-> "answered", hasCse |-> answer, above |-> above ]]
  /\ UNCHANGED << row, journal, clock, above, tx >>

(* ... then syncCseRequirement reads the row.                              *)
ReadAnswered(s) ==
  /\ sync[s].phase = "answered"
  /\ sync' = [sync EXCEPT ![s] = Resolved(@.hasCse, @.above)]
  /\ UNCHANGED << row, journal, clock, company, tx >>

(* The import commits its headcounts, then realigns the year.              *)
ImportGip(s, headcount) ==
  /\ sync[s] = Idle
  /\ above' = headcount
  /\ sync'  = [sync EXCEPT ![s] = [ phase |-> "imported" ]]
  /\ UNCHANGED << row, journal, clock, hasCse, tx >>

(* reconcileCseRequirementForYear selects the rows that claim an opinion.  *)
ReadImported(s) ==
  /\ sync[s].phase = "imported"
  /\ sync' = [sync EXCEPT ![s] =
                IF row.cseRequired THEN Resolved(hasCse, above) ELSE Idle]
  /\ UNCHANGED << row, journal, clock, company, tx >>

RefreshSnapshot(s) ==
  /\ sync[s].phase = "refresh-snapshot"
  /\ row'  = [row EXCEPT !.cseRequired = sync[s].required]
  /\ sync' = [sync EXCEPT ![s] = Idle]
  /\ UNCHANGED << journal, clock, company, tx >>

(* The transition was asked of the status that was read.                   *)
Release(s) ==
  /\ sync[s].phase = "release"
  /\ \E move \in SyncMoves("awaiting_cse_opinion", sync[s].required) :
       /\ Record(move.events)
       /\ row' = [row EXCEPT !.status = move.to, !.cseRequired = sync[s].required]
  /\ sync' = [sync EXCEPT ![s] = Idle]
  /\ UNCHANGED << company, tx >>

Next ==
  \/ \E w \in Workers :
       \/ \E gap \in BOOLEAN : Submit(w, gap)
       \/ \E path \in {"justify", "joint_evaluation"} : SaveCompliancePath(w, path)
       \/ SubmitJointEvaluation(w)
       \/ FinalizeCseOpinion(w)
       \/ Commit(w)
       \/ Abort(w)
  \/ \E s \in Syncs :
       \/ \E answer \in BOOLEAN : Answer(s, answer)
       \/ ReadAnswered(s)
       \/ \E headcount \in BOOLEAN : ImportGip(s, headcount)
       \/ ReadImported(s)
       \/ RefreshSnapshot(s)
       \/ Release(s)

Spec == Init /\ [][Next]_vars

-----------------------------------------------------------------------------
(* Properties                                                              *)

(* What a transaction read under the advisory lock is still there when it  *)
(* commits: of all the writers only a realignment may have come between,   *)
(* and all it does to a status is to complete the démarche.                *)
ReadStaysValid ==
  \A w \in Workers :
    tx[w].phase = "decided" => row.status \in {tx[w].read, "demarche_completed"}

(* Two requests at once (a double click, two tabs of one user) transmit    *)
(* the declaration, or the joint evaluation, once.                         *)
TransmittedOnce ==
  \A e, f \in journal :
    e.type = f.type /\ e.type \in {"submit", "joint_evaluation_submit"} => e = f

(* The comments of updateHasCse and syncCseRequirement: the snapshot is    *)
(* realigned, otherwise a démarche parked on the CSE step could never      *)
(* complete once the answer is "no CSE".  So when nothing is under way, a  *)
(* parked démarche owes an opinion.                                        *)
Settled == /\ \A w \in Workers : tx[w] = Idle
           /\ \A s \in Syncs : sync[s] = Idle

SettledParkedOwes ==
  Settled /\ row.status = "awaiting_cse_opinion" => CseRequired(above, hasCse)

=============================================================================
