----------------------------- MODULE ConfigSync -----------------------------
(***************************************************************************)
(* The Odoo side of a configuration deploy: the configuration records, the *)
(* company's sync fields, the version parameter, and the transaction in    *)
(* which a user's Sync generates and publishes the files.                  *)
(*                                                                         *)
(* Odoo runs each request in a REPEATABLE READ transaction.  The version   *)
(* parameter is written before the message is published, so its row lock   *)
(* lets one sync be past that point at a time: txn is that one.  The       *)
(* message leaves for the broker at once, not at the commit.  A commit     *)
(* whose company row was changed under it fails, is rolled back and is     *)
(* started over by Odoo with a fresh snapshot.                             *)
(***************************************************************************)
EXTENDS ConfigBus

CONSTANTS
  MaxEdits,       (* bound: edits of the configuration                     *)
  MaxSyncs,       (* bound: messages published                             *)
  LegacyVersion   (* version already deployed when the parameter is unset  *)

ASSUME SyncAssumption == MaxEdits \in Nat /\ MaxSyncs \in Nat /\ LegacyVersion \in Nat

VARIABLES
  db,        (* committed content the generator would produce              *)
  edits,     (* number of the latest edit                                  *)
  company,   (* res.company: dirty, version, applied, error                *)
  icp,       (* ir.config_parameter pbx.config.version.<domain>            *)
  txn        (* the sync transaction past its snapshot, or NoTxn           *)

syncVars == <<db, edits, company, icp, txn>>

Company == [dirty : BOOLEAN, version : Nat, applied : Nat, error : BOOLEAN]
Stage == {"none", "generated", "sent", "unsent"}
Txn == [stage : Stage, ver : Nat, files : Content, stale : BOOLEAN]
NoTxn == [stage |-> "none", ver |-> 0, files |-> NoContent, stale |-> FALSE]

SyncTypeOK ==
  /\ db \in Content
  /\ edits \in Nat
  /\ company \in Company
  /\ icp \in Nat
  /\ txn \in Txn

\* A fresh install, or one whose deployed version the parameter never recorded.
SyncInit ==
  /\ db = [f \in Files |-> IF f \in BaseFiles THEN 1 ELSE Absent]
  /\ edits = 1
  /\ company = [dirty |-> FALSE, version |-> LegacyVersion,
                applied |-> LegacyVersion, error |-> FALSE]
  /\ icp = 0
  /\ txn = NoTxn

Larger(a, b) == IF a > b THEN a ELSE b

\* Another transaction committed a new version of the company row.
RowChanged == [txn EXCEPT !.stale = (txn.stage # "none")]

-----------------------------------------------------------------------------
(* Users                                                                   *)

\* A record that goes into file f is created or written (its content is then
\* this edit's), or the last record of a plugin's file is removed.  The mixin
\* writes the flag only when it reads it unset; the models of the plugins do
\* not inherit the mixin.
Edit(f, c) ==
  /\ edits < MaxEdits
  /\ c = edits + 1 \/ (c = Absent /\ f \notin BaseFiles)
  /\ edits' = edits + 1
  /\ db' = [db EXCEPT ![f] = c]
  /\ IF company.dirty \/ f \notin BaseFiles THEN UNCHANGED <<company, txn>>
     ELSE company' = [company EXCEPT !.dirty = TRUE] /\ txn' = RowChanged
  /\ UNCHANGED <<icp, busVars>>

\* publish_config: above the parameter and both versions of the company.
NextVersion == Larger(icp, Larger(company.version, company.applied)) + 1

\* sync_current_company: the snapshot is taken, the files are generated and
\* the parameter is written.
SyncBegin ==
  /\ txn.stage = "none"
  /\ Len(published) < MaxSyncs
  /\ txn' = [stage |-> "generated", ver |-> NextVersion, files |-> db, stale |-> FALSE]
  /\ UNCHANGED <<db, edits, company, icp, busVars>>

\* publish: the broker has the message, whatever becomes of the transaction.
Publish ==
  /\ txn.stage = "generated"
  /\ published' = Append(published, [ver |-> txn.ver, files |-> txn.files])
  /\ queue' = queue \union {Len(published) + 1}
  /\ txn' = [txn EXCEPT !.stage = "sent"]
  /\ UNCHANGED <<db, edits, company, icp, acks, faults>>

PublishFails ==
  /\ txn.stage = "generated"
  /\ Fault("publish")
  /\ txn' = [txn EXCEPT !.stage = "unsent"]
  /\ UNCHANGED <<db, edits, company, icp, published, queue, acks>>

\* The mutant: the version is recorded without looking at what publish returned.
CommitAlways ==
  /\ txn.stage \in {"sent", "unsent"} /\ ~ txn.stale
  /\ company' = [company EXCEPT !.version = txn.ver, !.error = FALSE]
  /\ icp' = txn.ver
  /\ txn' = NoTxn
  /\ UNCHANGED <<db, edits, busVars>>

\* write_config returns and the request commits.  When nothing was sent only
\* the parameter changes, and the company row cannot conflict.
Commit ==
  /\ \/ /\ txn.stage = "sent" /\ ~ txn.stale
        /\ company' = [company EXCEPT !.version = txn.ver, !.error = FALSE]
     \/ txn.stage = "unsent" /\ UNCHANGED company
  /\ icp' = txn.ver
  /\ txn' = NoTxn
  /\ UNCHANGED <<db, edits, busVars>>

\* The company row was changed under the transaction: PostgreSQL refuses it.
Conflict ==
  /\ txn.stage = "sent" /\ txn.stale
  /\ txn' = NoTxn
  /\ UNCHANGED <<db, edits, company, icp, busVars>>

\* The request fails for any other reason: worker killed, error in a hook.
Rollback ==
  /\ txn.stage # "none"
  /\ Fault("rollback")
  /\ txn' = NoTxn
  /\ UNCHANGED <<db, edits, company, icp, published, queue, acks>>

-----------------------------------------------------------------------------
(* The webhook                                                             *)

\* The mutant: the ack of the published version itself is not enough.
ConfirmedByNewer(a) ==
  IF a.status = "error"
  THEN [company EXCEPT !.dirty = TRUE, !.error = TRUE]
  ELSE IF a.ver > company.version
  THEN [company EXCEPT !.dirty = FALSE, !.applied = a.ver, !.error = FALSE]
  ELSE company

\* _handle_config_ack, the company after the ack.
Confirmed(a) ==
  IF a.status = "error"
  THEN [company EXCEPT !.dirty = TRUE, !.error = TRUE]
  ELSE IF a.ver >= company.version
  THEN [company EXCEPT !.dirty = FALSE, !.applied = a.ver, !.error = FALSE]
  ELSE company

\* A write of the company, even of equal values, is an update of its row.
Writes(a) == a.status = "error" \/ a.ver >= company.version

HandleAck(a) ==
  /\ acks' = acks \ {a}
  /\ company' = Confirmed(a)
  /\ txn' = IF Writes(a) THEN RowChanged ELSE txn
  /\ UNCHANGED <<db, edits, icp, published, queue, faults>>

\* res.company.pbx_config_sync_state, as the systray shows it.
SyncState ==
  IF company.error /\ company.applied < company.version THEN "error"
  ELSE IF company.applied >= company.version THEN "applied"
  ELSE "sent"

=============================================================================
