---------------------------- MODULE ConfigDeploy ----------------------------
(***************************************************************************)
(* The configuration deploy end to end: Odoo, the broker's queue, the      *)
(* daemon, the disk, Asterisk and the confirmations that come back.        *)
(***************************************************************************)
EXTENDS ConfigSync, ConfigConsumer

vars == <<busVars, syncVars, consumerVars>>

Init ==
  /\ BusInit
  /\ SyncInit
  /\ ConsumerInit(LegacyVersion, db)

\* A step of Odoo leaves the daemon alone, and a step of the daemon Odoo.
Next ==
  \/ \E f \in Files, c \in {Absent, edits + 1} : Edit(f, c) /\ UNCHANGED consumerVars
  \/ SyncBegin /\ UNCHANGED consumerVars
  \/ Publish /\ UNCHANGED consumerVars
  \/ PublishFails /\ UNCHANGED consumerVars
  \/ Commit /\ UNCHANGED consumerVars
  \/ Conflict /\ UNCHANGED consumerVars
  \/ Rollback /\ UNCHANGED consumerVars
  \/ \E a \in acks : HandleAck(a) /\ UNCHANGED consumerVars
  \/ \E t \in Slots, n \in queue : Skip(t, n) /\ UNCHANGED syncVars
  \/ \E t \in Slots, n \in queue : Write(t, n) /\ UNCHANGED syncVars
  \/ \E t \in Slots, n \in queue : WriteFails(t, n) /\ UNCHANGED syncVars
  \/ \E t \in Slots : Reload(t) /\ UNCHANGED syncVars
  \/ \E t \in Slots : Save(t) /\ UNCHANGED syncVars
  \/ \E t \in Slots : SaveFails(t) /\ UNCHANGED syncVars
  \/ \E t \in Slots : Acknowledge(t) /\ UNCHANGED syncVars
  \/ \E t \in Slots : Release(t) /\ UNCHANGED syncVars
  \/ Crash /\ UNCHANGED syncVars
  \/ BrokerReconnect /\ UNCHANGED syncVars
  \/ AmiDown /\ UNCHANGED syncVars
  \/ AmiUp /\ UNCHANGED syncVars

(***************************************************************************)
(* The event loop runs every task that can go on, the broker delivers, a   *)
(* request that Odoo has begun ends, and a POST that has left is handled.  *)
(* Users need not edit or sync, and no fault needs to happen.              *)
(***************************************************************************)
Fairness ==
  /\ \A t \in Slots : WF_vars(TaskNext(t) /\ UNCHANGED syncVars)
  /\ WF_vars((Publish \/ Commit \/ Conflict) /\ UNCHANGED consumerVars)
  /\ WF_vars((\E a \in acks : HandleAck(a)) /\ UNCHANGED consumerVars)

Spec == Init /\ [][Next]_vars
FairSpec == Spec /\ Fairness

-----------------------------------------------------------------------------
TypeOK == BusTypeOK /\ SyncTypeOK /\ ConsumerTypeOK

\* Nothing is on its way to the disk.
Quiet == queue = {} /\ \A t \in Slots : tasks[t].pc = "idle"

OnDisk(n) == \A f \in FilesOf(n) : disk[f] = published[n].files[f]

\* Every file of the newest edit that the generator produces is what the disk holds.
DiskCurrent == \A f \in Files : db[f] # Absent => disk[f] = db[f]

\* What Odoo believes and what .state.json holds are a version register: the
\* recorded version only grows, over published versions, and the applied
\* version is never ahead of it (_save_state, _handle_config_ack).
Register ==
  INSTANCE ConfigRegister WITH
    First <- LegacyVersion,
    offered <- {published[n].ver : n \in DOMAIN published},
    confirmed <- company.applied
DeployImplementsRegister == Register!Spec

\* A version is recorded in .state.json only when all files of a message with
\* that version had been written: a crash or a failure between two files
\* leaves the old version, and the message is not taken for applied.
RecordedWasWritten ==
  recorded # LegacyVersion => \E n \in written : Version(n) = recorded

\* The company's version is one that the broker was handed: a sync whose
\* publish failed, or that was rolled back, does not leave Odoo waiting for
\* the confirmation of a message that never existed (write_config).
CommittedWasPublished ==
  company.version # LegacyVersion =>
    \E n \in DOMAIN published : Version(n) = company.version

\* When nothing is under way, the disk holds the files of a message with the
\* recorded version ("the last applied version per domain is kept in
\* .state.json"): tasks that overlap, and tasks repeated after a crash, leave
\* no older file behind.
DiskIsRecorded ==
  Quiet /\ recorded # LegacyVersion =>
    \E n \in DOMAIN published : Version(n) = recorded /\ OnDisk(n)

\* When nothing is under way, Asterisk runs what is on disk: a daemon that
\* dies between the files and the reload is sent the message again.  (Not so
\* when the same version was published twice: the repeated message is then
\* skipped, and the reload it still owed with it.)
LoadedIsDisk ==
  Quiet /\ (\A m, n \in DOMAIN published : Version(m) = Version(n) => m = n) => loaded = disk

\* A version Odoo waits for is confirmed in the end: a message that was
\* published, repeated or answered late does not leave the state at "sent".
SentIsConfirmed == (SyncState = "sent") ~> (SyncState # "sent")

\* A clean company has nothing to sync: when config_dirty is off and nothing
\* is under way, the files of the latest edit are on disk.
CleanIsDeployed ==
  ~ company.dirty /\ Quiet /\ txn = NoTxn /\ acks = {} => DiskCurrent

\* A message carries a version the daemon has not applied yet.
PublishedIsFresh ==
  [][Len(published') > Len(published) => published'[Len(published')].ver > recorded]_vars

=============================================================================
