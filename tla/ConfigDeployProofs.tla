------------------------- MODULE ConfigDeployProofs -------------------------
(***************************************************************************)
(* Theorems about ConfigDeploy for every set of files and slots, every     *)
(* bound and every kind of fault.                                          *)
(*                                                                         *)
(* TypeOK is inductive as it stands.  The safety properties are not: they  *)
(* need what a task, an ack and the transaction in flight carry with them  *)
(* (Inv below), so that the step that finally stores a version finds it    *)
(* written, published or recorded.                                         *)
(***************************************************************************)
EXTENDS ConfigDeploy, SequenceTheorems, TLAPS

-----------------------------------------------------------------------------
(* Messages, files and slots                                               *)

\* A published message has a version and files.
LEMMA MessageType ==
  ASSUME BusTypeOK, NEW n \in DOMAIN published
  PROVE  /\ published[n] \in Message
         /\ Version(n) \in Nat
         /\ published[n].files \in Content
  <1>1. published \in Seq(Message) BY DEF BusTypeOK
  <1>2. n \in 1 .. Len(published) BY <1>1, LenProperties
  <1>3. published[n] \in Message BY <1>1, <1>2, ElementOfSeq
  <1> QED BY <1>3 DEF Message, Version

\* Publishing adds one message at the end and changes none of the others.
LEMMA AppendMessage ==
  ASSUME BusTypeOK, NEW m \in Message, published' = Append(published, m)
  PROVE  /\ published' \in Seq(Message)
         /\ DOMAIN published' = DOMAIN published \union {Len(published) + 1}
         /\ \A n \in DOMAIN published : published'[n] = published[n]
         /\ published'[Len(published) + 1] = m
  <1>1. published \in Seq(Message) BY DEF BusTypeOK
  <1>2. Len(published) \in Nat /\ DOMAIN published = 1 .. Len(published) BY <1>1
  <1>3. published' \in Seq(Message) /\ Len(published') = Len(published) + 1
    BY <1>1, AppendProperties
  <1>4. DOMAIN published' = 1 .. (Len(published) + 1) BY <1>3
  <1> QED BY <1>1, <1>2, <1>3, <1>4, AppendProperties

\* Writing files of a message leaves a disk with content.
LEMMA OverlayType ==
  ASSUME BusTypeOK, disk \in Content, NEW n \in DOMAIN published, NEW fs
  PROVE  Overlay(n, fs) \in Content
  BY MessageType DEF Overlay, Content

\* What the broker would deliver again are published messages.
LEMMA HeldType ==
  ASSUME ConsumerTypeOK
  PROVE  Held \subseteq DOMAIN published
  BY DEF ConsumerTypeOK, Held

-----------------------------------------------------------------------------
(* Type correctness                                                        *)

LEMMA InitTypeOK == Init => TypeOK
  BY BusAssumption, SyncAssumption
  DEF Init, BusInit, SyncInit, ConsumerInit, TypeOK, BusTypeOK, SyncTypeOK,
      ConsumerTypeOK, Content, NoContent, Absent, Company, Txn, Stage, NoTxn,
      Task, PC, Idle, Status

\* The steps of Odoo.
LEMMA SyncTypeStep ==
  ASSUME TypeOK, UNCHANGED consumerVars,
         \/ \E f \in Files, c \in {Absent, edits + 1} : Edit(f, c)
         \/ SyncBegin \/ Publish \/ PublishFails \/ Commit \/ Conflict \/ Rollback
         \/ \E a \in acks : HandleAck(a)
  PROVE  TypeOK'
  <1> USE DEF TypeOK, BusTypeOK, SyncTypeOK, busVars, consumerVars
  <1>1. CASE \E f \in Files, c \in {Absent, edits + 1} : Edit(f, c)
    <2>1. PICK f \in Files, c \in {Absent, edits + 1} : Edit(f, c) BY <1>1
    <2>2. c \in Nat BY DEF Absent
    <2>3. db' \in Content /\ edits' \in Nat /\ icp' \in Nat BY <2>1, <2>2 DEF Edit, Content
    <2>4. company' \in Company /\ txn' \in Txn BY <2>1 DEF Edit, RowChanged, Company, Txn
    <2> QED BY <2>1, <2>3, <2>4 DEF Edit, ConsumerTypeOK
  <1>2. CASE SyncBegin
    <2>1. NextVersion \in Nat BY DEF NextVersion, Larger, Company
    <2> QED BY <1>2, <2>1 DEF SyncBegin, Txn, Stage, ConsumerTypeOK
  <1>3. CASE Publish
    <2> DEFINE m == [ver |-> txn.ver, files |-> txn.files]
    <2>1. m \in Message BY DEF Message, Txn
    <2>2. published' = Append(published, m) BY <1>3 DEF Publish
    <2>3. BusTypeOK' BY <1>3, <2>1, <2>2, AppendMessage DEF Publish
    <2>4. SyncTypeOK' BY <1>3 DEF Publish, Txn, Stage
    <2>5. ConsumerTypeOK' BY <2>1, <2>2, AppendMessage DEF ConsumerTypeOK
    <2> QED BY <2>3, <2>4, <2>5
  <1>4. CASE PublishFails
    BY <1>4 DEF PublishFails, Fault, Txn, Stage, ConsumerTypeOK
  <1>5. CASE Commit
    BY <1>5 DEF Commit, NoTxn, NoContent, Absent, Content, Company, Txn, Stage, ConsumerTypeOK
  <1>6. CASE Conflict
    BY <1>6 DEF Conflict, NoTxn, NoContent, Absent, Content, Txn, Stage, ConsumerTypeOK
  <1>7. CASE Rollback
    BY <1>7 DEF Rollback, Fault, NoTxn, NoContent, Absent, Content, Txn, Stage, ConsumerTypeOK
  <1>8. CASE \E a \in acks : HandleAck(a)
    <2>1. PICK a \in acks : HandleAck(a) BY <1>8
    <2>2. a \in Ack /\ acks' \subseteq Ack BY <2>1 DEF HandleAck
    <2>3. company' \in Company BY <2>1, <2>2 DEF HandleAck, Confirmed, RowChanged, Ack, Company
    <2>4. BusTypeOK' BY <2>1, <2>2 DEF HandleAck
    <2>5. SyncTypeOK' BY <2>1, <2>3 DEF HandleAck, RowChanged, Txn
    <2>6. ConsumerTypeOK' BY <2>1 DEF HandleAck, ConsumerTypeOK
    <2> QED BY <2>4, <2>5, <2>6
  <1> QED BY <1>1, <1>2, <1>3, <1>4, <1>5, <1>6, <1>7, <1>8

\* The steps of the daemon's tasks.
LEMMA TaskTypeStep ==
  ASSUME TypeOK, UNCHANGED syncVars, NEW t \in Slots, TaskNext(t)
  PROVE  TypeOK'
  <1> USE DEF TypeOK, BusTypeOK, ConsumerTypeOK, Task, PC, Status
  <1>0. SyncTypeOK' BY DEF SyncTypeOK, syncVars
  <1>1. ASSUME NEW n \in queue, Skip(t, n) PROVE TypeOK'
    BY <1>0, <1>1 DEF Skip, Deliver, Start
  <1>2. ASSUME NEW n \in queue, Write(t, n) PROVE TypeOK'
    BY <1>0, <1>2, OverlayType DEF Write, Deliver, Start
  <1>3. ASSUME NEW n \in queue, WriteFails(t, n) PROVE TypeOK'
    BY <1>0, <1>3, OverlayType DEF WriteFails, Deliver, Start, Fault
  <1>4. CASE Reload(t) BY <1>0, <1>4 DEF Reload, Goto, busVars
  <1>5. CASE Save(t) BY <1>0, <1>5, MessageType DEF Save, Finish, busVars
  <1>6. CASE SaveFails(t)
    <2>1. tasks' \in [Slots -> Task] BY <1>6 DEF SaveFails, Finish
    <2>2. BusTypeOK' BY <1>6 DEF SaveFails, Fault
    <2> QED BY <1>0, <1>6, <2>1, <2>2 DEF SaveFails, Finish
  <1>7. CASE Acknowledge(t)
    <2>1. tasks[t].n \in Nat /\ Version(tasks[t].n) \in Nat
      BY <1>7, MessageType DEF Acknowledge
    <2>2. acks' \subseteq Ack BY <1>7, <2>1 DEF Acknowledge, Ack
    <2>3. tasks' \in [Slots -> Task] BY <1>7 DEF Acknowledge, Goto
    <2> QED BY <1>0, <1>7, <2>2, <2>3 DEF Acknowledge, Goto, Fault
  <1>8. CASE Release(t) BY <1>0, <1>8 DEF Release, Idle, busVars
  <1> QED BY <1>1, <1>2, <1>3, <1>4, <1>5, <1>6, <1>7, <1>8 DEF TaskNext

\* The faults of the daemon and of its connections.
LEMMA FaultTypeStep ==
  ASSUME TypeOK, UNCHANGED syncVars, Crash \/ BrokerReconnect \/ AmiDown \/ AmiUp
  PROVE  TypeOK'
  <1> USE DEF TypeOK, BusTypeOK, ConsumerTypeOK, Task, PC, Status
  <1>0. SyncTypeOK' BY DEF SyncTypeOK, syncVars
  <1>1. CASE Crash
    <2>1. queue' \subseteq DOMAIN published BY <1>1, HeldType DEF Crash
    <2>2. disk' \in Content BY <1>1, OverlayType DEF Crash
    <2> QED BY <1>0, <1>1, <2>1, <2>2 DEF Crash, Fault, Idle
  <1>2. CASE BrokerReconnect
    <2>1. queue' \subseteq DOMAIN published BY <1>2, HeldType DEF BrokerReconnect
    <2>2. tasks' \in [Slots -> Task] BY <1>2 DEF BrokerReconnect
    <2>3. \A t \in Slots : tasks'[t].pc = tasks[t].pc /\ tasks'[t].n = tasks[t].n
      BY <1>2 DEF BrokerReconnect
    <2>4. BusTypeOK' BY <1>2, <2>1 DEF BrokerReconnect, Fault
    <2> QED BY <1>0, <1>2, <2>2, <2>3, <2>4 DEF BrokerReconnect
  <1>3. CASE AmiDown
    <2>1. BusTypeOK' BY <1>3 DEF AmiDown, Fault
    <2> QED BY <1>0, <1>3, <2>1 DEF AmiDown
  <1>4. CASE AmiUp BY <1>0, <1>4 DEF AmiUp, busVars
  <1> QED BY <1>1, <1>2, <1>3, <1>4

\* Every step is one of Odoo's, one of a task's or a fault.
LEMMA NextCases ==
  ASSUME Next
  PROVE  \/ /\ UNCHANGED consumerVars
            /\ \/ \E f \in Files, c \in {Absent, edits + 1} : Edit(f, c)
               \/ SyncBegin \/ Publish \/ PublishFails \/ Commit \/ Conflict \/ Rollback
               \/ \E a \in acks : HandleAck(a)
         \/ UNCHANGED syncVars /\ \E t \in Slots : TaskNext(t)
         \/ UNCHANGED syncVars /\ (Crash \/ BrokerReconnect \/ AmiDown \/ AmiUp)
  BY DEF Next, TaskNext

\* The variables keep their types: every message, ack and task carries a
\* version of a published message, whatever is delivered twice or lost.
THEOREM TypeCorrect == Spec => []TypeOK
  <1>1. TypeOK /\ [Next]_vars => TypeOK'
    <2> SUFFICES ASSUME TypeOK, [Next]_vars PROVE TypeOK'
      OBVIOUS
    <2>1. CASE Next BY <2>1, NextCases, SyncTypeStep, TaskTypeStep, FaultTypeStep
    <2>2. CASE UNCHANGED vars
      BY <2>2 DEF vars, busVars, syncVars, consumerVars, TypeOK, BusTypeOK,
                  SyncTypeOK, ConsumerTypeOK
    <2> QED BY <2>1, <2>2
  <1> QED BY InitTypeOK, <1>1, PTL DEF Spec

-----------------------------------------------------------------------------
(* The inductive invariant                                                 *)

\* A task that got past its files wrote them all, and recorded is the version
\* of such a message.
WrittenInv ==
  /\ \A t \in Slots : tasks[t].pc \in {"reload", "save"} => tasks[t].n \in written
  /\ RecordedWasWritten

\* So is the version of a transaction that may still commit published, and
\* the one that did.
PublishedInv ==
  /\ txn.stage = "sent" => \E n \in DOMAIN published : Version(n) = txn.ver
  /\ CommittedWasPublished

\* What a task is about to confirm, what an ack on its way confirms and what
\* Odoo takes for confirmed is recorded, or something newer is.
ConfirmedInv ==
  /\ \A t \in Slots : tasks[t].pc = "ack" /\ tasks[t].status # "error" =>
                      Version(tasks[t].n) <= recorded
  /\ \A a \in acks : /\ a.n \in DOMAIN published /\ a.ver = Version(a.n)
                     /\ a.status # "error" => a.ver <= recorded
  /\ company.applied <= recorded

Inv == TypeOK /\ WrittenInv /\ PublishedInv /\ ConfirmedInv

LEMMA InitInv == Init => Inv
  BY InitTypeOK, SyncAssumption
  DEF Init, BusInit, SyncInit, ConsumerInit, Inv, WrittenInv, PublishedInv,
      ConfirmedInv, RecordedWasWritten, CommittedWasPublished, Idle, NoTxn

\* No step changes a message that was published.
LEMMA MessagesKept ==
  ASSUME TypeOK, Next
  PROVE  /\ DOMAIN published \subseteq DOMAIN published'
         /\ \A n \in DOMAIN published : published'[n] = published[n]
  <1>1. CASE Publish
    <2> DEFINE m == [ver |-> txn.ver, files |-> txn.files]
    <2>1. m \in Message BY DEF Message, Txn, TypeOK, SyncTypeOK
    <2> QED BY <1>1, <2>1, AppendMessage DEF Publish, TypeOK
  <1>2. CASE ~ Publish
    <2>1. published' = published
      BY <1>2 DEF Next, busVars, Edit, SyncBegin, PublishFails, Commit, Conflict,
         Rollback, HandleAck, Skip, Write, WriteFails, Deliver, Reload, Save, SaveFails,
         Acknowledge, Release, Crash, BrokerReconnect, AmiDown, AmiUp
    <2> QED BY <2>1
  <1> QED BY <1>1, <1>2

\* A step of Odoo leaves what the daemon wrote and recorded.
LEMMA WrittenSyncStep ==
  ASSUME TypeOK, WrittenInv, Next, UNCHANGED consumerVars
  PROVE  WrittenInv'
  <1>1. \A n \in written : Version(n)' = Version(n)
    BY MessagesKept DEF TypeOK, ConsumerTypeOK, Version
  <1> QED BY <1>1 DEF WrittenInv, RecordedWasWritten, consumerVars

\* A task records the version of its message only after the last file.
LEMMA WrittenTaskStep ==
  ASSUME TypeOK, WrittenInv, NEW t \in Slots, TaskNext(t)
  PROVE  WrittenInv'
  <1> USE DEF TypeOK, ConsumerTypeOK, WrittenInv, RecordedWasWritten, Version, busVars
  <1>1. ASSUME NEW n \in queue, Skip(t, n) PROVE WrittenInv'
    BY <1>1 DEF Skip, Deliver, Start
  <1>2. ASSUME NEW n \in queue, Write(t, n) PROVE WrittenInv'
    BY <1>2 DEF Write, Deliver, Start
  <1>3. ASSUME NEW n \in queue, WriteFails(t, n) PROVE WrittenInv'
    BY <1>3 DEF WriteFails, Deliver, Start
  <1>4. CASE Reload(t) BY <1>4 DEF Reload, Goto
  <1>5. CASE Save(t) BY <1>5 DEF Save, Finish
  <1>6. CASE SaveFails(t) BY <1>6 DEF SaveFails, Finish
  <1>7. CASE Acknowledge(t) BY <1>7 DEF Acknowledge, Goto
  <1>8. CASE Release(t) BY <1>8 DEF Release, Idle
  <1> QED BY <1>1, <1>2, <1>3, <1>4, <1>5, <1>6, <1>7, <1>8 DEF TaskNext

\* A crash forgets the tasks, not what is written; the other faults touch neither.
LEMMA WrittenFaultStep ==
  ASSUME TypeOK, WrittenInv, Crash \/ BrokerReconnect \/ AmiDown \/ AmiUp
  PROVE  WrittenInv'
  <1> USE DEF TypeOK, ConsumerTypeOK, WrittenInv, RecordedWasWritten, Version, busVars
  <1>1. CASE Crash BY <1>1 DEF Crash, Idle
  <1>2. CASE BrokerReconnect
    <2>1. \A t \in Slots : tasks'[t].pc = tasks[t].pc /\ tasks'[t].n = tasks[t].n
      BY <1>2 DEF BrokerReconnect, Task
    <2> QED BY <1>2, <2>1 DEF BrokerReconnect
  <1>3. CASE AmiDown BY <1>3 DEF AmiDown
  <1>4. CASE AmiUp BY <1>4 DEF AmiUp
  <1> QED BY <1>1, <1>2, <1>3, <1>4

LEMMA WrittenStep ==
  ASSUME TypeOK, WrittenInv, Next
  PROVE  WrittenInv'
  BY NextCases, WrittenSyncStep, WrittenTaskStep, WrittenFaultStep

\* Odoo commits the version of a message that it published: publish returned
\* true in the transaction that is committed.
LEMMA PublishedStep ==
  ASSUME TypeOK, PublishedInv, Next
  PROVE  PublishedInv'
  <1> USE DEF PublishedInv, CommittedWasPublished, Version
  <1>1. /\ DOMAIN published \subseteq DOMAIN published'
        /\ \A n \in DOMAIN published : published'[n] = published[n]
    BY MessagesKept
  <1>2. CASE UNCHANGED <<company, txn>> BY <1>1, <1>2
  <1>3. ASSUME NEW f \in Files, NEW c \in {Absent, edits + 1}, Edit(f, c)
        PROVE  PublishedInv'
    BY <1>1, <1>3 DEF Edit, RowChanged, TypeOK, SyncTypeOK, Txn, Company
  <1>4. CASE SyncBegin BY <1>1, <1>4 DEF SyncBegin
  <1>5. CASE Publish
    <2> DEFINE m == [ver |-> txn.ver, files |-> txn.files]
    <2>1. m \in Message BY DEF Message, Txn, TypeOK, SyncTypeOK
    <2>2. /\ Len(published) + 1 \in DOMAIN published'
          /\ published'[Len(published) + 1] = m
      BY <1>5, <2>1, AppendMessage DEF Publish, TypeOK
    <2>3. txn'.ver = txn.ver BY <1>5 DEF Publish, TypeOK, SyncTypeOK, Txn
    <2> QED BY <1>1, <1>5, <2>2, <2>3 DEF Publish
  <1>6. CASE PublishFails BY <1>1, <1>6 DEF PublishFails, TypeOK, SyncTypeOK, Txn
  <1>7. CASE Commit BY <1>1, <1>7 DEF Commit, NoTxn, TypeOK, SyncTypeOK, Company
  <1>8. CASE Conflict BY <1>1, <1>8 DEF Conflict, NoTxn
  <1>9. CASE Rollback BY <1>1, <1>9 DEF Rollback, NoTxn
  <1>10. ASSUME NEW a \in acks, HandleAck(a) PROVE PublishedInv'
    <2>1. company'.version = company.version
      BY <1>10 DEF HandleAck, Confirmed, TypeOK, SyncTypeOK, Company
    <2>2. txn'.stage = txn.stage /\ txn'.ver = txn.ver
      BY <1>10 DEF HandleAck, RowChanged, TypeOK, SyncTypeOK, Txn
    <2> QED BY <1>1, <2>1, <2>2
  <1>11. CASE UNCHANGED syncVars BY <1>2, <1>11 DEF syncVars
  <1> QED BY <1>3, <1>4, <1>5, <1>6, <1>7, <1>8, <1>9, <1>10, <1>11, NextCases

\* An ack that Odoo handles was recorded; so was the version it takes over.
LEMMA ConfirmedSyncStep ==
  ASSUME TypeOK, ConfirmedInv, Next, UNCHANGED consumerVars,
         \/ \E f \in Files, c \in {Absent, edits + 1} : Edit(f, c)
         \/ SyncBegin \/ Publish \/ PublishFails \/ Commit \/ Conflict \/ Rollback
         \/ \E a \in acks : HandleAck(a)
  PROVE  ConfirmedInv'
  <1> USE DEF ConfirmedInv, Version, consumerVars, TypeOK
  <1>1. /\ DOMAIN published \subseteq DOMAIN published'
        /\ \A n \in DOMAIN published : published'[n] = published[n]
    BY MessagesKept
  <1>2. \A t \in Slots : tasks[t].pc = "ack" /\ tasks[t].status # "error" =>
                           published'[tasks[t].n].ver <= recorded
    BY <1>1 DEF ConsumerTypeOK
  <1>3. acks' \subseteq acks
    BY DEF busVars, Edit, SyncBegin, Publish, PublishFails, Commit, Conflict,
           Rollback, HandleAck
  <1>4. company'.applied <= recorded
    <2>1. ASSUME NEW a \in acks, HandleAck(a) PROVE company'.applied <= recorded
      BY <2>1 DEF HandleAck, Confirmed, SyncTypeOK, Company
    <2>2. CASE company' = company BY <2>2
    <2>3. CASE Commit BY <2>3 DEF Commit, SyncTypeOK, Company
    <2>4. ASSUME NEW f \in Files, NEW c \in {Absent, edits + 1}, Edit(f, c)
          PROVE  company'.applied <= recorded
      BY <2>4 DEF Edit, SyncTypeOK, Company
    <2> QED
      BY <2>1, <2>2, <2>3, <2>4
      DEF SyncBegin, Publish, PublishFails, Conflict, Rollback
  <1> QED BY <1>1, <1>2, <1>3, <1>4

\* A task comes to its ack with its version recorded, or an older one.
LEMMA ConfirmedTaskStep ==
  ASSUME TypeOK, ConfirmedInv, UNCHANGED syncVars, NEW t \in Slots, TaskNext(t)
  PROVE  ConfirmedInv'
  <1> USE DEF TypeOK, BusTypeOK, ConsumerTypeOK, ConfirmedInv, Version, busVars, syncVars
  <1>1. ASSUME NEW n \in queue, Skip(t, n) PROVE ConfirmedInv'
    BY <1>1 DEF Skip, Deliver, Start, Stale
  <1>2. ASSUME NEW n \in queue, Write(t, n) PROVE ConfirmedInv'
    BY <1>2 DEF Write, Deliver, Start
  <1>3. ASSUME NEW n \in queue, WriteFails(t, n) PROVE ConfirmedInv'
    BY <1>3 DEF WriteFails, Deliver, Start
  <1>4. CASE Reload(t) BY <1>4 DEF Reload, Goto
  <1>5. CASE Save(t)
    <2>1. Version(tasks[t].n) \in Nat BY <1>5, MessageType DEF Save
    <2>2. /\ recorded' \in Nat /\ recorded <= recorded'
          /\ Version(tasks[t].n) <= recorded'
      BY <1>5, <2>1 DEF Save
    <2>3. \A s \in Slots : tasks[s].pc = "ack" => Version(tasks[s].n) \in Nat
      BY MessageType
    <2>4. \A s \in Slots : tasks'[s].pc = "ack" /\ tasks'[s].status # "error" =>
                             Version(tasks'[s].n) <= recorded'
      BY <1>5, <2>1, <2>2, <2>3 DEF Save, Finish
    <2>5. \A a \in acks : a.status # "error" => a.ver <= recorded'
      BY <2>2 DEF Ack
    <2>6. company.applied <= recorded' BY <2>2 DEF SyncTypeOK, Company
    <2> QED BY <1>5, <2>4, <2>5, <2>6 DEF Save
  <1>6. CASE SaveFails(t) BY <1>6 DEF SaveFails, Finish
  <1>7. CASE Acknowledge(t)
    <2> DEFINE b == [n |-> tasks[t].n, ver |-> Version(tasks[t].n),
                     status |-> tasks[t].status]
    <2>1. /\ b.n \in DOMAIN published /\ b.ver = Version(b.n)
          /\ b.status # "error" => b.ver <= recorded
      BY <1>7 DEF Acknowledge
    <2>2. acks' \subseteq acks \union {b} BY <1>7 DEF Acknowledge
    <2>3. \A a \in acks' : /\ a.n \in DOMAIN published /\ a.ver = Version(a.n)
                           /\ a.status # "error" => a.ver <= recorded
      BY <2>1, <2>2
    <2>4. \A s \in Slots : tasks'[s].pc = "ack" => tasks'[s] = tasks[s]
      BY <1>7 DEF Acknowledge, Goto
    <2> QED BY <1>7, <2>3, <2>4 DEF Acknowledge
  <1>8. CASE Release(t) BY <1>8 DEF Release, Idle
  <1> QED BY <1>1, <1>2, <1>3, <1>4, <1>5, <1>6, <1>7, <1>8 DEF TaskNext

\* A fault loses tasks, it completes none.
LEMMA ConfirmedFaultStep ==
  ASSUME TypeOK, ConfirmedInv, UNCHANGED syncVars,
         Crash \/ BrokerReconnect \/ AmiDown \/ AmiUp
  PROVE  ConfirmedInv'
  <1> USE DEF TypeOK, ConsumerTypeOK, ConfirmedInv, Version, busVars, syncVars
  <1>1. CASE Crash BY <1>1 DEF Crash, Idle
  <1>2. CASE BrokerReconnect
    <2>1. \A t \in Slots : /\ tasks'[t].pc = tasks[t].pc /\ tasks'[t].n = tasks[t].n
                           /\ tasks'[t].status = tasks[t].status
      BY <1>2 DEF BrokerReconnect, Task
    <2> QED BY <1>2, <2>1 DEF BrokerReconnect
  <1>3. CASE AmiDown BY <1>3 DEF AmiDown
  <1>4. CASE AmiUp BY <1>4 DEF AmiUp
  <1> QED BY <1>1, <1>2, <1>3, <1>4

LEMMA ConfirmedStep ==
  ASSUME TypeOK, ConfirmedInv, Next
  PROVE  ConfirmedInv'
  BY NextCases, ConfirmedSyncStep, ConfirmedTaskStep, ConfirmedFaultStep

LEMMA Invariance == Spec => []Inv
  <1>1. Inv /\ [Next]_vars => Inv'
    <2> SUFFICES ASSUME Inv, [Next]_vars PROVE Inv'
      OBVIOUS
    <2>1. CASE Next
      <3>1. TypeOK'
        BY <2>1, NextCases, SyncTypeStep, TaskTypeStep, FaultTypeStep DEF Inv
      <3> QED BY <2>1, <3>1, WrittenStep, PublishedStep, ConfirmedStep DEF Inv
    <2>2. CASE UNCHANGED vars
      BY <2>2 DEF vars, busVars, syncVars, consumerVars, Inv, TypeOK, BusTypeOK,
                  SyncTypeOK, ConsumerTypeOK, WrittenInv, PublishedInv, ConfirmedInv,
                  RecordedWasWritten, CommittedWasPublished, Version
    <2> QED BY <2>1, <2>2
  <1> QED BY InitInv, <1>1, PTL DEF Spec

-----------------------------------------------------------------------------
(* The theorems                                                            *)

\* .state.json names only a version all of whose files were written, whatever
\* failed between two files, before the save or during it.
THEOREM RecordedIsWritten == Spec => []RecordedWasWritten
  <1>1. Inv => RecordedWasWritten BY DEF Inv, WrittenInv
  <1> QED BY <1>1, Invariance, PTL

\* Odoo's version is one the broker was handed, through failed publishes,
\* conflicts and rollbacks.
THEOREM CommittedIsPublished == Spec => []CommittedWasPublished
  <1>1. Inv => CommittedWasPublished BY DEF Inv, PublishedInv
  <1> QED BY <1>1, Invariance, PTL
-----------------------------------------------------------------------------
(* The version register                                                    *)

Offered == {published[n].ver : n \in DOMAIN published}

\* Publishing offers a version; nothing else changes what is offered.
LEMMA OfferStep ==
  ASSUME TypeOK, Next
  PROVE  \/ UNCHANGED Offered
         \/ txn.ver \in Nat /\ Offered' = Offered \union {txn.ver}
  <1>1. CASE Publish
    <2> DEFINE m == [ver |-> txn.ver, files |-> txn.files]
    <2>1. m \in Message BY DEF Message, Txn, TypeOK, SyncTypeOK
    <2>2. /\ DOMAIN published' = DOMAIN published \union {Len(published) + 1}
          /\ \A n \in DOMAIN published : published'[n] = published[n]
          /\ published'[Len(published) + 1] = m
      BY <1>1, <2>1, AppendMessage DEF Publish, TypeOK
    <2>3. Offered' = Offered \union {txn.ver} BY <2>2 DEF Offered
    <2> QED BY <2>3 DEF TypeOK, SyncTypeOK, Txn
  <1>2. CASE ~ Publish
    <2>1. published' = published
      BY <1>2 DEF Next, busVars, Edit, SyncBegin, PublishFails, Commit, Conflict,
         Rollback, HandleAck, Skip, Write, WriteFails, Deliver, Reload, Save, SaveFails,
         Acknowledge, Release, Crash, BrokerReconnect, AmiDown, AmiUp
    <2> QED BY <2>1 DEF Offered
  <1> QED BY <1>1, <1>2

\* Recorded changes only where a task saves a newer version of its message.
LEMMA RecordStep ==
  ASSUME TypeOK, Next, recorded' # recorded
  PROVE  recorded' \in Offered /\ recorded' > recorded /\ UNCHANGED <<busVars, syncVars>>
  <1>1. PICK t \in Slots : Save(t) /\ UNCHANGED syncVars
    BY DEF Next, consumerVars, Skip, Write, WriteFails, Deliver, Reload, SaveFails,
       Acknowledge, Release, Crash, BrokerReconnect, AmiDown, AmiUp
  <1>2. tasks[t].n \in DOMAIN published /\ Version(tasks[t].n) \in Nat
    BY <1>1, MessageType DEF Save, TypeOK, ConsumerTypeOK
  <1>3. recorded' = Version(tasks[t].n) /\ ~ (recorded >= Version(tasks[t].n))
    BY <1>1 DEF Save
  <1> QED BY <1>1, <1>2, <1>3 DEF Save, Offered, Version, TypeOK, ConsumerTypeOK

\* What Odoo takes for applied changes only by the ack of a recorded version.
LEMMA ConfirmStep ==
  ASSUME Inv, Next, company'.applied # company.applied
  PROVE  /\ company'.applied \in Offered /\ company'.applied <= recorded
         /\ UNCHANGED <<published, consumerVars>>
  <1>1. PICK a \in acks : HandleAck(a) /\ UNCHANGED consumerVars
    BY DEF Next, Edit, SyncBegin, Publish, PublishFails, Commit, Conflict, Rollback,
       syncVars, Inv, TypeOK, SyncTypeOK, Company
  <1>2. a.status # "error" /\ company'.applied = a.ver
    BY <1>1 DEF HandleAck, Confirmed, Inv, TypeOK, SyncTypeOK, Company
  <1> QED BY <1>1, <1>2 DEF HandleAck, Inv, ConfirmedInv, Offered, Version

\* The deploy implements the register: the recorded version only grows, over
\* versions that were published, and Odoo never believes the server ahead of it.
THEOREM DeployIsRegister == Spec => DeployImplementsRegister
  <1> USE DEF Register!vars, Offered
  <1>1. Init => Register!Init
    BY DEF Init, BusInit, SyncInit, ConsumerInit, Register!Init
  <1>2. Inv /\ [Next]_vars => [Register!Next]_(Register!vars)
    <2> SUFFICES ASSUME Inv, [Next]_vars PROVE [Register!Next]_(Register!vars)
      OBVIOUS
    <2>1. CASE Next
      <3>1. CASE recorded' # recorded
        BY <2>1, <3>1, RecordStep
        DEF Register!Next, Register!Record, Inv, busVars, syncVars
      <3>2. CASE company'.applied # company.applied
        BY <2>1, <3>2, ConfirmStep
        DEF Register!Next, Register!Confirm, consumerVars
      <3>3. CASE /\ recorded' = recorded /\ company'.applied = company.applied
                 /\ Offered' # Offered
        BY <2>1, <3>3, OfferStep DEF Register!Next, Register!Offer, Inv
      <3> QED BY <3>1, <3>2, <3>3
    <2>2. CASE UNCHANGED vars BY <2>2 DEF vars, busVars, syncVars, consumerVars
    <2> QED BY <2>1, <2>2
  <1> QED
    BY <1>1, <1>2, Invariance, PTL DEF Spec, DeployImplementsRegister, Register!Spec

-----------------------------------------------------------------------------
(* What a deploy leaves on disk and in Asterisk, for every kind of fault   *)
(* but those that do leave something else: a broker that delivers a        *)
(* message to two tasks, a file that cannot be written and, for what       *)
(* Asterisk has loaded, a reload that fails.                               *)
(*                                                                         *)
(* The tasks overlap and a crash repeats them.  What puts them in order is *)
(* that the broker delivers by number, and that a message with a lower     *)
(* version than one before it is stale from the moment it is published.    *)

\* No message is delivered to a second task and no file is refused.
Ordered == {"reconnect", "write"} \cap FaultKinds = {}

Busy(t) == tasks[t].pc # "idle"
Writing(t) == tasks[t].pc \in {"reload", "save"}
Distinct == \A m, n \in DOMAIN published : Version(m) = Version(n) => m = n

\* No message is with two tasks, and what waits comes after what was delivered.
HoldInv ==
  /\ \A t \in Slots : Busy(t) =>
       tasks[t].held /\ \A m \in queue : tasks[t].n < m
  /\ \A s, t \in Slots : Busy(s) /\ Busy(t) /\ s # t => tasks[s].n # tasks[t].n

\* A version is at most one above what Odoo or the daemon has.
Near(v) == v <= icp + 1 \/ v <= company.version + 1 \/ v <= recorded + 1

NearNext(v) == v <= icp' + 1 \/ v <= company'.version + 1 \/ v <= recorded' + 1

\* The versions published are near, and a message that is not stale has no
\* higher version before it.
VersionInv ==
  /\ \A n \in DOMAIN published : Version(n) > 0 /\ Near(Version(n))
  /\ \A m, n \in DOMAIN published : m < n => Version(m) <= Version(n) \/ Version(n) <= recorded
  /\ txn.stage # "none" => txn.ver > icp /\ txn.ver > company.version /\ Near(txn.ver)
  /\ txn.stage = "generated" =>
       \A n \in DOMAIN published : Version(n) <= txn.ver \/ txn.ver <= recorded

\* n is the latest message, in number and in version, that a task has written.
Latest(n) == \A t \in Slots : Writing(t) => tasks[t].n <= n /\ Version(tasks[t].n) <= Version(n)

\* The disk holds the files of the latest message written, until a crash: then
\* there is a message to come that will be written.
DiskInv ==
  \/ \E n \in DOMAIN published :
       /\ OnDisk(n) /\ Latest(n) /\ recorded <= Version(n)
       /\ Version(n) = recorded \/ \E t \in Slots : Writing(t) /\ tasks[t].n = n
  \/ /\ \A t \in Slots : ~Writing(t)
     /\ recorded = LegacyVersion \/ \E n \in queue : Version(n) > recorded

\* As long as Asterisk does not run what is on disk, the task that wrote it has
\* its reload to come, or a message that will be written.
LoadInv ==
  /\ ami
  /\ Distinct /\ loaded # disk =>
       \/ \E t \in Slots :
            /\ tasks[t].pc = "reload" /\ Latest(tasks[t].n) /\ Version(tasks[t].n) > recorded
       \/ \E n \in queue : Version(n) > recorded

-----------------------------------------------------------------------------
(* What every step keeps                                                   *)

LEMMA TypeFacts ==
  ASSUME TypeOK
  PROVE  /\ recorded \in Nat /\ icp \in Nat /\ company.version \in Nat /\ company.applied \in Nat
         /\ txn.ver \in Nat /\ Len(published) \in Nat /\ DOMAIN published = 1 .. Len(published)
         /\ \A n \in DOMAIN published : Version(n) \in Nat /\ n \in Nat
         /\ \A t \in Slots : Busy(t) => tasks[t].n \in DOMAIN published
         /\ \A t \in Slots : Writing(t) => Busy(t)
         /\ queue \subseteq DOMAIN published
  <1>1. published \in Seq(Message) BY DEF TypeOK, BusTypeOK
  <1>2. Len(published) \in Nat /\ DOMAIN published = 1 .. Len(published) BY <1>1, LenProperties
  <1>3. \A n \in DOMAIN published : Version(n) \in Nat BY MessageType DEF TypeOK
  <1>4. company.version \in Nat /\ company.applied \in Nat /\ txn.ver \in Nat
    BY DEF TypeOK, SyncTypeOK, Company, Txn
  <1>5. \A t \in Slots : /\ Busy(t) => tasks[t].n \in DOMAIN published
                         /\ Writing(t) => Busy(t)
    BY DEF TypeOK, ConsumerTypeOK, Busy, Writing
  <1> QED BY <1>2, <1>3, <1>4, <1>5 DEF TypeOK, SyncTypeOK, BusTypeOK, ConsumerTypeOK

LEMMA VersionsKept ==
  ASSUME TypeOK, Next
  PROVE  /\ DOMAIN published \subseteq DOMAIN published'
         /\ \A n \in DOMAIN published : Version(n)' = Version(n) /\ FilesOf(n)' = FilesOf(n)
         /\ disk' = disk => \A n \in DOMAIN published : OnDisk(n)' = OnDisk(n)
         /\ Distinct' => Distinct
  <1>1. /\ DOMAIN published \subseteq DOMAIN published'
        /\ \A n \in DOMAIN published : published'[n] = published[n]
    BY MessagesKept
  <1>2. \A n \in DOMAIN published : Version(n)' = Version(n) /\ FilesOf(n)' = FilesOf(n)
    BY <1>1 DEF Version, FilesOf
  <1>3. disk' = disk => \A n \in DOMAIN published : OnDisk(n)' = OnDisk(n)
    BY <1>1, <1>2 DEF OnDisk
  <1>4. Distinct' => Distinct BY <1>1, <1>2 DEF Distinct
  <1> QED BY <1>1, <1>2, <1>3, <1>4

\* A step of Odoo takes nothing from the queue, and what it adds is new.
LEMMA QueueGrows ==
  ASSUME TypeOK, UNCHANGED consumerVars,
         \/ \E f \in Files, c \in {Absent, edits + 1} : Edit(f, c)
         \/ SyncBegin \/ Publish \/ PublishFails \/ Commit \/ Conflict \/ Rollback
         \/ \E a \in acks : HandleAck(a)
  PROVE  queue \subseteq queue' /\ queue' \subseteq queue \union {Len(published) + 1}
  BY DEF Edit, SyncBegin, Publish, PublishFails, Commit, Conflict, Rollback, HandleAck, busVars

\* Without the faults that are left out a task ends with its version recorded.
LEMMA TaskSteps ==
  ASSUME Ordered, NEW t \in Slots, TaskNext(t)
  PROVE  \/ \E n \in queue : Skip(t, n) \/ Write(t, n)
         \/ Reload(t) \/ Save(t) \/ Acknowledge(t) \/ Release(t)
  BY DEF TaskNext, Ordered, WriteFails, SaveFails, Fault

LEMMA FaultSteps ==
  ASSUME Ordered, Crash \/ BrokerReconnect \/ AmiDown \/ AmiUp
  PROVE  Crash \/ AmiDown \/ AmiUp
  BY DEF Ordered, BrokerReconnect, Fault

\* What Odoo knows of versions, and what the daemon has recorded, only grows.
LEMMA VersionsGrow ==
  ASSUME TypeOK, VersionInv, Next
  PROVE  /\ icp' >= icp /\ company'.version >= company.version /\ recorded' >= recorded
         /\ icp' \in Nat /\ company'.version \in Nat /\ recorded' \in Nat
         /\ \A v \in Nat : Near(v) => NearNext(v)
  <1>1. /\ icp \in Nat /\ company.version \in Nat /\ recorded \in Nat /\ txn.ver \in Nat
        /\ company \in Company
    BY TypeFacts DEF TypeOK, SyncTypeOK
  <1>2. recorded' >= recorded /\ recorded' \in Nat
    <2>1. CASE recorded' = recorded BY <1>1, <2>1
    <2>2. CASE recorded' # recorded
      <3>1. recorded' \in Offered /\ recorded' > recorded BY <2>2, RecordStep
      <3>2. recorded' \in Nat BY <3>1, TypeFacts DEF Offered, Version
      <3> QED BY <1>1, <3>1, <3>2
    <2> QED BY <2>1, <2>2
  <1>3. icp' >= icp /\ company'.version >= company.version
        /\ icp' \in Nat /\ company'.version \in Nat
    <2>1. CASE Commit
      <3>1. txn.stage # "none" BY <2>1 DEF Commit
      <3>2. txn.ver > icp /\ txn.ver > company.version BY <3>1 DEF VersionInv
      <3>3. icp' = txn.ver /\ company'.version \in {company.version, txn.ver}
        BY <1>1, <2>1 DEF Commit, Company
      <3> QED BY <1>1, <3>2, <3>3
    <2>2. ASSUME NEW a \in acks, HandleAck(a)
          PROVE  icp' = icp /\ company'.version = company.version
      BY <1>1, <2>2 DEF HandleAck, Confirmed, Company
    <2>3. ASSUME NEW f \in Files, NEW c \in {Absent, edits + 1}, Edit(f, c)
          PROVE  icp' = icp /\ company'.version = company.version
      BY <1>1, <2>3 DEF Edit, Company
    <2>4. CASE SyncBegin \/ Publish \/ PublishFails \/ Conflict \/ Rollback \/ UNCHANGED syncVars
      BY <1>1, <2>4 DEF SyncBegin, Publish, PublishFails, Conflict, Rollback, syncVars
    <2> QED BY <1>1, <2>1, <2>2, <2>3, <2>4, NextCases
  <1>4. ASSUME NEW v \in Nat, Near(v) PROVE NearNext(v)
    <2>1. icp \in Nat /\ company.version \in Nat /\ recorded \in Nat BY <1>1
    <2>2. \A a, b \in Nat : b >= a /\ v <= a + 1 => v <= b + 1 OBVIOUS
    <2>3. v <= icp + 1 => v <= icp' + 1 BY <1>3, <2>1, <2>2
    <2>4. v <= company.version + 1 => v <= company'.version + 1 BY <1>3, <2>1, <2>2
    <2>5. v <= recorded + 1 => v <= recorded' + 1 BY <1>2, <2>1, <2>2
    <2> QED BY <1>4, <2>3, <2>4, <2>5 DEF Near, NearNext
  <1> QED BY <1>2, <1>3, <1>4

-----------------------------------------------------------------------------
(* Versions                                                                *)

\* Odoo takes the version after the highest it knows; only recorded can be
\* higher, and then the message is stale.
LEMMA VersionStep ==
  ASSUME Inv, VersionInv, Next
  PROVE  VersionInv'
  <1> USE DEF Inv
  <1>1. /\ recorded \in Nat /\ icp \in Nat /\ company.version \in Nat /\ company.applied \in Nat
        /\ txn.ver \in Nat /\ Len(published) \in Nat /\ DOMAIN published = 1 .. Len(published)
        /\ \A n \in DOMAIN published : Version(n) \in Nat /\ n \in Nat
        /\ txn \in Txn
    BY TypeFacts DEF TypeOK, SyncTypeOK
  <1>2. /\ recorded' >= recorded /\ recorded' \in Nat
        /\ \A v \in Nat : Near(v) => NearNext(v)
    BY VersionsGrow
  <1>3. \A n \in DOMAIN published : Version(n)' = Version(n) BY VersionsKept
  <1>4. ASSUME published' = published
        PROVE  /\ \A n \in DOMAIN published' : Version(n)' > 0 /\ NearNext(Version(n)')
               /\ \A m, n \in DOMAIN published' :
                    m < n => Version(m)' <= Version(n)' \/ Version(n)' <= recorded'
               /\ \A v \in Nat : (\A n \in DOMAIN published : Version(n) <= v \/ v <= recorded) =>
                    \A n \in DOMAIN published' : Version(n)' <= v \/ v <= recorded'
    <2>1. \A n \in DOMAIN published : Version(n)' > 0 /\ NearNext(Version(n)')
      BY <1>1, <1>2, <1>3 DEF VersionInv
    <2>2. \A m, n \in DOMAIN published :
            m < n => Version(m)' <= Version(n)' \/ Version(n)' <= recorded'
      BY <1>1, <1>2, <1>3 DEF VersionInv
    <2>3. \A v \in Nat : (\A n \in DOMAIN published : Version(n) <= v \/ v <= recorded) =>
            \A n \in DOMAIN published : Version(n)' <= v \/ v <= recorded'
      BY <1>1, <1>2, <1>3
    <2> QED BY <1>4, <2>1, <2>2, <2>3
  <1>5. CASE SyncBegin
    <2>1. txn'.stage = "generated" /\ txn'.ver = NextVersion /\ published' = published
          /\ icp' = icp /\ company' = company
      BY <1>5 DEF SyncBegin, busVars
    <2>2. company.applied <= recorded BY DEF ConfirmedInv
    <2>3. /\ NextVersion \in Nat /\ NextVersion > icp /\ NextVersion > company.version
          /\ Near(NextVersion)
          /\ \A v \in Nat : Near(v) => v <= NextVersion \/ NextVersion <= recorded
      <3>1. /\ icp \in Nat /\ company.version \in Nat /\ company.applied \in Nat /\ recorded \in Nat
        BY <1>1
      <3>2. /\ NextVersion \in Nat /\ NextVersion > icp /\ NextVersion > company.version
            /\ NextVersion \in {icp + 1, company.version + 1, company.applied + 1}
        BY <3>1 DEF NextVersion, Larger
      <3>3. Near(NextVersion) BY <2>2, <3>1, <3>2 DEF Near
      <3>4. ASSUME NEW v \in Nat, Near(v) PROVE v <= NextVersion \/ NextVersion <= recorded
        BY <3>1, <3>2, <3>4 DEF Near
      <3> QED BY <3>2, <3>3, <3>4
    <2>4. \A n \in DOMAIN published : Version(n) <= NextVersion \/ NextVersion <= recorded
      BY <1>1, <2>3 DEF VersionInv
    <2>6. \A n \in DOMAIN published' : Version(n)' <= NextVersion \/ NextVersion <= recorded'
      BY <1>4, <2>1, <2>3, <2>4
    <2>7. NearNext(txn'.ver) BY <1>2, <2>1, <2>3
    <2> QED BY <1>4, <2>1, <2>3, <2>6, <2>7 DEF VersionInv, Near, NearNext, Version
  <1>6. CASE Publish
    <2> DEFINE m == [ver |-> txn.ver, files |-> txn.files]
    <2>0. PICK k \in Nat : k = Len(published) + 1 BY <1>1
    <2>1. /\ txn.stage = "generated" /\ txn'.stage = "sent" /\ txn'.ver = txn.ver
          /\ icp' = icp /\ company' = company
      BY <1>1, <1>6 DEF Publish, Txn
    <2>2. m \in Message BY <1>1 DEF Message, Txn
    <2>3. /\ DOMAIN published' = DOMAIN published \union {k} /\ published'[k] = m
      BY <1>6, <2>0, <2>2, AppendMessage DEF Publish, TypeOK
    <2>4. Version(k)' = txn.ver BY <2>3 DEF Version
    <2> HIDE DEF m
    <2>5. \A n \in DOMAIN published : ~(k < n) BY <1>1, <2>0
    <2>6. txn.ver > 0 /\ txn.ver > icp /\ txn.ver > company.version /\ Near(txn.ver)
      BY <1>1, <2>1 DEF VersionInv
    <2>7. NearNext(txn.ver) BY <1>1, <1>2, <2>6
    <2>8. \A n \in DOMAIN published' : Version(n)' > 0 /\ NearNext(Version(n)')
      BY <1>1, <1>2, <1>3, <2>3, <2>4, <2>6, <2>7 DEF VersionInv
    <2>9. \A i, n \in DOMAIN published' :
            i < n => Version(i)' <= Version(n)' \/ Version(n)' <= recorded'
      <3>1. \A i, n \in DOMAIN published :
              i < n => Version(i)' <= Version(n)' \/ Version(n)' <= recorded'
        BY <1>1, <1>2, <1>3 DEF VersionInv
      <3>2. \A i \in DOMAIN published : Version(i)' <= txn.ver \/ txn.ver <= recorded'
        BY <1>1, <1>2, <1>3, <2>1 DEF VersionInv
      <3>3. ~(k < k) BY <2>0
      <3> QED BY <2>3, <2>4, <2>5, <3>1, <3>2, <3>3
    <2>10. NearNext(txn'.ver) BY <2>1, <2>7
    <2> QED BY <2>1, <2>6, <2>8, <2>9, <2>10 DEF VersionInv, Near, NearNext, Version
  <1>7. CASE ~SyncBegin /\ ~Publish
    <2>1. published' = published
      BY <1>7 DEF Next, busVars, Edit, PublishFails, Commit, Conflict,
         Rollback, HandleAck, Skip, Write, WriteFails, Deliver, Reload, Save, SaveFails,
         Acknowledge, Release, Crash, BrokerReconnect, AmiDown, AmiUp
    <2>2. \/ txn'.stage = "none"
          \/ /\ txn.stage # "none" /\ txn'.stage \in {txn.stage, "unsent"} /\ txn'.ver = txn.ver
             /\ icp' = icp /\ company'.version = company.version
      <3> USE <1>1 DEF Txn
      <3>1. ASSUME NEW f \in Files, NEW c \in {Absent, edits + 1}, Edit(f, c)
            PROVE  /\ txn'.stage = txn.stage /\ txn'.ver = txn.ver
                   /\ icp' = icp /\ company'.version = company.version
        BY <3>1 DEF Edit, RowChanged, TypeOK, SyncTypeOK, Company
      <3>2. ASSUME NEW a \in acks, HandleAck(a)
            PROVE  /\ txn'.stage = txn.stage /\ txn'.ver = txn.ver
                   /\ icp' = icp /\ company'.version = company.version
        BY <3>2 DEF HandleAck, Confirmed, RowChanged, TypeOK, SyncTypeOK, Company
      <3>3. CASE PublishFails BY <3>3 DEF PublishFails
      <3>4. CASE Commit \/ Conflict \/ Rollback BY <3>4 DEF Commit, Conflict, Rollback, NoTxn
      <3>5. CASE UNCHANGED syncVars BY <3>5 DEF syncVars
      <3> QED BY <1>7, <3>1, <3>2, <3>3, <3>4, <3>5, NextCases
    <2>3. CASE txn'.stage = "none" BY <1>4, <2>1, <2>3 DEF VersionInv, Near, NearNext, Version
    <2>4. CASE /\ txn.stage # "none" /\ txn'.stage \in {txn.stage, "unsent"} /\ txn'.ver = txn.ver
               /\ icp' = icp /\ company'.version = company.version
      <3>1. txn'.ver > icp' /\ txn'.ver > company'.version BY <2>4 DEF VersionInv
      <3>2. NearNext(txn'.ver) BY <1>1, <1>2, <2>4 DEF VersionInv
      <3>3. txn'.stage = "generated" =>
              \A n \in DOMAIN published' : Version(n)' <= txn'.ver \/ txn'.ver <= recorded'
        BY <1>1, <1>4, <2>1, <2>4 DEF VersionInv
      <3> QED BY <1>4, <2>1, <3>1, <3>2, <3>3 DEF VersionInv, Near, NearNext, Version
    <2> QED BY <2>2, <2>3, <2>4
  <1> QED BY <1>5, <1>6, <1>7

-----------------------------------------------------------------------------
(* Deliveries                                                              *)

\* The broker delivers the first of what waits, and takes all back at a crash.
LEMMA HoldStep ==
  ASSUME Ordered, Inv, HoldInv, Next
  PROVE  HoldInv'
  <1> USE DEF Inv
  <1>1. /\ Len(published) \in Nat /\ DOMAIN published = 1 .. Len(published)
        /\ queue \subseteq DOMAIN published
        /\ \A t \in Slots : Busy(t) => tasks[t].n \in DOMAIN published
        /\ tasks \in [Slots -> Task]
    BY TypeFacts DEF TypeOK, ConsumerTypeOK
  <1>2. ASSUME UNCHANGED consumerVars,
               \/ \E f \in Files, c \in {Absent, edits + 1} : Edit(f, c)
               \/ SyncBegin \/ Publish \/ PublishFails \/ Commit \/ Conflict \/ Rollback
               \/ \E a \in acks : HandleAck(a)
        PROVE  HoldInv'
    <2>1. tasks' = tasks /\ queue' \subseteq queue \union {Len(published) + 1}
      BY <1>2, QueueGrows DEF consumerVars
    <2>2. \A t \in Slots : Busy(t) => tasks[t].n < Len(published) + 1 BY <1>1
    <2> QED BY <2>1, <2>2 DEF HoldInv, Busy
  <1>3. ASSUME NEW t \in Slots, NEW n \in queue, Skip(t, n) \/ Write(t, n) PROVE HoldInv'
    <2>1. /\ IsNext(n) /\ ~Busy(t) /\ queue' = queue \ {n}
          /\ \A s \in Slots \ {t} : tasks'[s] = tasks[s]
          /\ tasks'[t].n = n /\ tasks'[t].held
      BY <1>1, <1>3 DEF Skip, Write, Deliver, Start, Busy
    <2>2. \A m \in queue' : n < m BY <1>1, <2>1 DEF IsNext
    <2>3. \A s \in Slots \ {t} : Busy(s) => tasks[s].n < n BY DEF HoldInv
    <2>4. \A s \in Slots \ {t} : Busy(s) => tasks[s].n # n BY <1>1, <2>3
    <2> QED BY <1>1, <2>1, <2>2, <2>4 DEF HoldInv, Busy
  <1>4. ASSUME NEW t \in Slots, Reload(t) \/ Save(t) \/ Acknowledge(t) \/ Release(t) PROVE HoldInv'
    <2>1. queue' = queue
      BY <1>4 DEF Reload, Save, Acknowledge, Release, busVars
    <2>2. \A s \in Slots \ {t} : tasks'[s] = tasks[s]
      BY <1>1, <1>4 DEF Reload, Save, Acknowledge, Release, Goto, Finish
    <2>3. Busy(t)' => Busy(t) /\ tasks'[t].n = tasks[t].n /\ tasks'[t].held = tasks[t].held
      BY <1>1, <1>4 DEF Reload, Save, Acknowledge, Release, Goto, Finish, Busy, Task, Idle
    <2> QED BY <2>1, <2>2, <2>3 DEF HoldInv, Busy
  <1>5. CASE Crash
    <2>1. \A t \in Slots : ~Busy(t)' BY <1>5 DEF Crash, Busy, Idle
    <2> QED BY <2>1 DEF HoldInv
  <1>6. CASE AmiDown \/ AmiUp BY <1>6 DEF AmiDown, AmiUp, busVars, HoldInv, Busy
  <1> QED BY <1>2, <1>3, <1>4, <1>5, <1>6, NextCases, TaskSteps, FaultSteps

-----------------------------------------------------------------------------
(* The disk                                                                *)

\* What a message leaves on disk, and in the tasks, when its files are written.
LEMMA WriteFacts ==
  ASSUME Inv, HoldInv, VersionInv, NEW t \in Slots, NEW n \in queue, Write(t, n)
  PROVE  /\ OnDisk(n)' /\ Latest(n)' /\ recorded' = recorded /\ Version(n) > recorded
         /\ tasks'[t].pc = "reload" /\ tasks'[t].n = n
         /\ published' = published
  <1> USE DEF Inv
  <1>1. /\ recorded \in Nat /\ queue \subseteq DOMAIN published /\ n \in DOMAIN published
        /\ \A m \in DOMAIN published : Version(m) \in Nat /\ m \in Nat
        /\ \A s \in Slots : Busy(s) => tasks[s].n \in DOMAIN published
        /\ \A s \in Slots : Writing(s) => Busy(s)
        /\ tasks \in [Slots -> Task] /\ disk \in Content
    BY TypeFacts DEF TypeOK, ConsumerTypeOK
  <1>2. /\ ~Stale(n) /\ published' = published /\ recorded' = recorded
        /\ disk' = Overlay(n, FilesOf(n))
        /\ tasks' = [tasks EXCEPT ![t] = [pc |-> "reload", n |-> n, status |-> "applied", held |-> TRUE]]
    BY <1>1 DEF Write, Deliver, Start
  <1>3. Version(n) > recorded BY <1>1, <1>2 DEF Stale, VersionInv
  <1>4. OnDisk(n)'
    <2>1. FilesOf(n)' = FilesOf(n) /\ FilesOf(n) \subseteq Files BY <1>2 DEF FilesOf
    <2>2. \A f \in FilesOf(n) : disk'[f] = published[n].files[f] BY <1>2, <2>1 DEF Overlay
    <2> QED BY <1>2, <2>1, <2>2 DEF OnDisk
  <1>5. Latest(n)'
    <2> SUFFICES ASSUME NEW s \in Slots, Writing(s)'
                 PROVE  tasks'[s].n <= n /\ published'[tasks'[s].n].ver <= published'[n].ver
      BY DEF Latest, Version
    <2>1. CASE s = t BY <1>1, <1>2, <2>1 DEF Version
    <2>2. CASE s # t
      <3>1. tasks'[s] = tasks[s] /\ Writing(s) BY <1>1, <1>2, <2>2 DEF Writing
      <3>2. tasks[s].n \in DOMAIN published /\ tasks[s].n < n BY <1>1, <3>1 DEF HoldInv
      <3>3. Version(tasks[s].n) <= Version(n) BY <1>1, <1>3, <3>2 DEF VersionInv
      <3> QED BY <1>1, <1>2, <3>1, <3>2, <3>3 DEF Version
    <2> QED BY <2>1, <2>2
  <1>6. tasks'[t].pc = "reload" /\ tasks'[t].n = n BY <1>1, <1>2
  <1> QED BY <1>2, <1>3, <1>4, <1>5, <1>6

\* What a crash leaves: all that was held waits again, and whatever else it
\* left on disk is of a message that waits and is not stale.
LEMMA CrashFacts ==
  ASSUME Inv, HoldInv, VersionInv, Crash
  PROVE  /\ \A t \in Slots : ~Busy(t)' /\ ~Writing(t)'
         /\ \A t \in Slots : Busy(t) => tasks[t].n \in queue'
         /\ queue \subseteq queue' /\ recorded' = recorded /\ published' = published
         /\ ami' = TRUE /\ loaded' = loaded
         /\ disk' = disk \/ \E n \in queue' : Version(n) > recorded
  <1> USE DEF Inv
  <1>1. /\ \A n \in queue : n \in DOMAIN published /\ Version(n) \in Nat
        /\ recorded \in Nat
    BY TypeFacts
  <1>2. /\ queue' = queue \union Held /\ tasks' = [t \in Slots |-> Idle]
        /\ recorded' = recorded /\ published' = published /\ ami' = TRUE /\ loaded' = loaded
        /\ disk' = disk \/ \E n \in queue : ~Stale(n)
    BY DEF Crash
  <1>3. \A t \in Slots : ~Busy(t)' /\ ~Writing(t)' BY <1>2 DEF Busy, Writing, Idle
  <1>4. \A t \in Slots : Busy(t) => tasks[t].n \in Held BY DEF HoldInv, Busy, Held
  <1>5. \A n \in queue : ~Stale(n) => Version(n) > recorded BY <1>1 DEF Stale, VersionInv
  <1> QED BY <1>2, <1>3, <1>4, <1>5

\* A step that changes neither the disk nor which tasks have written.
LEMMA DiskKept ==
  ASSUME TypeOK, DiskInv, Next, UNCHANGED <<disk, recorded>>, 
         \A n \in queue : Version(n) > recorded => n \in queue',
         \A t \in Slots : Writing(t)' = Writing(t),
         \A t \in Slots : Writing(t) => tasks'[t].n = tasks[t].n
  PROVE  DiskInv'
  <1>1. /\ \A t \in Slots : Busy(t) => tasks[t].n \in DOMAIN published
        /\ \A t \in Slots : Writing(t) => Busy(t)
        /\ queue \subseteq DOMAIN published
    BY TypeFacts
  <1>2. /\ DOMAIN published \subseteq DOMAIN published'
        /\ \A n \in DOMAIN published : Version(n)' = Version(n)
        /\ \A n \in DOMAIN published : OnDisk(n)' = OnDisk(n)
    BY VersionsKept
  <1>3. \A n \in DOMAIN published : Latest(n) => Latest(n)'
    <2> SUFFICES ASSUME NEW n \in DOMAIN published, Latest(n), NEW t \in Slots, Writing(t)'
                 PROVE  tasks'[t].n <= n /\ published'[tasks'[t].n].ver <= published'[n].ver
      BY DEF Latest, Version
    <2>1. Writing(t) /\ tasks'[t].n = tasks[t].n /\ tasks[t].n \in DOMAIN published BY <1>1
    <2>2. /\ Version(tasks[t].n) <= Version(n) /\ tasks[t].n <= n
          /\ published'[tasks[t].n].ver = Version(tasks[t].n) /\ published'[n].ver = Version(n)
      BY <1>2, <2>1 DEF Latest, Version
    <2> QED BY <2>1, <2>2
  <1>4. ASSUME NEW n \in DOMAIN published,
               OnDisk(n), Latest(n), recorded <= Version(n),
               Version(n) = recorded \/ \E t \in Slots : Writing(t) /\ tasks[t].n = n
        PROVE  DiskInv'
    <2>1. OnDisk(n)' /\ Latest(n)' /\ recorded' <= Version(n)' /\ n \in DOMAIN published'
      BY <1>2, <1>3, <1>4
    <2>2. Version(n)' = recorded' \/ \E t \in Slots : Writing(t)' /\ tasks'[t].n = n
      BY <1>2, <1>4
    <2> QED BY <2>1, <2>2 DEF DiskInv
  <1>5. ASSUME \A t \in Slots : ~Writing(t),
               recorded = LegacyVersion \/ \E n \in queue : Version(n) > recorded
        PROVE  DiskInv'
    <2>1. \A t \in Slots : ~Writing(t)' BY <1>5
    <2>2. recorded' = LegacyVersion \/ \E n \in queue' : Version(n)' > recorded' BY <1>1, <1>2, <1>5
    <2> QED BY <2>1, <2>2 DEF DiskInv
  <1> QED BY <1>4, <1>5 DEF DiskInv

LEMMA DiskStep ==
  ASSUME Ordered, Inv, HoldInv, VersionInv, DiskInv, Next
  PROVE  DiskInv'
  <1> USE DEF Inv
  <1>1. /\ recorded \in Nat /\ queue \subseteq DOMAIN published
        /\ \A m \in DOMAIN published : Version(m) \in Nat /\ m \in Nat
        /\ \A t \in Slots : Busy(t) => tasks[t].n \in DOMAIN published
        /\ \A t \in Slots : Writing(t) => Busy(t)
        /\ tasks \in [Slots -> Task]
    BY TypeFacts DEF TypeOK, ConsumerTypeOK
  <1>2. ASSUME UNCHANGED consumerVars,
               \/ \E f \in Files, c \in {Absent, edits + 1} : Edit(f, c)
               \/ SyncBegin \/ Publish \/ PublishFails \/ Commit \/ Conflict \/ Rollback
               \/ \E a \in acks : HandleAck(a)
        PROVE  DiskInv'
    <2>1. UNCHANGED <<disk, recorded, tasks>> /\ queue \subseteq queue'
      BY <1>2, QueueGrows DEF consumerVars
    <2> QED BY <2>1, DiskKept DEF Writing
  <1>3. ASSUME NEW t \in Slots, NEW n \in queue, Skip(t, n) PROVE DiskInv'
    <2>1. /\ ~Busy(t) /\ Stale(n) /\ queue' = queue \ {n} /\ UNCHANGED <<disk, recorded>>
          /\ \A s \in Slots \ {t} : tasks'[s] = tasks[s]
          /\ tasks'[t].pc = "ack"
      BY <1>1, <1>3 DEF Skip, Deliver, Start, Busy
    <2>2. \A m \in queue : Version(m) > recorded => m \in queue' BY <1>1, <2>1 DEF Stale
    <2>3. ~Writing(t) /\ ~Writing(t)' BY <2>1 DEF Writing, Busy
    <2>4. \A s \in Slots : Writing(s)' = Writing(s) BY <2>1, <2>3 DEF Writing
    <2>5. \A s \in Slots : Writing(s) => tasks'[s].n = tasks[s].n BY <2>1, <2>3
    <2> QED BY <2>1, <2>2, <2>4, <2>5, DiskKept
  <1>4. ASSUME NEW t \in Slots, NEW n \in queue, Write(t, n) PROVE DiskInv'
    <2>1. /\ OnDisk(n)' /\ Latest(n)' /\ recorded' = recorded /\ Version(n) > recorded
          /\ tasks'[t].pc = "reload" /\ tasks'[t].n = n /\ published' = published
      BY <1>4, WriteFacts
    <2>2. Version(n)' = Version(n) /\ n \in DOMAIN published' BY <1>1, <2>1 DEF Version
    <2>3. Writing(t)' BY <2>1 DEF Writing
    <2> QED BY <1>1, <2>1, <2>2, <2>3 DEF DiskInv
  <1>5. ASSUME NEW t \in Slots, Reload(t) \/ Acknowledge(t) \/ Release(t) PROVE DiskInv'
    <2>1. UNCHANGED <<disk, recorded, queue>>
      BY <1>5 DEF Reload, Acknowledge, Release, busVars
    <2>2. \A s \in Slots \ {t} : tasks'[s] = tasks[s]
      BY <1>1, <1>5 DEF Reload, Acknowledge, Release, Goto
    <2>3. /\ Writing(t)' = Writing(t)
          /\ Writing(t) => tasks'[t].n = tasks[t].n
      BY <1>1, <1>5 DEF Reload, Acknowledge, Release, Goto, Writing, Task, Idle
    <2>4. \A s \in Slots : Writing(s)' = Writing(s) BY <2>2, <2>3 DEF Writing
    <2>5. \A s \in Slots : Writing(s) => tasks'[s].n = tasks[s].n BY <2>2, <2>3
    <2> QED BY <2>1, <2>4, <2>5, DiskKept
  <1>6. ASSUME NEW t \in Slots, Save(t) PROVE DiskInv'
    <2>1. /\ tasks[t].pc = "save" /\ Writing(t) /\ UNCHANGED <<disk, queue, published>>
          /\ recorded' = (IF recorded >= Version(tasks[t].n) THEN recorded ELSE Version(tasks[t].n))
          /\ \A s \in Slots \ {t} : tasks'[s] = tasks[s]
          /\ ~Writing(t)'
      BY <1>1, <1>6 DEF Save, Finish, busVars, Writing
    <2>2. PICK n \in DOMAIN published :
            /\ OnDisk(n) /\ Latest(n) /\ recorded <= Version(n)
            /\ Version(n) = recorded \/ \E s \in Slots : Writing(s) /\ tasks[s].n = n
      BY <2>1 DEF DiskInv
    <2>3. /\ tasks[t].n \in DOMAIN published /\ Version(tasks[t].n) \in Nat
          /\ Version(tasks[t].n) <= Version(n) /\ Version(n) \in Nat
      BY <1>1, <2>1, <2>2 DEF Latest
    <2>4. recorded <= recorded' /\ recorded' <= Version(n) /\ recorded' \in Nat BY <1>1, <2>1, <2>2, <2>3
    <2>5. Version(n)' = Version(n) /\ OnDisk(n)' BY <2>1, <2>2 DEF Version, OnDisk, FilesOf
    <2>6. Latest(n)'
      <3>1. \A s \in Slots : Writing(s)' => s # t /\ Writing(s) /\ tasks'[s].n = tasks[s].n
        BY <2>1 DEF Writing
      <3> QED BY <2>1, <2>2, <3>1 DEF Latest, Version
    <2>7. Version(n) = recorded' \/ \E s \in Slots : Writing(s)' /\ tasks'[s].n = n
      <3>1. CASE Version(n) = recorded BY <1>1, <2>3, <2>4, <3>1
      <3>2. CASE \E s \in Slots : Writing(s) /\ tasks[s].n = n
        <4>1. PICK s \in Slots : Writing(s) /\ tasks[s].n = n BY <3>2
        <4>2. CASE s = t BY <1>1, <2>1, <2>2, <4>1, <4>2
        <4>3. CASE s # t BY <2>1, <4>1, <4>3 DEF Writing
        <4> QED BY <4>2, <4>3
      <3> QED BY <2>2, <3>1, <3>2
    <2> QED BY <2>1, <2>4, <2>5, <2>6, <2>7 DEF DiskInv
  <1>7. CASE Crash
    <2>1. /\ \A t \in Slots : ~Busy(t)' /\ ~Writing(t)'
          /\ \A t \in Slots : Busy(t) => tasks[t].n \in queue'
          /\ queue \subseteq queue' /\ recorded' = recorded /\ published' = published
          /\ disk' = disk \/ \E n \in queue' : Version(n) > recorded
      BY <1>7, CrashFacts
    <2>2. CASE recorded = LegacyVersion \/ \E n \in queue' : Version(n) > recorded
      BY <2>1, <2>2 DEF DiskInv, Version
    <2>3. CASE ~(recorded = LegacyVersion \/ \E n \in queue' : Version(n) > recorded)
      <3>1. disk' = disk BY <2>1, <2>3
      <3>2. PICK n \in DOMAIN published :
              /\ OnDisk(n) /\ recorded <= Version(n)
              /\ Version(n) = recorded \/ \E s \in Slots : Writing(s) /\ tasks[s].n = n
        BY <2>1, <2>3 DEF DiskInv
      <3>3. Version(n) = recorded BY <1>1, <2>1, <2>3, <3>2
      <3>4. Latest(n)' BY <2>1 DEF Latest
      <3>5. OnDisk(n)' /\ Version(n)' = Version(n) BY <2>1, <3>1, <3>2 DEF OnDisk, FilesOf, Version
      <3> QED BY <1>1, <2>1, <3>3, <3>4, <3>5 DEF DiskInv
    <2> QED BY <2>2, <2>3
  <1>8. CASE AmiDown \/ AmiUp
    <2>1. UNCHANGED <<disk, recorded, tasks, queue>> BY <1>8 DEF AmiDown, AmiUp, busVars
    <2> QED BY <2>1, DiskKept DEF Writing
  <1> QED BY <1>2, <1>3, <1>4, <1>5, <1>6, <1>7, <1>8, NextCases, TaskSteps, FaultSteps

-----------------------------------------------------------------------------
(* Asterisk                                                                *)

\* A reload to come, told by its task and its message.
Due(t, n) == tasks[t].pc = "reload" /\ tasks[t].n = n /\ Latest(n) /\ Version(n) > recorded

LEMMA LoadDue ==
  ASSUME TypeOK
  PROVE  LoadInv <=>
           /\ ami
           /\ Distinct /\ loaded # disk =>
                \/ \E t \in Slots, n \in DOMAIN published : Due(t, n)
                \/ \E n \in queue : Version(n) > recorded
  <1>1. \A t \in Slots : tasks[t].pc = "reload" => tasks[t].n \in DOMAIN published
    BY DEF TypeOK, ConsumerTypeOK
  <1> QED BY <1>1 DEF LoadInv, Due

\* A step that changes neither disk, loaded, recorded nor a reload to come.
LEMMA LoadKept ==
  ASSUME TypeOK, TypeOK', LoadInv, Next, ami', UNCHANGED <<disk, loaded, recorded>>,
         \A n \in queue : Version(n) > recorded => n \in queue',
         \A t \in Slots : tasks[t].pc = "reload" => tasks'[t].pc = "reload" /\ tasks'[t].n = tasks[t].n,
         \A t \in Slots : Writing(t)' => Writing(t) /\ tasks'[t].n = tasks[t].n
  PROVE  LoadInv'
  <1>1. /\ \A t \in Slots : Busy(t) => tasks[t].n \in DOMAIN published
        /\ \A t \in Slots : Writing(t) => Busy(t)
        /\ queue \subseteq DOMAIN published
    BY TypeFacts
  <1>2. /\ Distinct' => Distinct
        /\ DOMAIN published \subseteq DOMAIN published'
        /\ \A n \in DOMAIN published : Version(n)' = Version(n)
    BY VersionsKept
  <1>3. ASSUME NEW t \in Slots, NEW n \in DOMAIN published, Due(t, n) PROVE Due(t, n)'
    <2>1. Latest(n)'
      <3> SUFFICES ASSUME NEW s \in Slots, Writing(s)'
                   PROVE  tasks'[s].n <= n /\ published'[tasks'[s].n].ver <= published'[n].ver
        BY DEF Latest, Version
      <3>1. Writing(s) /\ tasks'[s].n = tasks[s].n /\ tasks[s].n \in DOMAIN published BY <1>1
      <3>2. /\ Version(tasks[s].n) <= Version(n) /\ tasks[s].n <= n
            /\ published'[tasks[s].n].ver = Version(tasks[s].n) /\ published'[n].ver = Version(n)
        BY <1>2, <1>3, <3>1 DEF Due, Latest, Version
      <3> QED BY <3>1, <3>2
    <2> QED BY <1>2, <1>3, <2>1 DEF Due
  <1>4. \A n \in queue : Version(n) > recorded => n \in queue' /\ Version(n)' > recorded'
    BY <1>1, <1>2
  <1>5. ASSUME Distinct', loaded' # disk'
        PROVE  \/ \E t \in Slots, n \in DOMAIN published' : Due(t, n)'
               \/ \E n \in queue' : Version(n)' > recorded'
    <2>1. \/ \E t \in Slots, n \in DOMAIN published : Due(t, n)
          \/ \E n \in queue : Version(n) > recorded
      BY <1>2, <1>5, LoadDue
    <2> QED BY <1>2, <1>3, <1>4, <2>1
  <1> QED BY <1>5 DEF LoadInv, Due

LEMMA LoadStep ==
  ASSUME Ordered, "ami" \notin FaultKinds, TypeOK', Inv, HoldInv, VersionInv, LoadInv, Next
  PROVE  LoadInv'
  <1> USE DEF Inv
  <1>1. /\ recorded \in Nat /\ queue \subseteq DOMAIN published
        /\ \A m \in DOMAIN published : Version(m) \in Nat /\ m \in Nat
        /\ \A t \in Slots : Busy(t) => tasks[t].n \in DOMAIN published
        /\ \A t \in Slots : Writing(t) => Busy(t)
        /\ tasks \in [Slots -> Task] /\ ami
    BY TypeFacts DEF TypeOK, ConsumerTypeOK, LoadInv
  <1>2. ASSUME UNCHANGED consumerVars,
               \/ \E f \in Files, c \in {Absent, edits + 1} : Edit(f, c)
               \/ SyncBegin \/ Publish \/ PublishFails \/ Commit \/ Conflict \/ Rollback
               \/ \E a \in acks : HandleAck(a)
        PROVE  LoadInv'
    <2>1. UNCHANGED <<disk, loaded, recorded, tasks, ami>> /\ queue \subseteq queue'
      BY <1>2, QueueGrows DEF consumerVars
    <2> QED BY <1>1, <2>1, LoadKept DEF Writing
  <1>3. ASSUME NEW t \in Slots, NEW n \in queue, Skip(t, n) PROVE LoadInv'
    <2>1. /\ ~Busy(t) /\ Stale(n) /\ queue' = queue \ {n}
          /\ UNCHANGED <<disk, loaded, recorded, ami>>
          /\ \A s \in Slots \ {t} : tasks'[s] = tasks[s]
          /\ tasks'[t].pc = "ack"
      BY <1>1, <1>3 DEF Skip, Deliver, Start, Busy
    <2>2. \A m \in queue : Version(m) > recorded => m \in queue' BY <1>1, <2>1 DEF Stale
    <2>3. tasks[t].pc # "reload" /\ ~Writing(t)' BY <2>1 DEF Writing, Busy
    <2>4. \A s \in Slots : Writing(s)' => Writing(s) /\ tasks'[s].n = tasks[s].n
      BY <2>1, <2>3 DEF Writing
    <2>5. \A s \in Slots : tasks[s].pc = "reload" =>
                              tasks'[s].pc = "reload" /\ tasks'[s].n = tasks[s].n
      BY <2>1, <2>3
    <2> QED BY <1>1, <2>1, <2>2, <2>4, <2>5, LoadKept
  <1>4. ASSUME NEW t \in Slots, NEW n \in queue, Write(t, n) PROVE LoadInv'
    <2>1. /\ Latest(n)' /\ recorded' = recorded /\ Version(n) > recorded
          /\ tasks'[t].pc = "reload" /\ tasks'[t].n = n /\ published' = published
      BY <1>4, WriteFacts
    <2>2. ami' = ami BY <1>4 DEF Write, Deliver
    <2>3. Version(n)' > recorded' BY <2>1 DEF Version
    <2>4. Due(t, n)' BY <2>1, <2>3 DEF Due
    <2> QED BY <1>1, <2>2, <2>1, <2>4 DEF LoadInv, Due
  <1>5. ASSUME NEW t \in Slots, Reload(t) PROVE LoadInv'
    <2>1. loaded' = disk' /\ ami' = ami BY <1>1, <1>5 DEF Reload
    <2> QED BY <1>1, <2>1 DEF LoadInv
  <1>6. ASSUME NEW t \in Slots, Acknowledge(t) \/ Release(t) PROVE LoadInv'
    <2>1. UNCHANGED <<disk, loaded, recorded, queue, ami>> /\ tasks[t].pc \in {"ack", "release"}
      BY <1>6 DEF Acknowledge, Release, busVars
    <2>2. \A s \in Slots \ {t} : tasks'[s] = tasks[s]
      BY <1>1, <1>6 DEF Acknowledge, Release, Goto
    <2>3. tasks'[t].pc \in {"release", "idle"}
      <3>1. CASE Acknowledge(t) BY <1>1, <3>1 DEF Acknowledge, Goto, Task
      <3>2. CASE Release(t) BY <1>1, <3>2 DEF Release, Idle
      <3> QED BY <1>6, <3>1, <3>2
    <2>4. tasks[t].pc # "reload" /\ ~Writing(t)' BY <2>1, <2>3 DEF Writing
    <2>5. \A s \in Slots : Writing(s)' => Writing(s) /\ tasks'[s].n = tasks[s].n
      BY <2>2, <2>4 DEF Writing
    <2>6. \A s \in Slots : tasks[s].pc = "reload" =>
                              tasks'[s].pc = "reload" /\ tasks'[s].n = tasks[s].n
      BY <2>2, <2>4
    <2> QED BY <1>1, <2>1, <2>5, <2>6, LoadKept
  <1>7. ASSUME NEW t \in Slots, Save(t) PROVE LoadInv'
    <2>1. /\ tasks[t].pc = "save" /\ Writing(t) /\ UNCHANGED <<disk, loaded, queue, published, ami>>
          /\ recorded' = (IF recorded >= Version(tasks[t].n) THEN recorded ELSE Version(tasks[t].n))
          /\ \A s \in Slots \ {t} : tasks'[s] = tasks[s]
          /\ ~Writing(t)'
      BY <1>1, <1>7 DEF Save, Finish, busVars, Writing
    <2>2. /\ Busy(t) /\ tasks[t].n \in DOMAIN published /\ Version(tasks[t].n) \in Nat
          /\ tasks[t].n \in Nat
      BY <1>1, <2>1
    <2>3. Distinct' => Distinct BY <2>1 DEF Distinct, Version
    <2>4. ASSUME Distinct, NEW s \in Slots, NEW n \in DOMAIN published, Due(s, n) PROVE Due(s, n)'
      <3>1. s # t /\ Busy(s) /\ tasks[s].n = n BY <2>1, <2>4 DEF Due, Busy
      <3>2. tasks[t].n # n BY <2>2, <3>1 DEF HoldInv
      <3>3. Version(tasks[t].n) # Version(n) /\ Version(tasks[t].n) <= Version(n)
        BY <2>1, <2>2, <2>4, <3>2 DEF Distinct, Due, Latest
      <3>4. Version(n) > recorded' BY <1>1, <2>1, <2>2, <2>4, <3>3 DEF Due
      <3>5. Latest(n)'
        <4>1. \A r \in Slots : Writing(r)' => r # t /\ Writing(r) /\ tasks'[r].n = tasks[r].n
          BY <2>1 DEF Writing
        <4> QED BY <2>1, <2>4, <4>1 DEF Due, Latest, Version
      <3> QED BY <2>1, <2>4, <3>1, <3>4, <3>5 DEF Due, Version
    <2>5. ASSUME Distinct, NEW n \in queue, Version(n) > recorded PROVE Version(n)' > recorded'
      <3>1. n \in DOMAIN published /\ Version(n) \in Nat /\ tasks[t].n < n
        BY <1>1, <2>2 DEF HoldInv
      <3>2. Version(tasks[t].n) <= Version(n) BY <1>1, <2>2, <2>5, <3>1 DEF VersionInv
      <3>3. Version(tasks[t].n) # Version(n) BY <2>2, <2>5, <3>1 DEF Distinct
      <3>4. Version(n) > recorded' BY <1>1, <2>1, <2>2, <2>5, <3>1, <3>2, <3>3
      <3> QED BY <2>1, <3>4 DEF Version
    <2>6. ASSUME Distinct', loaded' # disk'
          PROVE  \/ \E s \in Slots, n \in DOMAIN published' : Due(s, n)'
                 \/ \E n \in queue' : Version(n)' > recorded'
      <3>1. \/ \E s \in Slots, n \in DOMAIN published : Due(s, n)
            \/ \E n \in queue : Version(n) > recorded
        BY <2>1, <2>3, <2>6, LoadDue
      <3> QED BY <2>1, <2>3, <2>4, <2>5, <2>6, <3>1
    <2> QED BY <1>1, <2>1, <2>6 DEF LoadInv, Due
  <1>8. CASE Crash
    <2>1. /\ \A t \in Slots : Busy(t) => tasks[t].n \in queue'
          /\ queue \subseteq queue' /\ recorded' = recorded /\ published' = published
          /\ ami' = TRUE /\ loaded' = loaded
          /\ disk' = disk \/ \E n \in queue' : Version(n) > recorded
      BY <1>8, CrashFacts
    <2>2. Distinct' => Distinct BY <2>1 DEF Distinct, Version
    <2>3. ASSUME Distinct', loaded' # disk' PROVE \E n \in queue' : Version(n) > recorded
      <3>1. CASE disk' # disk BY <2>1, <3>1
      <3>2. CASE disk' = disk
        <4>1. \/ \E t \in Slots, n \in DOMAIN published : Due(t, n)
              \/ \E n \in queue : Version(n) > recorded
          BY <2>1, <2>2, <2>3, <3>2, LoadDue
        <4>2. ASSUME NEW t \in Slots, NEW n \in DOMAIN published, Due(t, n)
              PROVE  n \in queue' /\ Version(n) > recorded
          BY <2>1, <4>2 DEF Due, Busy
        <4> QED BY <2>1, <4>1, <4>2
      <3> QED BY <3>1, <3>2
    <2>4. Distinct' /\ loaded' # disk' => \E n \in queue' : Version(n)' > recorded'
      BY <2>1, <2>3 DEF Version
    <2> QED BY <2>1, <2>4 DEF LoadInv
  <1>9. ~(AmiDown \/ AmiUp) BY <1>1 DEF AmiDown, AmiUp, Fault
  <1> QED BY <1>2, <1>3, <1>4, <1>5, <1>6, <1>7, <1>8, <1>9, NextCases, TaskSteps, FaultSteps

-----------------------------------------------------------------------------
(* The theorems                                                            *)

OrderInv == Inv /\ HoldInv /\ VersionInv

LEMMA InitOrder == Init => OrderInv /\ DiskInv /\ LoadInv
  <1> SUFFICES ASSUME Init PROVE OrderInv /\ DiskInv /\ LoadInv
    OBVIOUS
  <1>1. Inv BY InitInv
  <1>2. HoldInv BY DEF Init, ConsumerInit, HoldInv, Busy, Idle
  <1>3. VersionInv BY DEF Init, BusInit, SyncInit, VersionInv, NoTxn
  <1>4. DiskInv BY DEF Init, ConsumerInit, DiskInv, Writing, Idle
  <1>5. LoadInv BY DEF Init, ConsumerInit, LoadInv
  <1> QED BY <1>1, <1>2, <1>3, <1>4, <1>5 DEF OrderInv

LEMMA Unchanged ==
  ASSUME UNCHANGED vars
  PROVE  /\ (HoldInv => HoldInv') /\ (VersionInv => VersionInv')
         /\ (DiskInv => DiskInv') /\ (LoadInv => LoadInv')
  BY DEF vars, busVars, syncVars, consumerVars, HoldInv, VersionInv, DiskInv, LoadInv, Busy,
         Writing, Near, Latest, Distinct, OnDisk, FilesOf, Version

LEMMA OrderIsKept ==
  ASSUME Ordered
  PROVE  Spec => [](OrderInv /\ DiskInv)
  <1>1. ASSUME Inv, Inv', OrderInv, DiskInv, [Next]_vars PROVE (OrderInv /\ DiskInv)'
    <2>1. CASE Next BY <1>1, <2>1, HoldStep, VersionStep, DiskStep DEF OrderInv, Inv
    <2>2. CASE UNCHANGED vars BY <1>1, <2>2, Unchanged DEF OrderInv
    <2> QED BY <1>1, <2>1, <2>2
  <1> QED BY <1>1, InitOrder, Invariance, PTL DEF Spec

\* After any crash and any overlap of tasks, once nothing is under way the disk
\* holds all files of a message of the version in .state.json, provided no
\* message is delivered to two tasks and no file is refused.
THEOREM DiskIsWhatIsRecorded ==
  ASSUME Ordered
  PROVE  Spec => []DiskIsRecorded
  <1>1. OrderInv /\ DiskInv => DiskIsRecorded
    BY DEF DiskInv, DiskIsRecorded, Quiet, Writing
  <1> QED BY <1>1, OrderIsKept, PTL

\* Asterisk then runs what is on disk, if its reloads succeed and no version
\* was published twice.
THEOREM AsteriskRunsTheDisk ==
  ASSUME Ordered, "ami" \notin FaultKinds
  PROVE  Spec => []LoadedIsDisk
  <1>1. LoadInv => LoadedIsDisk
    BY DEF LoadInv, LoadedIsDisk, Distinct, Quiet
  <1>2. ASSUME Inv, Inv', OrderInv, LoadInv, [Next]_vars PROVE LoadInv'
    <2>1. CASE Next BY <1>2, <2>1, LoadStep DEF OrderInv, Inv
    <2>2. CASE UNCHANGED vars BY <1>2, <2>2, Unchanged
    <2> QED BY <1>2, <2>1, <2>2
  <1> QED BY <1>1, <1>2, InitOrder, OrderIsKept, Invariance, PTL DEF Spec

=============================================================================
