--------------------------- MODULE ConfigConsumer ---------------------------
(***************************************************************************)
(* The daemon's ConfigConsumer.  The broker's client starts one task per   *)
(* delivered message and does not wait for it before it delivers the next, *)
(* so apply_config runs in several tasks at once.  A task gives way only   *)
(* where it awaits: from the check of the version to the last file written *)
(* there is no await, then each reload command, the state lock and the     *)
(* acks may let other tasks run.                                           *)
(*                                                                         *)
(* The disk and .state.json survive a crash of the daemon; its tasks do    *)
(* not, and the broker then delivers the messages they had not released    *)
(* again.  It also does so when only the connection to the broker is lost, *)
(* while the old tasks run on.                                             *)
(***************************************************************************)
EXTENDS ConfigBus

CONSTANT Slots   (* bound: tasks of apply_config alive at one time *)

VARIABLES
  tasks,     (* the task in each slot                                      *)
  disk,      (* tenants/<domain>-<file> on disk                            *)
  recorded,  (* the domain's version in .state.json                        *)
  written,   (* numbers of the messages whose files were all written       *)
  ami,       (* the AMI connection is up                                   *)
  loaded     (* content Asterisk last (re)loaded                           *)

consumerVars == <<tasks, disk, recorded, written, ami, loaded>>

PC == {"idle", "reload", "save", "ack", "release"}
\* held: the broker connection the message was delivered on is still open.
Task == [pc : PC, n : Nat, status : Status, held : BOOLEAN]
Idle == [pc |-> "idle", n |-> 0, status |-> "applied", held |-> FALSE]

ConsumerTypeOK ==
  /\ tasks \in [Slots -> Task]
  /\ \A t \in Slots : tasks[t].pc # "idle" => tasks[t].n \in DOMAIN published
  /\ disk \in Content
  /\ recorded \in Nat
  /\ written \subseteq DOMAIN published
  /\ ami \in BOOLEAN
  /\ loaded \in Content

\* version is what an earlier install left recorded, content what it wrote.
ConsumerInit(version, content) ==
  /\ tasks = [t \in Slots |-> Idle]
  /\ disk = IF version > 0 THEN content ELSE NoContent
  /\ recorded = version
  /\ written = {}
  /\ ami = TRUE
  /\ loaded = disk

FilesOf(n) == {f \in Files : published[n].files[f] # Absent}
Version(n) == published[n].ver

\* The disk after the files fs of message n are replaced, one os.replace each.
\* A file that is not in the message stays as it is.
Overlay(n, fs) == [f \in Files |-> IF f \in fs THEN published[n].files[f] ELSE disk[f]]

\* The queue delivers in order of publication; redelivered messages return to
\* their place.
IsNext(n) == n \in queue /\ \A m \in queue : n <= m

\* The mutants: messages acked on delivery; slots counted that hold none.
HeldByNone == {tasks[t].n : t \in {s \in Slots : tasks[s].pc = "idle" /\ tasks[s].held}}
HeldByAll == {tasks[t].n : t \in Slots}

\* Messages the broker would deliver again.
Held == {tasks[t].n : t \in {s \in Slots : tasks[s].pc # "idle" /\ tasks[s].held}}

Goto(t, pc) == tasks' = [tasks EXCEPT ![t].pc = pc]
Finish(t, status) == tasks' = [tasks EXCEPT ![t].pc = "ack", ![t].status = status]
Start(t, n, pc, status) ==
  tasks' = [tasks EXCEPT ![t] = [pc |-> pc, n |-> n, status |-> status, held |-> TRUE]]

\* The mutant: versions are not compared.
NeverStale(n) == FALSE /\ n \in queue

Stale(n) == Version(n) # 0 /\ Version(n) <= recorded

-----------------------------------------------------------------------------
\* A message reaches an idle slot and runs up to its first await.
Deliver(t, n) ==
  /\ IsNext(n) /\ tasks[t].pc = "idle"
  /\ queue' = queue \ {n}
  /\ UNCHANGED <<published, acks, recorded, ami, loaded>>

\* Already applied: answered "skipped".
Skip(t, n) ==
  /\ Deliver(t, n) /\ Stale(n)
  /\ Start(t, n, "ack", "skipped")
  /\ UNCHANGED <<disk, written, faults>>

\* Every file is replaced.
Write(t, n) ==
  /\ Deliver(t, n) /\ ~ Stale(n)
  /\ disk' = Overlay(n, FilesOf(n))
  /\ written' = written \union {n}
  /\ Start(t, n, "reload", "applied")
  /\ UNCHANGED faults

\* The mutant: the failure of a file is logged and the others are kept.
WriteFailsQuietly(t, n) ==
  /\ Deliver(t, n) /\ ~ Stale(n)
  /\ Fault("write")
  /\ \E fs \in SUBSET FilesOf(n) :
        fs # FilesOf(n) /\ disk' = Overlay(n, fs)
  /\ Start(t, n, "reload", "applied")
  /\ UNCHANGED written

\* The disk refuses a file: those before it stay replaced, the ack is "error".
WriteFails(t, n) ==
  /\ Deliver(t, n) /\ ~ Stale(n)
  /\ Fault("write")
  /\ \E fs \in SUBSET FilesOf(n) :
        fs # FilesOf(n) /\ disk' = Overlay(n, fs)
  /\ Start(t, n, "ack", "error")
  /\ UNCHANGED written

\* pjsip, dialplan and voicemail reload; a failure is logged and no more.
Reload(t) ==
  /\ tasks[t].pc = "reload"
  /\ loaded' = IF ami THEN disk ELSE loaded
  /\ Goto(t, "save")
  /\ UNCHANGED <<disk, recorded, written, ami, busVars>>

\* The mutant: the version is stored whatever is stored already.
SaveBlindly(t) ==
  /\ tasks[t].pc = "save"
  /\ recorded' = Version(tasks[t].n)
  /\ Finish(t, "applied")
  /\ UNCHANGED <<disk, written, ami, loaded, busVars>>

\* _save_state, under its lock: a version that is not newer is left out.
Save(t) ==
  /\ tasks[t].pc = "save"
  /\ recorded' = IF recorded >= Version(tasks[t].n) THEN recorded ELSE Version(tasks[t].n)
  /\ Finish(t, "applied")
  /\ UNCHANGED <<disk, written, ami, loaded, busVars>>

SaveFails(t) ==
  /\ tasks[t].pc = "save"
  /\ Fault("write")
  /\ Finish(t, "error")
  /\ UNCHANGED <<disk, recorded, written, ami, loaded, published, queue, acks>>

\* _publish_ack: the POST leaves, or its failure is swallowed.
Acknowledge(t) ==
  /\ tasks[t].pc = "ack"
  /\ \/ /\ acks' = acks \union
             {[n |-> tasks[t].n, ver |-> Version(tasks[t].n), status |-> tasks[t].status]}
        /\ UNCHANGED faults
     \/ Fault("lost_ack") /\ UNCHANGED acks
  /\ Goto(t, "release")
  /\ UNCHANGED <<disk, recorded, written, ami, loaded, published, queue>>

\* message.process() returns: the broker forgets the message, if the
\* connection it came on is still there.
Release(t) ==
  /\ tasks[t].pc = "release"
  /\ tasks' = [tasks EXCEPT ![t] = Idle]
  /\ UNCHANGED <<disk, recorded, written, ami, loaded, busVars>>

-----------------------------------------------------------------------------
\* The daemon dies and is restarted; it may die between two files.
Crash ==
  /\ Fault("crash")
  /\ queue' = queue \union Held
  /\ tasks' = [t \in Slots |-> Idle]
  /\ \/ UNCHANGED disk
     \/ /\ \E t \in Slots : tasks[t].pc = "idle"
        /\ \E n \in queue : /\ IsNext(n) /\ ~ Stale(n)
                            /\ \E fs \in SUBSET FilesOf(n) : disk' = Overlay(n, fs)
  /\ ami' = TRUE
  /\ UNCHANGED <<recorded, written, loaded, published, acks>>

\* connect_robust reconnects; tasks of the old connection run to their end.
BrokerReconnect ==
  /\ Held # {}
  /\ Fault("reconnect")
  /\ queue' = queue \union Held
  /\ tasks' = [t \in Slots |-> [tasks[t] EXCEPT !.held = FALSE]]
  /\ UNCHANGED <<disk, recorded, written, ami, loaded, published, acks>>

AmiDown ==
  /\ ami
  /\ Fault("ami")
  /\ ami' = FALSE
  /\ UNCHANGED <<tasks, disk, recorded, written, loaded, published, queue, acks>>

\* The connection is back; if Asterisk was restarted it read the disk.
AmiUp ==
  /\ ~ ami
  /\ ami' = TRUE
  /\ loaded' \in {loaded, disk}
  /\ UNCHANGED <<tasks, disk, recorded, written, busVars>>

\* Whatever the task in slot t, or the delivery to it, does next.
TaskNext(t) ==
  \/ \E n \in queue : Skip(t, n) \/ Write(t, n) \/ WriteFails(t, n)
  \/ Reload(t)
  \/ Save(t)
  \/ SaveFails(t)
  \/ Acknowledge(t)
  \/ Release(t)

=============================================================================
