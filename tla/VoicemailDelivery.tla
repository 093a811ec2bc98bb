-------------------------- MODULE VoicemailDelivery --------------------------
(***************************************************************************)
(* A voicemail's way from Asterisk's spool to a transcribed pbx.call.       *)
(***************************************************************************)
EXTENDS VoicemailDaemon, VoicemailInbox

vars == <<postVars, daemonVars, inboxVars>>

Init == PostInit /\ DaemonInit /\ InboxInit

OpenPosts == {c.k : c \in open}

Next ==
  \/ \E mb \in Mailboxes : Leave(mb) /\ UNCHANGED inboxVars
  \/ \E mb \in Mailboxes, i \in 0 .. MaxMessages :
        i <= File(mb) /\ Change(mb, i) /\ UNCHANGED inboxVars
  \/ \E mb \in Mailboxes : Repeat(mb) /\ UNCHANGED inboxVars
  \/ \E mb \in Mailboxes : Seed(mb) /\ UNCHANGED inboxVars
  \/ \E mb \in Mailboxes : Send(mb) /\ UNCHANGED inboxVars
  \/ Answered(OpenPosts) /\ UNCHANGED inboxVars
  \/ GiveUp(OpenPosts) /\ UNCHANGED inboxVars
  \/ \E p \in posts : LosePost(p) /\ UNCHANGED inboxVars
  \/ \E n \in 0 .. Len(wire) : LinkDown(n) /\ UNCHANGED inboxVars
  \/ LinkUp /\ UNCHANGED inboxVars
  \/ Restart /\ UNCHANGED inboxVars
  \/ \E p \in posts : Begin(p) /\ UNCHANGED daemonVars
  \/ \E c \in open : CommitCall(c) /\ UNCHANGED daemonVars
  \/ \E c \in open : FailCall(c) /\ UNCHANGED daemonVars
  \/ \E j \in jobs : Transcribe(j) /\ UNCHANGED daemonVars
  \/ \E r \in results : LoseResult(r) /\ UNCHANGED daemonVars
  \/ \E r \in results : HandleResult(r) /\ UNCHANGED daemonVars

\* The daemon reads what has come and goes on when it is answered, Odoo ends
\* what it begins; callers, users and faults owe nothing.
Fairness ==
  /\ WF_vars((\E mb \in Mailboxes : Repeat(mb) \/ Seed(mb) \/ Send(mb)) /\ UNCHANGED inboxVars)
  /\ WF_vars(Answered(OpenPosts) /\ UNCHANGED inboxVars)
  /\ WF_vars((\E p \in posts : Begin(p)) /\ UNCHANGED daemonVars)
  /\ WF_vars((\E c \in open : CommitCall(c)) /\ UNCHANGED daemonVars)

Spec == Init /\ [][Next]_vars
FairSpec == Spec /\ Fairness

-----------------------------------------------------------------------------
TypeOK == PostTypeOK /\ DaemonTypeOK /\ InboxTypeOK

Records == posts \union open \union calls
Delivered(mb) == {r.audio : r \in {s \in Records : s.mb = mb}} \ {None}

\* The recording of a voicemail gets into Odoo once, through repeated events,
\* reconnects, restarts and POSTs given up, as long as no voicemail was taken
\* away while it was the newest of its mailbox (is_new, remember).
DeliveredOnce ==
  \A r, s \in Records : r.audio # None /\ r.audio = s.audio /\ r.mb \notin reverted => r.k = s.k

\* "At most one delivery is lost per mailbox per restart": of the voicemails
\* that an event found the newest, each start of the daemon costs a mailbox
\* one at most, and each POST or transaction that failed one.
AtMostOneLostPerStart ==
  \A mb \in Served : Cardinality(seen[mb] \ Delivered(mb)) <= starts + lost

\* A transcript is of the call's own recording, whenever the results arrive.
TranscriptIsOwn == \A c \in calls : c.text # None => c.text = c.audio

\* The newest voicemail of a mailbox gets its turn, unless the event about it
\* was lost with the connection: the daemon does not stop at a POST that fails.
Behind(mb) == Newest(mb) # None /\ IsNew(mb) /\ mb \notin missed
NewestIsHandled == \A mb \in Mailboxes : Behind(mb) ~> ~ Behind(mb)

=============================================================================
