--------------------------- MODULE VoicemailDaemon ---------------------------
(***************************************************************************)
(* The voicemail leg of the daemon: Asterisk's spool and its MessageWaiting *)
(* (MWI) events, the AMI connection they come by, EventConsumer, which      *)
(* handles one event at a time and waits for its POST, and the              *)
(* MailboxMarker, which outlives the connection but not the process.        *)
(*                                                                         *)
(* An MWI event says only that a mailbox changed; what is in the mailbox    *)
(* is looked up when the event is handled.                                  *)
(***************************************************************************)
EXTENDS VoicemailPost

CONSTANTS
  MaxMessages,   (* bound: voicemails left                                 *)
  MaxChanges     (* bound: playbacks, moves to another folder, deletions   *)

ASSUME DaemonAssumption == MaxMessages \in Nat /\ MaxChanges \in Nat

VARIABLES
  inbox,      (* spool: the voicemails in INBOX, by msgN number            *)
  left,       (* number of voicemails left so far                          *)
  changes,    (* number of changes so far                                  *)
  link,       (* the AMI connection is up                                  *)
  wire,       (* mailboxes of the events that the daemon has not read      *)
  marker,     (* MailboxMarker: file and hash last delivered or seeded     *)
  waiting,    (* the POST EventConsumer waits for, or None                 *)
  (* what happened, for the properties only *)
  starts,     (* starts of the daemon                                      *)
  seen,       (* per mailbox, voicemails that some event found the newest  *)
  reverted,   (* mailboxes whose newest voicemail was once taken away      *)
  missed      (* mailboxes whose latest event was lost with the connection *)

spoolVars == <<inbox, left, changes>>
historyVars == <<starts, seen, reverted, missed>>
daemonVars == <<spoolVars, link, wire, marker, waiting, historyVars>>

NoMark == [file |-> None, hash |-> None]
Mark == [file : Nat, hash : Nat]

DaemonTypeOK ==
  /\ inbox \in [Mailboxes -> Seq(1 .. left)]
  /\ left \in Nat /\ changes \in Nat
  /\ link \in BOOLEAN
  /\ wire \in Seq(Mailboxes)
  /\ marker \in [Mailboxes -> Mark]
  /\ waiting \in 0 .. posted
  /\ starts \in Nat
  /\ seen \in [Mailboxes -> SUBSET (1 .. left)]
  /\ reverted \subseteq Mailboxes
  /\ missed \subseteq Mailboxes

DaemonInit ==
  /\ inbox = [mb \in Mailboxes |-> << >>]
  /\ left = 0 /\ changes = 0
  /\ link = TRUE
  /\ wire = << >>
  /\ marker = [mb \in Mailboxes |-> NoMark]
  /\ waiting = None
  /\ starts = 1
  /\ seen = [mb \in Mailboxes |-> {}]
  /\ reverted = {}
  /\ missed = {}

\* The file with the highest number, and the voicemail in it.
File(mb) == Len(inbox[mb])
Newest(mb) == IF inbox[mb] = << >> THEN None ELSE inbox[mb][File(mb)]

-----------------------------------------------------------------------------
(* Asterisk                                                                *)

\* MWI for the mailbox; nobody is told while the daemon is not logged in.
Notify(mb) ==
  IF link THEN wire' = Append(wire, mb) /\ missed' = missed \ {mb}
  ELSE UNCHANGED wire /\ missed' = missed \union {mb}

\* A caller leaves a voicemail.
Leave(mb) ==
  /\ left < MaxMessages
  /\ left' = left + 1
  /\ inbox' = [inbox EXCEPT ![mb] = Append(@, left + 1)]
  /\ Notify(mb)
  /\ UNCHANGED <<changes, link, marker, waiting, starts, seen, reverted, postVars>>

Without(s, i) == [j \in 1 .. Len(s) - 1 |-> IF j < i THEN s[j] ELSE s[j + 1]]

\* The i-th voicemail is deleted or moved, and those after it are renumbered;
\* or (i = 0) one is played and stays.
Change(mb, i) ==
  /\ changes < MaxChanges
  /\ inbox[mb] # << >>
  /\ changes' = changes + 1
  /\ inbox' = IF i = 0 THEN inbox ELSE [inbox EXCEPT ![mb] = Without(@, i)]
  /\ reverted' = IF i = File(mb) THEN reverted \union {mb} ELSE reverted
  /\ Notify(mb)
  /\ UNCHANGED <<left, link, marker, waiting, starts, seen, postVars>>

-----------------------------------------------------------------------------
(* EventConsumer                                                           *)

\* The mutant: the marker is keyed on the name of the file.
IsNewByFile(mb) == marker[mb].file # File(mb) /\ Newest(mb) # None

\* MailboxMarker.is_new
IsNew(mb) == marker[mb].hash # Newest(mb)

\* The next event is taken up and posted with this audio.
Handle(mb, audio) ==
  /\ waiting = None
  /\ wire # << >> /\ Head(wire) = mb
  /\ wire' = Tail(wire)
  /\ posted' = posted + 1
  /\ posts' = posts \union {[k |-> posted + 1, mb |-> mb, msg |-> Newest(mb), audio |-> audio]}
  /\ waiting' = posted + 1
  /\ seen' = [seen EXCEPT ![mb] = @ \union ({Newest(mb)} \ {None})]
  /\ UNCHANGED <<spoolVars, link, starts, reverted, missed, lost, faults>>

Remember(mb) == marker' = [marker EXCEPT ![mb] = [file |-> File(mb), hash |-> Newest(mb)]]

\* Nothing to read, or delivered already: the event goes out without audio.
Repeat(mb) ==
  /\ Newest(mb) = None \/ ~ IsNew(mb)
  /\ Handle(mb, None)
  /\ UNCHANGED marker

\* The mutant: nothing is remembered when nothing is delivered.
SeedForgets(mb) ==
  /\ Newest(mb) # None /\ IsNew(mb) /\ marker[mb] = NoMark
  /\ Handle(mb, None)
  /\ UNCHANGED marker

\* The first voicemail the daemon sees of the mailbox is taken for delivered.
Seed(mb) ==
  /\ Newest(mb) # None /\ IsNew(mb) /\ marker[mb] = NoMark
  /\ Handle(mb, None)
  /\ Remember(mb)

Send(mb) ==
  /\ Newest(mb) # None /\ IsNew(mb) /\ marker[mb] # NoMark
  /\ Handle(mb, Newest(mb))
  /\ Remember(mb)

\* Whether Odoo is still to answer the POST the daemon waits for.
Unanswered(k, open) == k \in {p.k : p \in posts} \union open

\* urlopen returns, whatever the status.
Answered(open) ==
  /\ waiting # None
  /\ ~ Unanswered(waiting, open)
  /\ waiting' = None
  /\ UNCHANGED <<spoolVars, link, wire, marker, historyVars, postVars>>

\* After 5 s the daemon goes on; Odoo does not know.
GiveUp(open) ==
  /\ waiting # None
  /\ Unanswered(waiting, open)
  /\ Fault("slow_post")
  /\ waiting' = None
  /\ UNCHANGED <<spoolVars, link, wire, marker, historyVars, posts, posted, lost>>

\* The POST does not reach Odoo.
LosePost(p) ==
  /\ Fault("lost_post")
  /\ posts' = posts \ {p}
  /\ Lose(p.audio)
  /\ waiting' = IF waiting = p.k THEN None ELSE waiting
  /\ UNCHANGED <<spoolVars, link, wire, marker, historyVars, posted>>

-----------------------------------------------------------------------------
(* Connection and process                                                  *)

\* Events up to the n-th were received and will still be handled.
LinkDown(n) ==
  /\ link
  /\ Fault("link")
  /\ link' = FALSE
  /\ wire' = SubSeq(wire, 1, n)
  /\ missed' = missed \union {wire[i] : i \in n + 1 .. Len(wire)}
  /\ UNCHANGED <<spoolVars, marker, waiting, starts, seen, reverted, posts, posted, lost>>

\* The mutant: each EventConsumer has a marker of its own.
LinkUpAfresh ==
  /\ ~ link /\ wire = << >> /\ waiting = None
  /\ link' = TRUE
  /\ marker' = [mb \in Mailboxes |-> NoMark]
  /\ UNCHANGED <<spoolVars, wire, waiting, historyVars, postVars>>

\* amain's loop: a new EventConsumer, when the old one has returned.
LinkUp ==
  /\ ~ link /\ wire = << >> /\ waiting = None
  /\ link' = TRUE
  /\ UNCHANGED <<spoolVars, wire, marker, waiting, historyVars, postVars>>

\* The daemon is restarted; the POST it had sent still arrives, or it was not
\* sent yet.
Restart ==
  /\ Fault("restart")
  /\ marker' = [mb \in Mailboxes |-> NoMark]
  /\ waiting' = None
  /\ link' = TRUE
  /\ wire' = << >>
  /\ starts' = starts + 1
  /\ missed' = Mailboxes
  /\ \/ UNCHANGED <<posts, lost>>
     \/ \E p \in posts : /\ p.k = waiting
                        /\ posts' = posts \ {p}
                        /\ Lose(p.audio)
  /\ UNCHANGED <<spoolVars, seen, reverted, posted>>

=============================================================================
