--------------------------- MODULE VoicemailInbox ---------------------------
(***************************************************************************)
(* The voicemail leg of Odoo.  A POST of a MessageWaiting event is handled *)
(* in a transaction of its own: a pbx.call, its attachment when there is   *)
(* audio, and transcription jobs, which leave for the broker before the    *)
(* transaction commits.  The transcriber's results come back by the daemon *)
(* as POSTs of another kind.                                               *)
(***************************************************************************)
EXTENDS VoicemailPost

CONSTANTS
  Served,     (* mailboxes whose number is a pbx.extension                 *)
  Enabled,    (* those whose device has transcribe_enabled                 *)
  OptedIn,    (* those whose device has transcribe_voicemail               *)
  AlwaysPolicy   (* the company's recording policy is "always"             *)

ASSUME InboxAssumption ==
  /\ Served \subseteq Mailboxes /\ Enabled \subseteq Served /\ OptedIn \subseteq Served
  /\ AlwaysPolicy \in BOOLEAN

VARIABLES
  open,       (* calls created in transactions that have not committed     *)
  calls,      (* committed pbx.call records of voicemails                  *)
  jobs,       (* transcription jobs in the broker                          *)
  results     (* results in the broker                                     *)

inboxVars == <<open, calls, jobs, results>>

\* text: the voicemail whose transcript is on the call.
Call == [k : Nat, mb : Mailboxes, msg : Nat, audio : Nat, text : Nat]
\* by: who asked for it, the voicemail service or the hook of pbx_ai.
Job == [call : Nat, audio : Nat \ {None}, by : {"service", "hook"}]

InboxTypeOK ==
  /\ open \subseteq Call
  /\ calls \subseteq Call
  /\ jobs \subseteq Job
  /\ results \subseteq Job

InboxInit == open = {} /\ calls = {} /\ jobs = {} /\ results = {}

-----------------------------------------------------------------------------
\* The mutant: the empty attachment of an event without audio is sent, too.
AskersOfAny(p) ==
  (IF p.mb \in Enabled /\ (p.mb \in OptedIn \/ AlwaysPolicy) THEN {"service"} ELSE {})
    \union (IF p.mb \in OptedIn THEN {"hook"} ELSE {})

\* on_recording_ready asks _should_transcribe; the hook asks the device only.
Askers(p) ==
  IF p.audio = None THEN {}
  ELSE (IF p.mb \in Enabled /\ (p.mb \in OptedIn \/ AlwaysPolicy) THEN {"service"} ELSE {})
       \union (IF p.mb \in OptedIn THEN {"hook"} ELSE {})

\* A worker takes up the POST: the call, the attachment and the activity are
\* written and the jobs are published; publish says nothing when it fails, so
\* the fallback of on_recording_ready is never taken.
Begin(p) ==
  /\ posts' = posts \ {p}
  /\ open' = IF p.mb \in Served
             THEN open \union {[k |-> p.k, mb |-> p.mb, msg |-> p.msg, audio |-> p.audio,
                                text |-> None]}
             ELSE open
  /\ \/ /\ jobs' = jobs \union
             {[call |-> p.k, audio |-> p.audio, by |-> who] : who \in Askers(p)}
        /\ UNCHANGED faults
     \/ Askers(p) # {} /\ Fault("mq") /\ UNCHANGED jobs
  /\ UNCHANGED <<calls, results, posted, lost>>

CommitCall(c) ==
  /\ open' = open \ {c}
  /\ calls' = calls \union {c}
  /\ UNCHANGED <<jobs, results, postVars>>

\* The request fails; jobs that have left are not called back.
FailCall(c) ==
  /\ Fault("rollback")
  /\ open' = open \ {c}
  /\ Lose(c.audio)
  /\ UNCHANGED <<calls, jobs, results, posts, posted>>

-----------------------------------------------------------------------------
\* The transcriber answers with the call_id it was given.
Transcribe(j) ==
  /\ jobs' = jobs \ {j}
  /\ \/ results' = results \union {j} /\ UNCHANGED faults
     \/ Fault("transcriber") /\ UNCHANGED results
  /\ UNCHANGED <<open, calls, posts, posted, lost>>

\* on_result: the broker's message is acknowledged although the POST failed.
LoseResult(r) ==
  /\ Fault("lost_result")
  /\ results' = results \ {r}
  /\ UNCHANGED <<open, calls, jobs, posts, posted, lost>>

\* The mutant: the result goes to the mailbox's latest call.
HandleForLatest(r) ==
  /\ results' = results \ {r}
  /\ \E own \in {c \in calls : c.k = r.call}, latest \in calls :
        /\ latest.mb = own.mb /\ \A c \in calls : c.mb = own.mb => c.k <= latest.k
        /\ calls' = (calls \ {latest}) \union {[latest EXCEPT !.text = r.audio]}
  /\ UNCHANGED <<open, jobs, postVars>>

\* handle_transcribe_result; a call that is not there (yet) is logged only.
HandleResult(r) ==
  /\ results' = results \ {r}
  /\ calls' = {IF c.k = r.call THEN [c EXCEPT !.text = r.audio] ELSE c : c \in calls}
  /\ UNCHANGED <<open, jobs, postVars>>

=============================================================================
