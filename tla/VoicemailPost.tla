---------------------------- MODULE VoicemailPost ----------------------------
(***************************************************************************)
(* What the daemon and Odoo share when a voicemail is delivered: the POSTs *)
(* on their way to /pbx/webhook, and the faults that may still happen.     *)
(*                                                                         *)
(* A voicemail is known by its number, the order in which callers left     *)
(* them, which stands for its audio, the hash of the audio and its caller; *)
(* None is no voicemail.  A POST is known by its number too.               *)
(***************************************************************************)
EXTENDS Naturals, FiniteSets, Sequences

CONSTANTS
  Mailboxes,    (* mailboxes of the tenant                                 *)
  FaultKinds,   (* faults that may happen in this instance                 *)
  MaxFaults     (* how many of them, in all                                *)

ASSUME PostAssumption ==
  /\ FaultKinds \subseteq {"restart", "link", "lost_post", "slow_post", "rollback",
                           "mq", "transcriber", "lost_result"}
  /\ MaxFaults \in Nat

VARIABLES
  posts,    (* POSTs Odoo has not begun to handle                          *)
  posted,   (* number of POSTs so far                                      *)
  lost,     (* POSTs with audio that did not get into Odoo                 *)
  faults    (* faults that have happened                                   *)

postVars == <<posts, posted, lost, faults>>

None == 0

\* msg: whose caller and duration it carries; audio: whose recording.
Post == [k : Nat, mb : Mailboxes, msg : Nat, audio : Nat]

PostTypeOK ==
  /\ posts \subseteq Post
  /\ posted \in Nat
  /\ lost \in Nat
  /\ faults \in Nat

PostInit == posts = {} /\ posted = 0 /\ lost = 0 /\ faults = 0

Fault(kind) ==
  /\ kind \in FaultKinds
  /\ faults < MaxFaults
  /\ faults' = faults + 1

\* A POST with this audio fails; it is logged and nothing is repeated.
Lose(audio) == lost' = IF audio # None THEN lost + 1 ELSE lost

=============================================================================
