----------------------------- MODULE ConfigBus -----------------------------
(***************************************************************************)
(* What the two ends of a configuration deploy share: the tenant's config  *)
(* messages in the durable queue pbx-ami-daemon-config, the confirmations  *)
(* POSTed back to Odoo, and the faults the environment may still inject.   *)
(*                                                                         *)
(* The content of a file is the number of the edit it was generated from;  *)
(* Absent is a file the generator does not produce at present.  A message  *)
(* is known by its number: its place in the order of publication, which is *)
(* also the order in which the broker delivers.                            *)
(***************************************************************************)
EXTENDS Naturals, Sequences

CONSTANTS
  Files,       (* file names of one tenant, e.g. extensions.conf           *)
  BaseFiles,   (* those generate_all always produces                       *)
  FaultKinds,  (* faults that may happen in this instance                  *)
  MaxFaults    (* how many of them, in all                                 *)

ASSUME BusAssumption ==
  /\ BaseFiles \subseteq Files
  /\ FaultKinds \subseteq
       {"crash", "reconnect", "lost_ack", "write", "ami", "publish", "rollback"}
  /\ MaxFaults \in Nat

VARIABLES
  published,   (* every config message handed to the broker, in order      *)
  queue,       (* numbers of the messages waiting in the durable queue     *)
  acks,        (* confirmations on their way to /pbx/webhook               *)
  faults       (* faults that have happened                                *)

busVars == <<published, queue, acks, faults>>

Absent == 0
Content == [Files -> Nat]
NoContent == [f \in Files |-> Absent]

Message == [ver : Nat, files : Content]
Status == {"applied", "skipped", "error"}
Ack == [n : Nat, ver : Nat, status : Status]

BusTypeOK ==
  /\ published \in Seq(Message)
  /\ queue \subseteq DOMAIN published
  /\ acks \subseteq Ack
  /\ faults \in Nat

BusInit ==
  /\ published = << >>
  /\ queue = {}
  /\ acks = {}
  /\ faults = 0

\* One more fault of this kind is allowed, and happens.
Fault(kind) ==
  /\ kind \in FaultKinds
  /\ faults < MaxFaults
  /\ faults' = faults + 1

=============================================================================
