------------------------------- MODULE CallLog -------------------------------
(***************************************************************************)
(* The call history: Asterisk's CDR events, one per leg of a call, are     *)
(* POSTed by the daemon one after the other and become pbx.call rows, one  *)
(* per call.  The daemon gives a POST up after 5 s; Odoo then handles it   *)
(* beside the next one, each in a transaction with its own snapshot.       *)
(***************************************************************************)
EXTENDS Integers, FiniteSets, Sequences

CONSTANTS
  Extensions,   (* public numbers of the extensions                        *)
  Outside,      (* other telephone numbers                                 *)
  FaultKinds,   (* faults that may happen in this instance                 *)
  MaxFaults,    (* bound: how many of them, in all                         *)
  MaxCalls,     (* bound: calls                                            *)
  MaxTrunks     (* bound: trunks an outbound call tries                    *)

ASSUME CallAssumption ==
  /\ Extensions \cap Outside = {}
  /\ FaultKinds \subseteq {"slow_post", "lost_post", "asterisk"}
  /\ MaxFaults \in Nat /\ MaxCalls \in Nat /\ MaxTrunks \in Nat

VARIABLES
  calls,     (* number of calls so far                                     *)
  channels,  (* number of the latest channel since Asterisk started        *)
  wire,      (* legs of ended calls, in the order of their CDR events      *)
  waiting,   (* the leg whose POST the daemon waits for, if any            *)
  posts,     (* legs whose POST Odoo has not begun to handle               *)
  open,      (* transactions that will change rows                         *)
  rows,      (* committed pbx.call records                                 *)
  partners,  (* res.partner records made for numbers nobody had            *)
  faults,    (* faults that have happened                                  *)
  (* what happened, for the properties only *)
  handled,   (* legs whose transaction has ended                           *)
  givenUp    (* calls with a leg whose POST was given up                   *)

asteriskVars == <<calls, channels>>
odooVars == <<open, rows, partners, handled>>
vars == <<asteriskVars, wire, waiting, posts, odooVars, faults, givenUp>>

Number == Extensions \union Outside
NoNumber == "no number"
Outcome == {"answered", "busy", "missed"}

\* A channel is named after what it belongs to, a trunk or an extension's
\* device, and numbered from 1 when Asterisk starts.
Channel == [of : Extensions \union {"trunk", "none"}, n : Nat]
NoChannel == [of |-> "none", n |-> 0]
Trunk(n) == [of |-> "trunk", n |-> n]
Device(ext, n) == [of |-> ext, n |-> n]

\* call and leg say which call's which leg it is; the code cannot see them.
Leg == [call : Nat, leg : Nat, channel : Channel, dest : Channel, dials : BOOLEAN,
        src : Number \union {NoNumber}, dst : Number, outcome : Outcome]

Row == [id : Leg, key : Channel, ext : Extensions, outgoing : BOOLEAN,
        number : Number, handling : Outcome]

TypeOK ==
  /\ calls \in Nat /\ channels \in Nat /\ faults \in Nat
  /\ \A i \in DOMAIN wire : wire[i] \in Leg
  /\ waiting \subseteq Leg /\ Cardinality(waiting) <= 1
  /\ posts \subseteq Leg
  /\ \A t \in open : t.leg \in Leg /\ t.row \in Row /\ t.old \subseteq rows
  /\ rows \subseteq Row
  /\ \A p \in partners : p.number \in Number /\ p.by \in Leg
  /\ handled \subseteq Leg
  /\ givenUp \subseteq 1 .. calls

Init ==
  /\ calls = 0 /\ channels = 0
  /\ wire = << >>
  /\ waiting = {}
  /\ posts = {} /\ open = {} /\ rows = {} /\ partners = {}
  /\ faults = 0
  /\ handled = {} /\ givenUp = {}

Fault(kind) ==
  /\ kind \in FaultKinds
  /\ faults < MaxFaults
  /\ faults' = faults + 1

-----------------------------------------------------------------------------
(* Asterisk: a call ends and its legs' CDR events are on their way.         *)

EndCall(legs, used) ==
  /\ calls < MaxCalls
  /\ calls' = calls + 1
  /\ channels' = channels + used
  /\ wire' = wire \o legs
  /\ UNCHANGED <<waiting, posts, odooVars, faults, givenUp>>

\* A ring group or follow-me: one Dial leg per device rung, in this order,
\* of which the answered-th (0: none) was answered, and the trunk's own leg.
Inbound(from, rung, answered) ==
  LET trunk == Trunk(channels + 1)
      leg(i) == [call |-> calls + 1, leg |-> i, channel |-> trunk,
                 dest |-> IF i > Len(rung) THEN NoChannel ELSE Device(rung[i], channels + 1 + i),
                 dials |-> i <= Len(rung), src |-> from, dst |-> rung[1],
                 outcome |-> IF i = answered THEN "answered" ELSE "missed"]
  IN EndCall([i \in 1 .. Len(rung) + 1 |-> leg(i)], Len(rung) + 1)

\* Trunks are tried in turn; only the last may be answered.
Outbound(ext, to, trunks, last) ==
  LET leg(i) == [call |-> calls + 1, leg |-> i, channel |-> Device(ext, channels + 1),
                 dest |-> Trunk(channels + 1 + i), dials |-> TRUE, src |-> ext, dst |-> to,
                 outcome |-> IF i = trunks THEN last ELSE "missed"]
  IN EndCall([i \in 1 .. trunks |-> leg(i)], trunks + 1)

\* One extension calls another.
Internal(from, to, outcome) ==
  EndCall(<<[call |-> calls + 1, leg |-> 1, channel |-> Device(from, channels + 1),
             dest |-> Device(to, channels + 2), dials |-> TRUE, src |-> from, dst |-> to,
             outcome |-> outcome]>>, 2)

\* Asterisk restarts and numbers its channels from 1 again.
AsteriskRestart ==
  /\ channels > 0
  /\ Fault("asterisk")
  /\ channels' = 0
  /\ UNCHANGED <<calls, wire, waiting, posts, odooVars, givenUp>>

-----------------------------------------------------------------------------
(* The daemon                                                              *)

Post ==
  /\ waiting = {} /\ wire # << >>
  /\ wire' = Tail(wire)
  /\ waiting' = {Head(wire)}
  /\ posts' = posts \union {Head(wire)}
  /\ UNCHANGED <<asteriskVars, odooVars, faults, givenUp>>

Pending == posts \union {t.leg : t \in open}

Answered ==
  /\ waiting # {} /\ waiting \cap Pending = {}
  /\ waiting' = {}
  /\ UNCHANGED <<asteriskVars, wire, posts, odooVars, faults, givenUp>>

GiveUp ==
  /\ waiting # {} /\ waiting \subseteq Pending
  /\ Fault("slow_post")
  /\ waiting' = {}
  /\ givenUp' = givenUp \union {leg.call : leg \in waiting}
  /\ UNCHANGED <<asteriskVars, wire, posts, odooVars>>

LosePost ==
  /\ waiting # {} /\ waiting \subseteq posts
  /\ Fault("lost_post")
  /\ posts' = posts \ waiting
  /\ waiting' = {}
  /\ UNCHANGED <<asteriskVars, wire, odooVars, givenUp>>

-----------------------------------------------------------------------------
(* _handle_cdr_call                                                        *)

\* The extension whose device is in Channel, or is dialled.
ExtensionOf(leg) ==
  IF leg.channel.of \in Extensions THEN {leg.channel.of}
  ELSE IF leg.dials THEN {leg.dest.of} \cap Extensions
  ELSE {}

Outgoing(leg) == leg.src \in ExtensionOf(leg)
Caller(leg) == IF Outgoing(leg) THEN leg.dst ELSE leg.src

\* The mutant: legs without a number of the caller are logged.
IsLoggedToo(leg) == ExtensionOf(leg) # {}

\* The call reached an extension and its caller's number is known.
IsLogged(leg) == ExtensionOf(leg) # {} /\ leg.src # NoNumber

\* The mutant: the channel that is dialled names the call.
KeyOfLeg(leg) == IF leg.dest # NoChannel THEN leg.dest ELSE leg.channel

\* The name of the call's trunk channel, or of the channel that dials.
Key(leg) ==
  IF leg.channel.of = "trunk" THEN leg.channel
  ELSE IF leg.dest.of = "trunk" THEN leg.dest
  ELSE leg.channel

\* The row of the call among the committed ones: what the snapshot shows.
Existing(leg) == {r \in rows : r.key = Key(leg)}

RowOf(leg) ==
  [id |-> leg, key |-> Key(leg), ext |-> CHOOSE e \in ExtensionOf(leg) : TRUE,
   outgoing |-> Outgoing(leg), number |-> Caller(leg), handling |-> leg.outcome]

\* The mutants: any later leg replaces the row; none does.
ImprovesAlways(leg, r) == leg.outcome = "answered" /\ r \in rows
ImprovesNever(leg, r) == FALSE /\ leg.outcome = r.handling

Improves(leg, r) == leg.outcome = "answered" /\ r.handling # "answered"

\* The mutant: nobody is looked up.
UnknownToAll(number) == TRUE \/ number \in Number

Unknown(number) == \A p \in partners : p.number # number

\* The leg changes nothing: it is not of a call to log, or the call's row is
\* as good.
Ignore(leg) ==
  /\ \/ ~ IsLogged(leg)
     \/ \E r \in Existing(leg) : ~ Improves(leg, r)
  /\ posts' = posts \ {leg}
  /\ handled' = handled \union {leg}
  /\ UNCHANGED <<asteriskVars, wire, waiting, open, rows, partners, faults, givenUp>>

\* No row of the call in the snapshot: log_call makes one, and the partner.
Create(leg) ==
  /\ IsLogged(leg) /\ Existing(leg) = {}
  /\ posts' = posts \ {leg}
  /\ open' = open \union
       {[leg |-> leg, row |-> RowOf(leg), old |-> {},
         partner |-> {n \in {Caller(leg)} : Unknown(n)}]}
  /\ UNCHANGED <<asteriskVars, wire, waiting, rows, partners, handled, faults, givenUp>>

\* The row is brought to the leg that was answered.
Upgrade(leg) ==
  /\ IsLogged(leg)
  /\ \E r \in Existing(leg) :
        /\ Improves(leg, r)
        /\ open' = open \union
             {[leg |-> leg, old |-> {r}, partner |-> {},
               row |-> [r EXCEPT !.handling = leg.outcome, !.ext = RowOf(leg).ext]]}
  /\ posts' = posts \ {leg}
  /\ UNCHANGED <<asteriskVars, wire, waiting, rows, partners, handled, faults, givenUp>>

\* The transaction commits.  Another that replaces the same row then fails,
\* and Odoo handles its request again from the start.
Commit(t) ==
  LET beaten == {u \in open \ {t} : u.old \cap t.old # {}} IN
  /\ rows' = (rows \ t.old) \union {t.row}
  /\ partners' = partners \union {[number |-> n, by |-> t.leg] : n \in t.partner}
  /\ open' = open \ ({t} \union beaten)
  /\ posts' = posts \union {u.leg : u \in beaten}
  /\ handled' = handled \union {t.leg}
  /\ UNCHANGED <<asteriskVars, wire, waiting, faults, givenUp>>

-----------------------------------------------------------------------------
Next ==
  \/ \E from \in Outside \union {NoNumber}, e \in Extensions, answered \in 0 .. 1 : Inbound(from, <<e>>, answered)
  \/ \E from \in Outside \union {NoNumber}, e, f \in Extensions, answered \in 0 .. 2 :
        e # f /\ Inbound(from, <<e, f>>, answered)
  \/ \E ext \in Extensions, to \in Outside, n \in 1 .. MaxTrunks, last \in Outcome :
        Outbound(ext, to, n, last)
  \/ \E from, to \in Extensions, outcome \in Outcome : from # to /\ Internal(from, to, outcome)
  \/ AsteriskRestart
  \/ Post
  \/ Answered
  \/ GiveUp
  \/ LosePost
  \/ \E leg \in posts : Ignore(leg)
  \/ \E leg \in posts : Create(leg)
  \/ \E leg \in posts : Upgrade(leg)
  \/ \E t \in open : Commit(t)

\* The daemon goes through its events and Odoo ends what it begins.
Fairness ==
  /\ WF_vars(Post)
  /\ WF_vars(Answered)
  /\ WF_vars(\E leg \in posts : Ignore(leg) \/ Create(leg) \/ Upgrade(leg))
  /\ WF_vars(\E t \in open : Commit(t))

Spec == Init /\ [][Next]_vars
FairSpec == Spec /\ Fairness

-----------------------------------------------------------------------------
\* No other call of those handled had this channel name.
NameIsOwn(leg) == \A other \in handled : Key(other) = Key(leg) => other.call = leg.call

\* An inbound call has one row, however many devices it rang, unless one of
\* its POSTs was given up and handled beside another.
InboundLoggedOnce ==
  \A r, s \in rows :
    r.id.call = s.id.call /\ ~ r.outgoing /\ r.id.call \notin givenUp => r = s

\* The extension that answered a call is on the call's row, in whatever order
\* the legs came and their transactions ended.
AnsweredIsShown ==
  \A leg \in handled :
    IsLogged(leg) /\ leg.outcome = "answered" /\ NameIsOwn(leg) =>
      \E r \in rows : r.key = Key(leg) /\ r.handling = "answered" /\ r.ext \in ExtensionOf(leg)

\* What was answered stays so: no later leg, of this or of another call of the
\* same channel name, changes the row.
AnsweredStays == [][\A r \in rows : r.handling = "answered" => r \in rows']_vars

\* A number nobody had gets one contact, unless a POST was given up.
OnePartnerPerNumber ==
  \A p, q \in partners : p.number = q.number /\ givenUp = {} => p = q

=============================================================================
