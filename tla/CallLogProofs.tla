---------------------------- MODULE CallLogProofs ----------------------------
(***************************************************************************)
(* Theorems about CallLog for every set of numbers, every bound and every  *)
(* kind of fault.                                                          *)
(*                                                                         *)
(* None of the properties is inductive.  Inv says besides where a leg can  *)
(* be (one place at a time, and the daemon waits for it unless it gave a   *)
(* POST of the call up), what legs of one call have in common, and what a  *)
(* transaction still knows of the rows when it commits.                    *)
(***************************************************************************)
EXTENDS CallLog, SequenceTheorems, FiniteSetTheorems, TLAPS

Queued == {wire[i] : i \in DOMAIN wire}

\* Every leg there is: on its way, with Odoo, or behind a row.
Legs == Queued \union Pending \union waiting \union handled \union {r.id : r \in rows}

Txn == [leg : Leg, row : Row, old : SUBSET Row, partner : SUBSET Number]

\* What the variables hold, in terms the steps keep.
TypeInv ==
  /\ calls \in Nat /\ channels \in Nat /\ faults \in Nat
  /\ wire \in Seq(Leg)
  /\ waiting \subseteq Leg /\ \A k, l \in waiting : k = l
  /\ posts \subseteq Leg /\ handled \subseteq Leg
  /\ rows \subseteq Row
  /\ open \subseteq Txn
  /\ partners \subseteq [number : Number, by : Leg]
  /\ givenUp \subseteq 1 .. calls

\* A leg's channel is a trunk's, or of the extension that dials.
ChannelFits(leg) ==
  leg.channel.of = "trunk" \/ (leg.channel.of \in Extensions /\ leg.src = leg.channel.of)

\* Legs of one call share the channel, and at most one of them is answered.
LegInv ==
  /\ \A l \in Legs : l.call \in 1 .. calls /\ ChannelFits(l)
  /\ \A k, l \in Legs : k.call = l.call =>
       /\ k.channel = l.channel
       /\ k.outcome = "answered" /\ l.outcome = "answered" => k = l

\* A leg is in one place: queued, posted or in one transaction.
PlaceInv ==
  /\ \A i, j \in DOMAIN wire : wire[i] = wire[j] => i = j
  /\ \A i \in DOMAIN wire : wire[i] \notin Pending
  /\ \A t \in open : t.leg \notin posts
  /\ \A t, u \in open : t.leg = u.leg => t = u

\* Odoo has only the leg the daemon waits for, and legs of calls given up.
WaitInv == \A l \in Pending : l.call \notin givenUp => l \in waiting

\* A row is named after the leg it was made for.
RowInv ==
  \A r \in rows : r.key = Key(r.id) /\ r.outgoing = Outgoing(r.id)

\* An answered row was brought to that by a leg whose extension it shows.
ShownBy(r, l) ==
  /\ l.outcome = "answered" /\ Key(l) = r.key /\ r.ext \in ExtensionOf(l)
AnsweredInv ==
  \A r \in rows : r.handling = "answered" => \E l \in handled : ShownBy(r, l)

\* A transaction makes a row, of a call that has none, or brings one that is
\* there to the leg that answered it.
Makes(t) ==
  /\ t.old = {} /\ t.row = RowOf(t.leg)
  /\ t.leg.channel.of = "trunk" /\ t.leg.call \notin givenUp =>
       \A r \in rows : r.id.call # t.leg.call
Brings(t) ==
  /\ t.leg.outcome = "answered"
  /\ \E r \in rows :
       /\ t.old = {r} /\ r.handling # "answered" /\ r.key = Key(t.leg)
       /\ t.row = [r EXCEPT !.handling = t.leg.outcome, !.ext = RowOf(t.leg).ext]
TxnInv == \A t \in open : IsLogged(t.leg) /\ (Makes(t) \/ Brings(t))

\* Nobody but the transaction has made the partner it makes.
PartnerInv ==
  \A t \in open : /\ t.partner \subseteq {Caller(t.leg)}
                  /\ givenUp = {} => \A n \in t.partner : Unknown(n)

Inv ==
  /\ TypeInv /\ LegInv /\ PlaceInv /\ WaitInv /\ RowInv /\ AnsweredInv
  /\ TxnInv /\ PartnerInv
  /\ InboundLoggedOnce /\ AnsweredIsShown /\ OnePartnerPerNumber

-----------------------------------------------------------------------------
(* Legs, rows and ended calls                                              *)

\* A leg that is logged makes a row, of an extension it reached.
LEMMA RowType ==
  ASSUME NEW leg \in Leg, IsLogged(leg)
  PROVE  RowOf(leg) \in Row /\ RowOf(leg).ext \in ExtensionOf(leg)
  <1>1. ExtensionOf(leg) \subseteq Extensions /\ ExtensionOf(leg) # {}
    BY DEF ExtensionOf, IsLogged
  <1>2. (CHOOSE e \in ExtensionOf(leg) : TRUE) \in ExtensionOf(leg)
    BY <1>1
  <1>3. Key(leg) \in Channel BY DEF Key, Leg
  <1>4. Caller(leg) \in Number BY DEF Caller, IsLogged, Leg
  <1>5. Outgoing(leg) \in BOOLEAN BY DEF Outgoing
  <1> QED BY <1>1, <1>2, <1>3, <1>4, <1>5 DEF RowOf, Row, Leg

\* The legs of one new call.
OneCall(s) ==
  /\ \A i \in DOMAIN s : s[i].call = calls + 1 /\ s[i].leg = i /\ ChannelFits(s[i])
  /\ \A i, j \in DOMAIN s :
       /\ s[i].channel = s[j].channel
       /\ s[i].outcome = "answered" /\ s[j].outcome = "answered" => i = j

Ends ==
  \/ \E from \in Outside \union {NoNumber}, e \in Extensions, answered \in 0 .. 1 : Inbound(from, <<e>>, answered)
  \/ \E from \in Outside \union {NoNumber}, e, f \in Extensions, answered \in 0 .. 2 :
        e # f /\ Inbound(from, <<e, f>>, answered)
  \/ \E ext \in Extensions, to \in Outside, n \in 1 .. MaxTrunks, last \in Outcome :
        Outbound(ext, to, n, last)
  \/ \E from, to \in Extensions, outcome \in Outcome : from # to /\ Internal(from, to, outcome)

\* Rung devices answer one at most, and all legs begin at the trunk.
LEMMA InboundLegs ==
  ASSUME TypeInv, NEW from \in Outside \union {NoNumber}, NEW rung \in Seq(Extensions),
         rung # << >>, NEW answered \in Nat, Inbound(from, rung, answered)
  PROVE  \E s \in Seq(Leg), n \in Nat : OneCall(s) /\ EndCall(s, n)
  <1> DEFINE trunk == Trunk(channels + 1)
             leg(i) == [call |-> calls + 1, leg |-> i, channel |-> trunk,
                 dest |-> IF i > Len(rung) THEN NoChannel ELSE Device(rung[i], channels + 1 + i),
                 dials |-> i <= Len(rung), src |-> from, dst |-> rung[1],
                 outcome |-> IF i = answered THEN "answered" ELSE "missed"]
             s == [i \in 1 .. Len(rung) + 1 |-> leg(i)]
  <1>1. Len(rung) \in Nat /\ Len(rung) > 0 /\ \A i \in 1 .. Len(rung) : rung[i] \in Extensions
    BY EmptySeq, ElementOfSeq
  <1>2. ASSUME NEW i \in 1 .. Len(rung) + 1 PROVE leg(i) \in Leg
    <2>1. trunk \in Channel BY DEF Trunk, Channel, TypeInv
    <2>2. (IF i > Len(rung) THEN NoChannel ELSE Device(rung[i], channels + 1 + i)) \in Channel
      BY <1>1, <1>2 DEF NoChannel, Device, Channel, TypeInv
    <2>3. rung[1] \in Number BY <1>1 DEF Number
    <2>4. from \in Number \union {NoNumber} BY DEF Number
    <2> QED BY <1>1, <1>2, <2>1, <2>2, <2>3, <2>4 DEF Leg, Outcome, TypeInv
  <1>3. s \in Seq(Leg) BY <1>1, <1>2, IsASeq
  <1>4. OneCall(s) BY <1>1 DEF OneCall, ChannelFits, Trunk
  <1>5. EndCall(s, Len(rung) + 1) BY DEF Inbound
  <1> QED BY <1>1, <1>3, <1>4, <1>5

LEMMA OutboundLegs ==
  ASSUME TypeInv, NEW ext \in Extensions, NEW to \in Outside, NEW trunks \in Nat,
         NEW last \in Outcome, Outbound(ext, to, trunks, last)
  PROVE  \E s \in Seq(Leg), n \in Nat : OneCall(s) /\ EndCall(s, n)
  <1> DEFINE leg(i) == [call |-> calls + 1, leg |-> i, channel |-> Device(ext, channels + 1),
                 dest |-> Trunk(channels + 1 + i), dials |-> TRUE, src |-> ext, dst |-> to,
                 outcome |-> IF i = trunks THEN last ELSE "missed"]
             s == [i \in 1 .. trunks |-> leg(i)]
  <1>1. ASSUME NEW i \in 1 .. trunks PROVE leg(i) \in Leg
    BY <1>1 DEF Leg, Device, Trunk, Channel, Number, Outcome, TypeInv
  <1>2. s \in Seq(Leg) BY <1>1, IsASeq
  <1>3. OneCall(s) BY DEF OneCall, ChannelFits, Device
  <1>4. EndCall(s, trunks + 1) BY DEF Outbound
  <1> QED BY <1>2, <1>3, <1>4

LEMMA InternalLegs ==
  ASSUME TypeInv, NEW from \in Extensions, NEW to \in Extensions, NEW outcome \in Outcome,
         Internal(from, to, outcome)
  PROVE  \E s \in Seq(Leg), n \in Nat : OneCall(s) /\ EndCall(s, n)
  <1> DEFINE l == [call |-> calls + 1, leg |-> 1, channel |-> Device(from, channels + 1),
             dest |-> Device(to, channels + 2), dials |-> TRUE, src |-> from, dst |-> to,
             outcome |-> outcome]
  <1>1. l \in Leg BY DEF Leg, Device, Channel, Number, Outcome, TypeInv
  <1>2. <<l>> \in Seq(Leg) BY <1>1
  <1>3. OneCall(<<l>>) BY DEF OneCall, ChannelFits, Device
  <1>4. EndCall(<<l>>, 2) BY DEF Internal
  <1> QED BY <1>2, <1>3, <1>4

LEMMA CallEnds ==
  ASSUME TypeInv, Ends
  PROVE  \E s \in Seq(Leg), n \in Nat : OneCall(s) /\ EndCall(s, n)
  <1>1. ASSUME NEW from \in Outside \union {NoNumber}, NEW e \in Extensions,
               NEW answered \in 0 .. 1, Inbound(from, <<e>>, answered)
        PROVE  \E s \in Seq(Leg), n \in Nat : OneCall(s) /\ EndCall(s, n)
    <2>1. <<e>> \in Seq(Extensions) /\ <<e>> # << >> /\ answered \in Nat OBVIOUS
    <2> QED BY <1>1, <2>1, InboundLegs
  <1>2. ASSUME NEW from \in Outside \union {NoNumber}, NEW e \in Extensions, NEW f \in Extensions,
               NEW answered \in 0 .. 2, Inbound(from, <<e, f>>, answered)
        PROVE  \E s \in Seq(Leg), n \in Nat : OneCall(s) /\ EndCall(s, n)
    <2>1. <<e, f>> \in Seq(Extensions) /\ <<e, f>> # << >> /\ answered \in Nat OBVIOUS
    <2> QED BY <1>2, <2>1, InboundLegs
  <1>3. ASSUME NEW ext \in Extensions, NEW to \in Outside, NEW n \in 1 .. MaxTrunks,
               NEW last \in Outcome, Outbound(ext, to, n, last)
        PROVE  \E s \in Seq(Leg), m \in Nat : OneCall(s) /\ EndCall(s, m)
    <2>1. n \in Nat BY CallAssumption
    <2> QED BY <1>3, <2>1, OutboundLegs
  <1>4. ASSUME NEW from \in Extensions, NEW to \in Extensions, NEW outcome \in Outcome,
               Internal(from, to, outcome)
        PROVE  \E s \in Seq(Leg), n \in Nat : OneCall(s) /\ EndCall(s, n)
    BY <1>4, InternalLegs
  <1> QED BY <1>1, <1>2, <1>3, <1>4 DEF Ends

-----------------------------------------------------------------------------
(* Every step keeps the invariant                                          *)

LogInv ==
  /\ RowInv /\ AnsweredInv /\ TxnInv /\ PartnerInv
  /\ InboundLoggedOnce /\ AnsweredIsShown /\ OnePartnerPerNumber

\* What is said of the history stays as long as the history does and no more
\* POSTs are given up.
LEMMA LogUnchanged ==
  ASSUME LogInv, UNCHANGED odooVars, givenUp \subseteq givenUp'
  PROVE  LogInv'
  <1> USE DEF odooVars
  <1>1. RowInv' /\ AnsweredInv' BY DEF LogInv, RowInv, AnsweredInv
  <1>2. TxnInv' BY DEF LogInv, TxnInv, Makes, Brings
  <1>3. PartnerInv' BY DEF LogInv, PartnerInv, Unknown
  <1>4. InboundLoggedOnce' BY DEF LogInv, InboundLoggedOnce
  <1>5. AnsweredIsShown' BY DEF LogInv, AnsweredIsShown, NameIsOwn
  <1>6. OnePartnerPerNumber' BY DEF LogInv, OnePartnerPerNumber
  <1> QED BY <1>1, <1>2, <1>3, <1>4, <1>5, <1>6 DEF LogInv

\* No leg of a call is anywhere before the call has ended.
LEMMA EndCallStep ==
  ASSUME Inv, NEW s \in Seq(Leg), NEW n \in Nat, OneCall(s), EndCall(s, n)
  PROVE  Inv'
  <1> USE DEF Inv
  <1>1. /\ wire \in Seq(Leg) /\ Len(wire) \in Nat /\ DOMAIN wire = 1 .. Len(wire)
        /\ Len(s) \in Nat /\ DOMAIN s = 1 .. Len(s)
    BY LenProperties DEF TypeInv
  <1>2. /\ wire' \in Seq(Leg) /\ DOMAIN wire' = 1 .. Len(wire) + Len(s)
        /\ \A i \in 1 .. Len(wire) + Len(s) :
             wire'[i] = IF i <= Len(wire) THEN wire[i] ELSE s[i - Len(wire)]
    BY <1>1, ConcatProperties, LenProperties DEF EndCall
  <1>3. UNCHANGED <<waiting, posts, odooVars, faults, givenUp>> /\ calls' = calls + 1
    BY DEF EndCall
  <1>4. TypeInv' BY <1>2, <1>3 DEF EndCall, TypeInv, odooVars
  <1>5. \A i \in DOMAIN wire' :
          \/ i \in DOMAIN wire /\ wire'[i] = wire[i]
          \/ \E k \in DOMAIN s : i = k + Len(wire) /\ wire'[i] = s[k]
    <2> SUFFICES ASSUME NEW i \in DOMAIN wire', ~ (i <= Len(wire))
                 PROVE  \E k \in DOMAIN s : i = k + Len(wire) /\ wire'[i] = s[k]
      BY <1>1, <1>2
    <2>1. i - Len(wire) \in DOMAIN s /\ i = (i - Len(wire)) + Len(wire) BY <1>1, <1>2
    <2>2. wire'[i] = s[i - Len(wire)] BY <1>2
    <2> QED BY <2>1, <2>2
  <1>6. Legs' \subseteq Legs \union {s[i] : i \in DOMAIN s}
    <2>1. Queued' \subseteq Queued \union {s[i] : i \in DOMAIN s}
      BY <1>5 DEF Queued
    <2> QED BY <1>3, <2>1 DEF Legs, Pending, odooVars
  <1>7. \A l \in Legs : l.call \in 1 .. calls BY DEF LegInv
  <1>8. \A i \in DOMAIN s : s[i] \notin Legs
    BY <1>7 DEF OneCall, TypeInv
  <1>9. LegInv' BY <1>3, <1>6, <1>7 DEF LegInv, OneCall, TypeInv
  <1>10. PlaceInv'
    <2>1. UNCHANGED Pending BY <1>3 DEF Pending, odooVars
    <2>2. \A i \in DOMAIN wire : wire[i] \in Legs BY DEF Legs, Queued
    <2>3. Pending \subseteq Legs BY DEF Legs
    <2>4. \A i, j \in DOMAIN s : s[i] = s[j] => i = j BY DEF OneCall
    <2>5. \A i, j \in DOMAIN wire' : wire'[i] = wire'[j] => i = j
      <3> SUFFICES ASSUME NEW i \in DOMAIN wire', NEW j \in DOMAIN wire', wire'[i] = wire'[j]
                   PROVE  i = j
        OBVIOUS
      <3>1. CASE i \in DOMAIN wire /\ wire'[i] = wire[i]
        BY <1>5, <1>8, <2>2, <3>1 DEF PlaceInv
      <3>2. CASE \E k \in DOMAIN s : i = k + Len(wire) /\ wire'[i] = s[k]
        BY <1>5, <1>8, <2>2, <2>4, <3>2
      <3> QED BY <1>5, <3>1, <3>2
    <2>6. \A i \in DOMAIN wire' : wire'[i] \notin Pending
      BY <1>5, <1>8, <2>3 DEF PlaceInv
    <2> QED BY <1>3, <2>1, <2>5, <2>6 DEF PlaceInv, odooVars
  <1>11. WaitInv' BY <1>3 DEF WaitInv, Pending, odooVars
  <1> QED BY <1>3, <1>4, <1>9, <1>10, <1>11, LogUnchanged DEF LogInv

\* Legs that are only moved keep what is said of them.
LEMMA LegsKept ==
  ASSUME LegInv, Legs' \subseteq Legs, calls' = calls
  PROVE  LegInv'
  BY DEF LegInv

LEMMA RestartStep ==
  ASSUME Inv, AsteriskRestart
  PROVE  Inv'
  <1> USE DEF Inv, AsteriskRestart, odooVars
  <1>1. TypeInv' BY DEF TypeInv, Fault
  <1>2. Legs' = Legs BY DEF Legs, Queued, Pending
  <1>3. PlaceInv' /\ WaitInv' BY DEF PlaceInv, WaitInv, Pending
  <1> QED BY <1>1, <1>2, <1>3, LegsKept, LogUnchanged DEF LogInv

\* The next leg is posted: by then Odoo has only legs of calls given up.
LEMMA PostStep ==
  ASSUME Inv, Post
  PROVE  Inv'
  <1> USE DEF Inv
  <1>1. wire \in Seq(Leg) /\ wire # << >> BY DEF TypeInv, Post
  <1>2. UNCHANGED <<asteriskVars, odooVars, faults, givenUp>> BY DEF Post
  <1>3. Len(wire) \in Nat /\ DOMAIN wire = 1 .. Len(wire) /\ Len(wire) > 0
    BY <1>1, LenProperties, EmptySeq
  <1>4. /\ wire' \in Seq(Leg) /\ DOMAIN wire' = 1 .. Len(wire) - 1
        /\ \A i \in DOMAIN wire' : wire'[i] = wire[i + 1]
    BY <1>1, <1>3, HeadTailProperties, LenProperties DEF Post
  <1>5. Head(wire) = wire[1] /\ wire[1] \in Leg
    BY <1>1, <1>3, ElementOfSeq
  <1>6. posts' = posts \union {wire[1]} /\ waiting' = {wire[1]} /\ waiting = {}
    BY <1>5 DEF Post
  <1>7. Pending' = Pending \union {wire[1]} BY <1>2, <1>6 DEF Pending, odooVars
  <1>8. TypeInv' BY <1>2, <1>4, <1>5, <1>6 DEF TypeInv, asteriskVars, odooVars
  <1>9. LegInv'
    <2>1. Queued' \subseteq Queued /\ wire[1] \in Queued BY <1>3, <1>4 DEF Queued
    <2>2. Legs' \subseteq Legs BY <1>2, <1>6, <1>7, <2>1 DEF Legs, odooVars
    <2> QED BY <1>2, <2>2, LegsKept DEF asteriskVars
  <1>10. PlaceInv'
    <2>1. \A i, j \in DOMAIN wire' : wire'[i] = wire'[j] => i = j
      BY <1>3, <1>4 DEF PlaceInv
    <2>2. \A i \in DOMAIN wire' : wire'[i] \notin Pending'
      BY <1>3, <1>4, <1>7 DEF PlaceInv
    <2>3. \A t \in open : t.leg \notin posts'
      BY <1>3, <1>6 DEF PlaceInv, Pending
    <2> QED BY <1>2, <2>1, <2>2, <2>3 DEF PlaceInv, odooVars
  <1>11. WaitInv' BY <1>2, <1>6, <1>7 DEF WaitInv
  <1> QED BY <1>2, <1>8, <1>9, <1>10, <1>11, LogUnchanged DEF LogInv

\* The daemon goes on with its POST answered, given up or lost.
LEMMA AnswerStep ==
  ASSUME Inv, Answered \/ GiveUp \/ LosePost
  PROVE  Inv'
  <1> USE DEF Inv, odooVars, asteriskVars
  <1>1. UNCHANGED <<asteriskVars, wire, odooVars>> /\ posts' \subseteq posts /\ waiting' = {}
    BY DEF Answered, GiveUp, LosePost
  <1>2. Pending' \subseteq Pending BY <1>1 DEF Pending
  <1>3. givenUp \subseteq givenUp' /\ givenUp' \subseteq 1 .. calls
    BY DEF Answered, GiveUp, LosePost, TypeInv, LegInv, Legs
  <1>4. TypeInv' BY <1>1, <1>3 DEF TypeInv, Answered, GiveUp, LosePost, Fault
  <1>5. LegInv'
    <2>1. Legs' \subseteq Legs BY <1>1, <1>2 DEF Legs, Queued
    <2> QED BY <1>1, <2>1, LegsKept
  <1>6. PlaceInv' BY <1>1, <1>2 DEF PlaceInv
  <1>7. WaitInv'
    <2>1. CASE Answered BY <1>1, <1>2, <2>1 DEF WaitInv, Answered
    <2>2. CASE GiveUp BY <1>1, <1>2, <2>2 DEF WaitInv, GiveUp
    <2>3. CASE LosePost
      <3>1. \A l \in Pending' : l \notin waiting
        BY <1>1, <2>3 DEF LosePost, Pending, PlaceInv
      <3> QED BY <1>1, <1>2, <2>3, <3>1 DEF WaitInv, LosePost
    <2> QED BY <2>1, <2>2, <2>3
  <1> QED BY <1>1, <1>3, <1>4, <1>5, <1>6, <1>7, LogUnchanged DEF LogInv

\* Odoo leaves a leg alone because its call's row is answered: by a leg of the
\* same channel name, thus of the same call, thus by this leg.
LEMMA IgnoreStep ==
  ASSUME Inv, NEW leg \in posts, Ignore(leg)
  PROVE  Inv'
  <1> USE DEF Inv, odooVars, asteriskVars
  <1>1. /\ posts' = posts \ {leg} /\ handled' = handled \union {leg}
        /\ UNCHANGED <<calls, channels, wire, waiting, open, rows, partners, faults, givenUp>>
    BY DEF Ignore
  <1>2. Pending' \subseteq Pending /\ leg \in Pending BY <1>1 DEF Pending
  <1>3. TypeInv' BY <1>1 DEF TypeInv
  <1>4. LegInv'
    <2>1. Legs' \subseteq Legs BY <1>1, <1>2 DEF Legs, Queued
    <2> QED BY <1>1, <2>1, LegsKept
  <1>5. PlaceInv' BY <1>1, <1>2 DEF PlaceInv
  <1>6. WaitInv' BY <1>1, <1>2 DEF WaitInv
  <1>7. RowInv' /\ InboundLoggedOnce' /\ OnePartnerPerNumber'
    BY <1>1 DEF RowInv, InboundLoggedOnce, OnePartnerPerNumber
  <1>8. AnsweredInv' BY <1>1 DEF AnsweredInv
  <1>9. TxnInv' BY <1>1 DEF TxnInv, Makes, Brings
  <1>10. PartnerInv' BY <1>1 DEF PartnerInv, Unknown
  <1>11. AnsweredIsShown'
    <2> SUFFICES ASSUME NEW l \in handled', IsLogged(l), l.outcome = "answered", NameIsOwn(l)'
                 PROVE  \E r \in rows : r.key = Key(l) /\ r.handling = "answered" /\ r.ext \in ExtensionOf(l)
      BY <1>1 DEF AnsweredIsShown
    <2>1. CASE l \in handled BY <1>1, <2>1 DEF AnsweredIsShown, NameIsOwn
    <2>2. CASE l = leg
      <3>1. PICK r \in rows : r.key = Key(l) /\ r.handling = "answered"
        BY <2>2 DEF Ignore, Existing, Improves
      <3>2. PICK k \in handled : ShownBy(r, k) BY <3>1 DEF AnsweredInv
      <3>3. k.call = l.call BY <1>1, <3>1, <3>2 DEF NameIsOwn, ShownBy
      <3>4. k = l BY <1>2, <2>2, <3>2, <3>3 DEF LegInv, Legs, ShownBy
      <3> QED BY <3>1, <3>2, <3>4 DEF ShownBy
    <2> QED BY <1>1, <2>1, <2>2
  <1> QED BY <1>3, <1>4, <1>5, <1>6, <1>7, <1>8, <1>9, <1>10, <1>11

\* A posted leg becomes a transaction that is as TxnInv and PartnerInv say.
LEMMA BeginStep ==
  ASSUME Inv, NEW t \in Txn, t.leg \in posts, IsLogged(t.leg), Makes(t) \/ Brings(t),
         t.partner \subseteq {Caller(t.leg)}, \A n \in t.partner : Unknown(n),
         posts' = posts \ {t.leg}, open' = open \union {t},
         UNCHANGED <<asteriskVars, wire, waiting, rows, partners, handled, faults, givenUp>>
  PROVE  Inv'
  <1> USE DEF Inv, asteriskVars
  <1>1. Pending' = Pending BY DEF Pending
  <1>2. TypeInv' BY DEF TypeInv
  <1>3. LegInv'
    <2>1. Legs' = Legs BY <1>1 DEF Legs, Queued
    <2> QED BY <2>1, LegsKept
  <1>4. PlaceInv' BY <1>1 DEF PlaceInv
  <1>5. WaitInv' BY <1>1 DEF WaitInv
  <1>6. RowInv' /\ InboundLoggedOnce' /\ OnePartnerPerNumber'
    BY DEF RowInv, InboundLoggedOnce, OnePartnerPerNumber
  <1>7. AnsweredInv' BY DEF AnsweredInv
  <1>8. AnsweredIsShown' BY DEF AnsweredIsShown, NameIsOwn
  <1>9. TxnInv' BY DEF TxnInv, Makes, Brings
  <1>10. PartnerInv' BY DEF PartnerInv, Unknown
  <1> QED BY <1>2, <1>3, <1>4, <1>5, <1>6, <1>7, <1>8, <1>9, <1>10

\* No row has the leg's name, so none is of its call: legs of an inbound call
\* have the trunk channel, and with it the name, in common.
LEMMA CreateStep ==
  ASSUME Inv, NEW leg \in posts, Create(leg)
  PROVE  Inv'
  <1> DEFINE t == [leg |-> leg, row |-> RowOf(leg), old |-> {},
                   partner |-> {n \in {Caller(leg)} : Unknown(n)}]
  <1> USE DEF Inv
  <1>1. leg \in Leg /\ leg \in Legs /\ IsLogged(leg) /\ Existing(leg) = {}
    BY DEF TypeInv, Legs, Pending, Create
  <1>2. t \in Txn
    <2>1. RowOf(leg) \in Row BY <1>1, RowType
    <2>2. Caller(leg) \in Number BY <2>1 DEF RowOf, Row
    <2> QED BY <1>1, <2>1, <2>2 DEF Txn
  <1>3. Makes(t)
    <2> SUFFICES ASSUME leg.channel.of = "trunk", NEW r \in rows, r.id.call = leg.call PROVE FALSE
      BY DEF Makes
    <2>1. r.id \in Legs BY DEF Legs
    <2>2. r.id.channel = leg.channel BY <1>1, <2>1 DEF LegInv
    <2>3. r.key = Key(leg) BY <2>2 DEF RowInv, Key
    <2> QED BY <1>1, <2>3 DEF Existing
  <1>4. /\ posts' = posts \ {leg} /\ open' = open \union {t}
        /\ UNCHANGED <<asteriskVars, wire, waiting, rows, partners, handled, faults, givenUp>>
    BY DEF Create
  <1>5. t.leg = leg /\ t.partner \subseteq {Caller(leg)} /\ \A n \in t.partner : Unknown(n)
    OBVIOUS
  <1> HIDE DEF t
  <1> QED BY <1>1, <1>2, <1>3, <1>4, <1>5, BeginStep

LEMMA UpgradeStep ==
  ASSUME Inv, NEW leg \in posts, Upgrade(leg)
  PROVE  Inv'
  <1> USE DEF Inv
  <1>1. leg \in Leg /\ IsLogged(leg) BY DEF TypeInv, Upgrade
  <1>2. PICK r \in Existing(leg) :
          /\ Improves(leg, r)
          /\ open' = open \union
               {[leg |-> leg, old |-> {r}, partner |-> {},
                 row |-> [r EXCEPT !.handling = leg.outcome, !.ext = RowOf(leg).ext]]}
    BY DEF Upgrade
  <1> DEFINE row == [r EXCEPT !.handling = leg.outcome, !.ext = RowOf(leg).ext]
             t == [leg |-> leg, old |-> {r}, partner |-> {}, row |-> row]
  <1>3. r \in rows /\ r \in Row /\ r.key = Key(leg) BY DEF Existing, TypeInv
  <1>4. row \in Row
    <2>1. RowOf(leg).ext \in Extensions BY <1>1, RowType DEF Row
    <2> QED BY <1>1, <1>3, <2>1 DEF Row, Leg
  <1>5. t \in Txn BY <1>1, <1>3, <1>4 DEF Txn, TypeInv
  <1>6. Brings(t) BY <1>2, <1>3 DEF Brings, Improves
  <1>7. /\ posts' = posts \ {leg} /\ open' = open \union {t}
        /\ UNCHANGED <<asteriskVars, wire, waiting, rows, partners, handled, faults, givenUp>>
    BY <1>2 DEF Upgrade
  <1>8. t.leg = leg /\ t.partner = {} OBVIOUS
  <1> HIDE DEF t
  <1> QED BY <1>1, <1>5, <1>6, <1>7, <1>8, BeginStep

\* What a transaction leaves in the table: its row, of the name and extension
\* of its leg, for at most one row, which was not answered.
LEMMA CommittedRow ==
  ASSUME Inv, NEW t \in open
  PROVE  /\ t.leg \in Leg /\ t.leg \in Legs /\ IsLogged(t.leg) /\ t.row \in Row
         /\ t.row.key = Key(t.leg) /\ t.row.ext \in ExtensionOf(t.leg)
         /\ t.row.handling = t.leg.outcome
         /\ t.row.key = Key(t.row.id) /\ t.row.outgoing = Outgoing(t.row.id)
         /\ t.row.id \in Legs
         /\ \A r \in t.old : r \in rows /\ r.handling # "answered"
  <1> USE DEF Inv
  <1>1. t.leg \in Leg /\ t.leg \in Legs /\ IsLogged(t.leg) /\ t.row \in Row
    BY DEF TypeInv, Txn, Legs, Pending, TxnInv
  <1>2. RowOf(t.leg).ext \in ExtensionOf(t.leg) BY <1>1, RowType
  <1>3. CASE Makes(t) BY <1>1, <1>2, <1>3 DEF Makes, RowOf
  <1>4. CASE Brings(t)
    <2>1. PICK r \in rows :
            /\ t.old = {r} /\ r.handling # "answered" /\ r.key = Key(t.leg)
            /\ t.row = [r EXCEPT !.handling = t.leg.outcome, !.ext = RowOf(t.leg).ext]
      BY <1>4 DEF Brings
    <2>2. r \in Row /\ r.id \in Legs BY DEF TypeInv, Legs
    <2>3. /\ t.row.id = r.id /\ t.row.key = r.key /\ t.row.outgoing = r.outgoing
          /\ t.row.handling = t.leg.outcome /\ t.row.ext = RowOf(t.leg).ext
      BY <2>1, <2>2 DEF Row
    <2> QED BY <1>1, <1>2, <2>1, <2>2, <2>3 DEF RowInv
  <1> QED BY <1>3, <1>4 DEF TxnInv

\* A call's rows after the commit are its rows before, or the row made for it.
LEMMA CommittedCall ==
  ASSUME Inv, NEW t \in open, t.leg.channel.of = "trunk" \/ Brings(t),
         t.row.id.call \notin givenUp, NEW r \in rows \ t.old, r.id.call = t.row.id.call
  PROVE  \E o \in t.old : o.id = t.row.id /\ o.outgoing = t.row.outgoing /\ o # r
  <1> USE DEF Inv
  <1>1. CASE Makes(t)
    <2>1. t.old = {} /\ t.row.id = t.leg BY <1>1 DEF Makes, RowOf
    <2>2. ~ Brings(t) BY <2>1 DEF Brings
    <2> QED BY <1>1, <2>1, <2>2 DEF Makes
  <1>2. CASE Brings(t)
    <2>1. PICK o \in rows :
            /\ t.old = {o}
            /\ t.row = [o EXCEPT !.handling = t.leg.outcome, !.ext = RowOf(t.leg).ext]
      BY <1>2 DEF Brings
    <2>2. o \in Row BY DEF TypeInv
    <2> QED BY <2>1, <2>2 DEF Row
  <1> QED BY <1>1, <1>2 DEF TxnInv

\* A call that is not an extension's own comes in by a trunk channel.
LEMMA InboundChannel ==
  ASSUME LegInv, NEW leg \in Legs, ~ Outgoing(leg)
  PROVE  leg.channel.of = "trunk"
  BY DEF LegInv, ChannelFits, Outgoing, ExtensionOf

LEMMA CommitStep ==
  ASSUME Inv, NEW t \in open, Commit(t)
  PROVE  Inv'
  <1> DEFINE beaten == {u \in open \ {t} : u.old \cap t.old # {}}
  <1> USE DEF Inv, asteriskVars
  <1>1. /\ rows' = (rows \ t.old) \union {t.row}
        /\ partners' = partners \union {[number |-> n, by |-> t.leg] : n \in t.partner}
        /\ open' = open \ ({t} \union beaten)
        /\ posts' = posts \union {u.leg : u \in beaten}
        /\ handled' = handled \union {t.leg}
        /\ UNCHANGED <<calls, channels, wire, waiting, faults, givenUp>>
    BY DEF Commit
  <1>2. /\ t.leg \in Leg /\ t.leg \in Legs /\ IsLogged(t.leg) /\ t.row \in Row
        /\ t.row.key = Key(t.leg) /\ t.row.ext \in ExtensionOf(t.leg)
        /\ t.row.handling = t.leg.outcome
        /\ t.row.key = Key(t.row.id) /\ t.row.outgoing = Outgoing(t.row.id)
        /\ t.row.id \in Legs
        /\ \A r \in t.old : r \in rows /\ r.handling # "answered"
    BY CommittedRow
  <1>3. beaten \subseteq open /\ t \notin beaten /\ \A u \in open' : u \in open /\ u # t /\ u.old \cap t.old = {}
    BY <1>1
  <1> HIDE DEF beaten
  <1>4. Pending' \subseteq Pending /\ t.leg \in Pending BY <1>1, <1>3 DEF Pending
  <1>5. TypeInv'
    <2>1. posts' \subseteq Leg BY <1>1, <1>3 DEF TypeInv, Txn
    <2>2. partners' \subseteq [number : Number, by : Leg] BY <1>1, <1>2 DEF TypeInv, Txn
    <2> QED BY <1>1, <1>2, <2>1, <2>2 DEF TypeInv
  <1>6. LegInv'
    <2>1. \A r \in rows' : r.id \in Legs BY <1>1, <1>2 DEF Legs
    <2>2. Legs' \subseteq Legs BY <1>1, <1>2, <1>4, <2>1 DEF Legs, Queued
    <2> QED BY <1>1, <2>2, LegsKept
  <1>7. PlaceInv'
    <2>1. \A u \in open' : u.leg \notin posts' BY <1>1, <1>3 DEF PlaceInv
    <2> QED BY <1>1, <1>3, <1>4, <2>1 DEF PlaceInv
  <1>8. WaitInv' BY <1>1, <1>4 DEF WaitInv
  <1>9. RowInv' BY <1>1, <1>2 DEF RowInv
  <1>10. AnsweredInv'
    <2>1. t.row.handling = "answered" => ShownBy(t.row, t.leg) BY <1>2 DEF ShownBy
    <2> QED BY <1>1, <2>1 DEF AnsweredInv
  <1>11. ASSUME NEW u \in open', u.leg.call = t.leg.call, u.leg.call \notin givenUp PROVE FALSE
    <2>1. u.leg \in waiting /\ t.leg \in waiting BY <1>3, <1>4, <1>11 DEF WaitInv, Pending
    <2>2. u.leg = t.leg BY <2>1 DEF TypeInv
    <2> QED BY <1>3, <2>2 DEF PlaceInv
  <1>12. TxnInv'
    <2> SUFFICES ASSUME NEW u \in open' PROVE IsLogged(u.leg) /\ (Makes(u)' \/ Brings(u)')
      BY DEF TxnInv
    <2>1. IsLogged(u.leg) BY <1>3 DEF TxnInv
    <2>2. CASE Makes(u)
      <3> SUFFICES ASSUME u.leg.channel.of = "trunk", u.leg.call \notin givenUp,
                          NEW r \in rows', r.id.call = u.leg.call
                   PROVE  FALSE
        BY <1>1, <2>1, <2>2 DEF Makes
      <3>1. r = t.row BY <1>1, <2>2 DEF Makes
      <3>2. CASE Makes(t)
        <4>1. t.row.id = t.leg BY <3>2 DEF Makes, RowOf
        <4> QED BY <1>11, <3>1, <4>1
      <3>3. CASE Brings(t)
        <4>1. PICK o \in rows : t.row = [o EXCEPT !.handling = t.leg.outcome, !.ext = RowOf(t.leg).ext]
          BY <3>3 DEF Brings
        <4>2. t.row.id = o.id BY <4>1 DEF TypeInv, Row
        <4> QED BY <2>2, <3>1, <4>2 DEF Makes
      <3> QED BY <3>2, <3>3 DEF TxnInv
    <2>3. CASE Brings(u)
      <3>1. PICK r \in rows :
              /\ u.old = {r} /\ r.handling # "answered" /\ r.key = Key(u.leg)
              /\ u.row = [r EXCEPT !.handling = u.leg.outcome, !.ext = RowOf(u.leg).ext]
        BY <2>3 DEF Brings
      <3>2. r \in rows' BY <1>1, <1>3, <3>1
      <3> QED BY <2>1, <2>3, <3>1, <3>2 DEF Brings
    <2> QED BY <1>3, <2>1, <2>2, <2>3 DEF TxnInv
  <1>13. ASSUME givenUp = {} PROVE open' = {}
    <2> SUFFICES ASSUME NEW u \in open' PROVE FALSE OBVIOUS
    <2>1. u.leg \in waiting /\ t.leg \in waiting BY <1>3, <1>4, <1>13 DEF WaitInv, Pending
    <2>2. u.leg = t.leg BY <2>1 DEF TypeInv
    <2> QED BY <1>3, <2>2 DEF PlaceInv
  <1>14. PartnerInv'
    <2>1. \A u \in open' : u.partner \subseteq {Caller(u.leg)} BY <1>3 DEF PartnerInv
    <2> QED BY <1>1, <1>13, <2>1 DEF PartnerInv
  <1>15. InboundLoggedOnce'
    <2> SUFFICES ASSUME NEW r \in rows', NEW s \in rows', r.id.call = s.id.call,
                        ~ r.outgoing, r.id.call \notin givenUp, r # s
                 PROVE  FALSE
      BY <1>1 DEF InboundLoggedOnce
    <2>1. r.id \in Legs /\ s.id \in Legs /\ ~ Outgoing(r.id)
      BY <1>1, <1>2 DEF Legs, RowInv
    <2>2. r.id.channel.of = "trunk" /\ s.id.channel.of = "trunk"
      BY <2>1, InboundChannel DEF LegInv
    <2>3. t.leg.channel.of = "trunk" \/ Brings(t)
      \/ (r # t.row /\ s # t.row)
      <3>1. Makes(t) => t.row.id = t.leg BY DEF Makes, RowOf
      <3> QED BY <2>2, <3>1 DEF TxnInv
    <2>4. CASE r \in rows \ t.old /\ s \in rows \ t.old BY <2>4 DEF InboundLoggedOnce
    <2>5. CASE r = t.row /\ s \in rows \ t.old
      BY <1>2, <2>3, <2>5, CommittedCall DEF InboundLoggedOnce
    <2>6. CASE r \in rows \ t.old /\ s = t.row
      BY <1>2, <2>3, <2>6, CommittedCall DEF InboundLoggedOnce
    <2> QED BY <1>1, <2>4, <2>5, <2>6
  <1>16. AnsweredIsShown'
    <2> SUFFICES ASSUME NEW l \in handled', IsLogged(l), l.outcome = "answered", NameIsOwn(l)'
                 PROVE  \E r \in rows' : r.key = Key(l) /\ r.handling = "answered" /\ r.ext \in ExtensionOf(l)
      BY DEF AnsweredIsShown
    <2>1. CASE l \in handled
      <3>1. NameIsOwn(l) BY <1>1 DEF NameIsOwn
      <3>2. PICK r \in rows : r.key = Key(l) /\ r.handling = "answered" /\ r.ext \in ExtensionOf(l)
        BY <2>1, <3>1 DEF AnsweredIsShown
      <3> QED BY <1>1, <1>2, <3>2
    <2>2. CASE l = t.leg BY <1>1, <1>2, <2>2
    <2> QED BY <1>1, <2>1, <2>2
  <1>17. OnePartnerPerNumber'
    <2> SUFFICES ASSUME givenUp = {}, NEW p \in partners', NEW q \in partners', p.number = q.number
                 PROVE  p = q
      BY <1>1 DEF OnePartnerPerNumber
    <2>1. \A n \in t.partner : \A o \in partners : o.number # n BY DEF PartnerInv, Unknown
    <2>2. CASE p \in partners /\ q \in partners BY <2>2 DEF OnePartnerPerNumber
    <2>3. CASE p \notin partners \/ q \notin partners BY <1>1, <2>1, <2>3
    <2> QED BY <2>2, <2>3
  <1> QED BY <1>5, <1>6, <1>7, <1>8, <1>9, <1>10, <1>12, <1>14, <1>15, <1>16, <1>17

-----------------------------------------------------------------------------
LEMMA Start == Init => Inv
  <1> SUFFICES ASSUME Init PROVE Inv OBVIOUS
  <1> USE DEF Init
  <1>1. DOMAIN wire = {} /\ wire \in Seq(Leg) OBVIOUS
  <1>2. Legs = {} BY <1>1 DEF Legs, Queued, Pending
  <1>3. TypeInv BY <1>1 DEF TypeInv
  <1>4. LegInv /\ PlaceInv /\ WaitInv BY <1>1, <1>2 DEF LegInv, PlaceInv, WaitInv, Pending
  <1>5. RowInv /\ AnsweredInv /\ TxnInv /\ PartnerInv
    BY DEF RowInv, AnsweredInv, TxnInv, PartnerInv
  <1> QED BY <1>3, <1>4, <1>5 DEF Inv, InboundLoggedOnce, AnsweredIsShown, OnePartnerPerNumber

LEMMA Stutters ==
  ASSUME Inv, UNCHANGED vars
  PROVE  Inv'
  <1> USE DEF Inv, vars, odooVars, asteriskVars
  <1>1. TypeInv' BY DEF TypeInv
  <1>2. Legs' = Legs BY DEF Legs, Queued, Pending
  <1>3. PlaceInv' /\ WaitInv' BY DEF PlaceInv, WaitInv, Pending
  <1> QED BY <1>1, <1>2, <1>3, LegsKept, LogUnchanged DEF LogInv

LEMMA Steps ==
  ASSUME Inv, [Next]_vars
  PROVE  Inv'
  <1>1. CASE Ends BY <1>1, CallEnds, EndCallStep DEF Inv
  <1>2. CASE AsteriskRestart BY <1>2, RestartStep
  <1>3. CASE Post BY <1>3, PostStep
  <1>4. CASE Answered \/ GiveUp \/ LosePost BY <1>4, AnswerStep
  <1>5. ASSUME NEW leg \in posts, Ignore(leg) PROVE Inv' BY <1>5, IgnoreStep
  <1>6. ASSUME NEW leg \in posts, Create(leg) PROVE Inv' BY <1>6, CreateStep
  <1>7. ASSUME NEW leg \in posts, Upgrade(leg) PROVE Inv' BY <1>7, UpgradeStep
  <1>8. ASSUME NEW t \in open, Commit(t) PROVE Inv' BY <1>8, CommitStep
  <1>9. CASE UNCHANGED vars BY <1>9, Stutters
  <1> QED BY <1>1, <1>2, <1>3, <1>4, <1>5, <1>6, <1>7, <1>8, <1>9 DEF Next, Ends

LEMMA Invariance == Spec => []Inv
  BY Start, Steps, PTL DEF Spec

-----------------------------------------------------------------------------
(* What holds of the call history                                          *)

\* Every variable keeps its type: the daemon waits for one answer at a time,
\* and a transaction replaces only rows that are there.
THEOREM TypeCorrect == Spec => []TypeOK
  <1>1. Inv => TypeOK
    <2> SUFFICES ASSUME Inv PROVE TypeOK OBVIOUS
    <2> USE DEF Inv
    <2>1. waiting = {} \/ \E l \in Leg : waiting = {l} BY DEF TypeInv
    <2>2. Cardinality(waiting) <= 1
      <3>1. CASE waiting = {} BY <3>1, FS_EmptySet
      <3>2. ASSUME NEW l \in Leg, waiting = {l} PROVE Cardinality(waiting) <= 1
        BY <3>2, FS_Singleton
      <3> QED BY <2>1, <3>1, <3>2
    <2>3. \A i \in DOMAIN wire : wire[i] \in Leg BY LenProperties, ElementOfSeq DEF TypeInv
    <2>4. \A t \in open : t.leg \in Leg /\ t.row \in Row /\ t.old \subseteq rows
      BY CommittedRow
    <2> QED BY <2>2, <2>3, <2>4 DEF TypeInv, TypeOK
  <1> QED BY <1>1, Invariance, PTL

\* _handle_cdr_call logs an inbound call once, whatever the order in which its
\* legs are handled and whichever of its transactions fails, unless the daemon
\* gave one of its POSTs up.
THEOREM LoggedOnce == Spec => []InboundLoggedOnce
  <1>1. Inv => InboundLoggedOnce BY DEF Inv
  <1> QED BY <1>1, Invariance, PTL

\* The extension that answered a call is the one its row shows, given up POSTs,
\* failed transactions and restarts of Asterisk or not.
THEOREM AnswererIsShown == Spec => []AnsweredIsShown
  <1>1. Inv => AnsweredIsShown BY DEF Inv
  <1> QED BY <1>1, Invariance, PTL

\* A number nobody had becomes one contact as long as no POST is given up.
THEOREM ContactIsOne == Spec => []OnePartnerPerNumber
  <1>1. Inv => OnePartnerPerNumber BY DEF Inv
  <1> QED BY <1>1, Invariance, PTL

\* A row that shows the call answered is never changed again, by any leg of any
\* call: what a transaction replaces is still not answered when it commits.
THEOREM RowStaysAnswered == Spec => AnsweredStays
  <1>1. ASSUME Inv, [Next]_vars
        PROVE  [\A r \in rows : r.handling = "answered" => r \in rows']_vars
    <2>1. CASE UNCHANGED rows BY <2>1
    <2>2. ASSUME NEW t \in open, Commit(t)
          PROVE  \A r \in rows : r.handling = "answered" => r \in rows'
      BY <1>1, <2>2, CommittedRow DEF Commit
    <2>3. UNCHANGED rows \/ \E t \in open : Commit(t)
      BY <1>1 DEF Next, vars, odooVars, Inbound, Outbound, Internal, EndCall, AsteriskRestart, Post,
                  Answered, GiveUp, LosePost, Ignore, Create, Upgrade
    <2> QED BY <2>1, <2>2, <2>3
  <1> QED BY <1>1, Invariance, PTL DEF Spec, AnsweredStays

=============================================================================
