---------------------------- MODULE DialplanProofs ----------------------------
(***************************************************************************)
(* Theorems about the dialplan and a call in it, for every company, every  *)
(* number that is dialled, every way a number matches patterns and any     *)
(* number of reloads.                                                      *)
(*                                                                         *)
(* About the generator: of which lines every section is made and where     *)
(* they may lead (Fitting), that a section of the context of outbound      *)
(* routes is the chain of its pattern (PlanIs), which section of a key     *)
(* comes first, and that every place a line leads to is made, but for the  *)
(* records that name others (PlanReaches).  About the call: what a line    *)
(* may do to it (StepIs), and the invariants: Typed and Inward; Gated, of  *)
(* the chain; Caught, of the ring group; OnWayOut, of the way out.         *)
(***************************************************************************)
EXTENDS DialplanCall, RecursionLemmas

-----------------------------------------------------------------------------
(* What lines and sections are made of.                                    *)

\* A literal is a string as well, which the provers do not know.
Text == STRING \union {"internal", "from-trunk", "outbound", "outbound-failover", "${EXTEN}",
                       "+${EXTEN}", "s", "t", "0", "_0.", "_+.", "_46.", "_X.", "_.", "failover",
                       "hangup", "ext", "vm", "queue", "time", "1", "busy", "unavailable", "done",
                       "in-range", "no-match", "start", "r", "go", "INUSE", "UNAVAILABLE",
                       "DIALSTATUS", "ANSWER", "BUSY", "CHANUNAVAIL", "TIME", "hours",
                       "year for month", "CALLERID", None}
Apps == {"NoOp", "Goto", "GotoIf", "Dial", "Voicemail", "Stasis", "Queue", "Playback", "Hangup"}

Label == Seq(Text \union Int)
Place == [ctx : Seq(Text), exten : Seq(Text), label : Label]
LineRecord == [label : Label, app : Apps, test : Seq(Text), to : Place, who : SUBSET Text]

Leads == {"Goto", "GotoIf"}

\* The extens of the inside that lead to a trunk.
WaysOut == {<<"_0.">>, <<"_+.">>, <<"_46.">>}

\* The contexts a call that stays inside is led to.
Within(ctx) == ctx[1] \in {"ext", "queue"}

\* The contexts that ring somebody.
Rings(ctx) == ctx = Outbound \/ (Len(ctx) = 2 /\ ctx[1] = "ext")

LineFits(ctx, exten, l) ==
  /\ l.app = "Dial" => l.who # {} /\ Rings(ctx)
  /\ l.app \in Leads =>
       /\ Within(ctx) \/ (ctx = Internal /\ exten \notin WaysOut) => Within(l.to.ctx)
       /\ l.to.ctx # ctx => l.to.label = First

\* The lines that may be in an exten.
Fitting(ctx, exten) == {l \in LineRecord : LineFits(ctx, exten, l)}

ChainLines(chain) == FlattenSeq([k \in DOMAIN chain |-> OutboundLines(chain, k)])

\* A section that leads out is the chain of a pattern.
OutboundIsChain(c, s) ==
  s.ctx = Outbound =>
    \/ \E q \in ToSet(c.queues) : q.name = "outbound"
    \/ \E i \in DOMAIN c.outbound : /\ s.exten = <<c.outbound[i].pattern>>
                                    /\ s.lines = ChainLines(Chain(c.outbound, c.outbound[i].pattern))

SectionRecord == [ctx : Seq(Text), exten : Seq(Text), lines : Seq(LineRecord)]

Made(c) == {s \in SectionRecord : /\ s.lines \in Seq(Fitting(s.ctx, s.exten))
                                  /\ OutboundIsChain(c, s)}

LEMMA LineIs ==
  /\ Line \in LineRecord
  /\ Line.label = << >> /\ Line.app = "NoOp"
  <1>1. << >> \in Seq(Text) /\ << >> \in Label BY EmptySeq DEF Label
  <1>2. At(<< >>, << >>, << >>) \in Place BY <1>1 DEF At, Place
  <1>3. "NoOp" \in Apps BY DEF Apps
  <1> QED BY <1>1, <1>2, <1>3 DEF Line, LineRecord

LEMMA RunIs ==
  ASSUME NEW app \in Apps, NEW who \in SUBSET Text
  PROVE  /\ Run(app, who) \in LineRecord
         /\ Run(app, who).app = app /\ Run(app, who).who = who /\ Run(app, who).label = << >>
  BY LineIs DEF Run, LineRecord

LEMMA GotoIs ==
  ASSUME NEW to \in Place
  PROVE  /\ Goto(to) \in LineRecord
         /\ Goto(to).app = "Goto" /\ Goto(to).to = to /\ Goto(to).label = << >>
  <1>1. "Goto" \in Apps BY DEF Apps
  <1> QED BY <1>1, LineIs DEF Goto, LineRecord

LEMMA GotoIfIs ==
  ASSUME NEW to \in Place, NEW test \in Seq(Text)
  PROVE  /\ GotoIf(test, to) \in LineRecord
         /\ GotoIf(test, to).app = "GotoIf" /\ GotoIf(test, to).to = to
         /\ GotoIf(test, to).test = test /\ GotoIf(test, to).label = << >>
  <1>1. "GotoIf" \in Apps BY DEF Apps
  <1> QED BY <1>1, LineIs DEF GotoIf, LineRecord

LEMMA LabelledIs ==
  ASSUME NEW label \in Label, NEW l \in LineRecord
  PROVE  /\ Labelled(label, l) \in LineRecord
         /\ Labelled(label, l).label = label
         /\ Labelled(label, l).app = l.app /\ Labelled(label, l).to = l.to
         /\ Labelled(label, l).test = l.test /\ Labelled(label, l).who = l.who
  BY DEF Labelled, LineRecord

LEMMA AtIs ==
  ASSUME NEW ctx \in Seq(Text), NEW exten \in Seq(Text), NEW label \in Label
  PROVE  /\ At(ctx, exten, label) \in Place
         /\ At(ctx, exten, label).ctx = ctx /\ At(ctx, exten, label).exten = exten
         /\ At(ctx, exten, label).label = label
  BY DEF At, Place

\* Lines that lead nowhere and ring nobody fit everywhere, with any label.
LEMMA PlainFits ==
  ASSUME NEW ctx, NEW exten, NEW l \in LineRecord, l.app \notin Leads, l.app # "Dial"
  PROVE  l \in Fitting(ctx, exten)
  BY DEF Fitting, LineFits

LEMMA FitsLabelled ==
  ASSUME NEW ctx, NEW exten, NEW l \in Fitting(ctx, exten), NEW label \in Label
  PROVE  Labelled(label, l) \in Fitting(ctx, exten)
  BY LabelledIs DEF Fitting, LineFits

LEMMA SectionOf ==
  ASSUME NEW c, NEW ctx \in Seq(Text), NEW exten \in Seq(Text),
         NEW lines \in Seq(Fitting(ctx, exten)),
         OutboundIsChain(c, [ctx |-> ctx, exten |-> exten, lines |-> lines])
  PROVE  Section(ctx, exten, lines) \in Seq(Made(c))
  <1> DEFINE s == [ctx |-> ctx, exten |-> exten, lines |-> lines]
  <1>1. lines \in Seq(LineRecord)
    <2>1. Fitting(ctx, exten) \subseteq LineRecord BY DEF Fitting
    <2> QED BY <2>1, SeqMonotonic
  <1>2. s \in Made(c) BY <1>1 DEF Made, SectionRecord
  <1> HIDE DEF s
  <1>3. <<s>> \in Seq(Made(c)) BY <1>2
  <1> QED BY <1>3 DEF Section, s

LEMMA SectionIs ==
  ASSUME NEW c, NEW ctx \in Seq(Text), NEW exten \in Seq(Text),
         NEW lines \in Seq(Fitting(ctx, exten)), ctx # Outbound
  PROVE  Section(ctx, exten, lines) \in Seq(Made(c))
  BY SectionOf DEF OutboundIsChain

LEMMA Concat ==
  ASSUME NEW S, NEW p \in Seq(S), NEW q \in Seq(S)
  PROVE  p \o q \in Seq(S)
  BY ConcatProperties

LEMMA EachIs ==
  ASSUME NEW S, NEW s, Len(s) \in Nat, DOMAIN s = 1 .. Len(s), NEW f,
         f = [i \in DOMAIN s |-> f[i]], \A i \in DOMAIN s : f[i] \in Seq(S)
  PROVE  FlattenSeq(f) \in Seq(S)
  <1>1. f \in [1 .. Len(s) -> Seq(S)] OBVIOUS
  <1>2. f \in Seq(Seq(S)) BY <1>1, SequenceOf
  <1> QED BY <1>2, FlattenIs

-----------------------------------------------------------------------------
(* Lines that fit.                                                         *)

\* Where a line in an exten may lead.
MayLead(ctx, exten, to) ==
  /\ Within(ctx) \/ (ctx = Internal /\ exten \notin WaysOut) => Within(to.ctx)
  /\ to.ctx # ctx => to.label = First

LEMMA RunFits ==
  ASSUME NEW ctx, NEW exten, NEW app \in Apps \ Leads, NEW who \in SUBSET Text,
         app = "Dial" => who # {} /\ Rings(ctx)
  PROVE  Run(app, who) \in Fitting(ctx, exten)
  BY RunIs DEF Fitting, LineFits

LEMMA PlainLines ==
  ASSUME NEW ctx, NEW exten
  PROVE  /\ Line \in Fitting(ctx, exten) /\ Hangup \in Fitting(ctx, exten)
         /\ Run("Playback", {}) \in Fitting(ctx, exten)
         /\ \A x \in Text : /\ Run("Voicemail", {x}) \in Fitting(ctx, exten)
                            /\ Run("Stasis", {x}) \in Fitting(ctx, exten)
                            /\ Run("Queue", {x}) \in Fitting(ctx, exten)
                            /\ Rings(ctx) => Run("Dial", {x}) \in Fitting(ctx, exten)
  <1>1. {"Hangup", "Playback", "Voicemail", "Stasis", "Queue", "Dial"} \subseteq Apps \ Leads
    BY DEF Apps, Leads
  <1>2. {} \in SUBSET Text /\ \A x \in Text : {x} \in SUBSET Text /\ {x} # {} OBVIOUS
  <1>3. Line \in Fitting(ctx, exten) BY LineIs, PlainFits DEF Leads
  <1>4. Hangup \in Fitting(ctx, exten) BY <1>1, <1>2, RunFits DEF Hangup
  <1> QED BY <1>1, <1>2, <1>3, <1>4, RunFits

LEMMA LeadFits ==
  ASSUME NEW ctx, NEW exten, NEW to \in Place, MayLead(ctx, exten, to)
  PROVE  /\ Goto(to) \in Fitting(ctx, exten)
         /\ \A test \in Seq(Text) : GotoIf(test, to) \in Fitting(ctx, exten)
  BY GotoIs, GotoIfIs DEF Fitting, LineFits, MayLead

LEMMA StringsAreText ==
  /\ STRING \subseteq Text /\ Seq(STRING) \subseteq Seq(Text)
  /\ Start \in Seq(Text) /\ First \in Label /\ Internal \in Seq(Text) /\ Outbound \in Seq(Text)
  /\ FromTrunk \in Seq(Text) /\ Failover \in Seq(Text)
  <1>1. STRING \subseteq Text BY DEF Text
  <1>2. {"s", "1", "internal", "outbound", "from-trunk", "outbound-failover"} \subseteq Text
    BY DEF Text
  <1>3. Seq(STRING) \subseteq Seq(Text) BY <1>1, SeqMonotonic
  <1>4. "1" \in Text \union Int BY <1>2
  <1>5. First \in Label BY <1>4 DEF First, Label
  <1> QED BY <1>1, <1>2, <1>3, <1>5 DEF Start, Internal, Outbound, FromTrunk, Failover

\* A destination, in a context of which a call may leave.
LEMMA RenderFits ==
  ASSUME NEW ctx, NEW exten, NEW dest \in Seq(STRING),
         ~ Within(ctx), ctx # Internal
  PROVE  Render(dest) \in Fitting(ctx, exten)
  <1>1. CASE dest = << >> BY <1>1, PlainLines DEF Render
  <1>2. CASE dest # << >>
    <2>1. dest \in Seq(Text) BY StringsAreText
    <2>2. At(dest, Start, First) \in Place /\ At(dest, Start, First).label = First
      BY <2>1, StringsAreText, AtIs
    <2> QED BY <1>2, <2>2, LeadFits DEF Render, MayLead
  <1> QED BY <1>1, <1>2

-----------------------------------------------------------------------------
(* The sections of an extension.                                           *)

LEMMA ExtIs ==
  ASSUME NEW e \in ExtRecord
  PROVE  /\ Ext(e) \in Seq(Text) /\ Within(Ext(e)) /\ Ext(e) # Internal /\ Ext(e) # Outbound
         /\ Rings(Ext(e)) /\ e.number \in Text /\ <<e.number>> \in Seq(Text) /\ <<"vm", e.number>> \in Seq(Text)
         /\ Len(e.devices) \in Nat /\ DOMAIN e.devices = 1 .. Len(e.devices)
         /\ \A i \in DOMAIN e.devices : e.devices[i] \in Text
         /\ <<"vm", e.number>> # Outbound /\ <<"vm", e.number>> # Internal
  <1>1. e.number \in Text /\ e.devices \in Seq(Text) BY StringsAreText DEF ExtRecord
  <1>2. {"ext", "vm"} \subseteq Text BY DEF Text
  <1>3. Ext(e) \in Seq(Text) BY <1>1, <1>2 DEF Ext
  <1>4. Within(Ext(e)) /\ Ext(e) # Internal /\ Ext(e) # Outbound /\ Rings(Ext(e))
    BY DEF Within, Ext, Internal, Outbound, Rings
  <1>5. <<e.number>> \in Seq(Text) /\ <<"vm", e.number>> \in Seq(Text) BY <1>1, <1>2
  <1>6. <<"vm", e.number>> # Outbound /\ <<"vm", e.number>> # Internal BY DEF Outbound, Internal
  <1> QED BY <1>1, <1>3, <1>4, <1>5, <1>6, LenProperties, ElementOfSeq

LEMMA InExtFits ==
  ASSUME NEW e \in ExtRecord, NEW label \in Text
  PROVE  /\ InExt(e, label) \in Place /\ InExt(e, label).ctx = Ext(e)
         /\ InExt(e, label).label = <<label>>
         /\ \A test \in Seq(Text) : GotoIf(test, InExt(e, label)) \in Fitting(Ext(e), Start)
  <1>1. <<label>> \in Label BY DEF Label
  <1>2. InExt(e, label) \in Place /\ InExt(e, label).ctx = Ext(e) /\ InExt(e, label).label = <<label>>
    <2>1. Ext(e) \in Seq(Text) BY ExtIs
    <2>2. Start \in Seq(Text) BY StringsAreText
    <2> DEFINE own == <<label>>
    <2> HIDE DEF own
    <2>3. At(Ext(e), Start, own) \in Place /\ At(Ext(e), Start, own).ctx = Ext(e)
          /\ At(Ext(e), Start, own).label = own
      BY <1>1, <2>1, <2>2, AtIs DEF own
    <2> QED BY <2>3 DEF InExt, own
  <1>3. MayLead(Ext(e), Start, InExt(e, label)) BY <1>2, ExtIs DEF MayLead
  <1> QED BY <1>2, <1>3, LeadFits

LEMMA RingGroupIs ==
  ASSUME NEW e \in ExtRecord, e.devices # << >>
  PROVE  RingGroup(e) \in Seq(Fitting(Ext(e), Start))
  <1> DEFINE S == Fitting(Ext(e), Start)
             n == Len(e.devices)
  <1>1. {"busy", "unavailable", "done", "INUSE", "UNAVAILABLE", "DIALSTATUS", "ANSWER", "BUSY",
         "CHANUNAVAIL"} \subseteq Text
    BY DEF Text
  <1>2. n \in Nat /\ DOMAIN e.devices = 1 .. n /\ \A i \in 1 .. n : e.devices[i] \in Text
    BY ExtIs
  <1>3. /\ Line \in S /\ Hangup \in S /\ Run("Playback", {}) \in S
        /\ Run("Voicemail", {e.number}) \in S /\ Run("Stasis", {e.number}) \in S
        /\ \A i \in 1 .. n : Run("Dial", {e.devices[i]}) \in S
    BY <1>2, ExtIs, PlainLines
  <1>4. BusyGates(e) \in Seq(S)
    <2>1. \A i \in 1 .. n : <<"INUSE", e.devices[i]>> \in Seq(Text) BY <1>1, <1>2
    <2>2. \A i \in 1 .. n : GotoIf(<<"INUSE", e.devices[i]>>, InExt(e, "busy")) \in S
      BY <1>1, <2>1, InExtFits
    <2> HIDE DEF S, n
    <2>3. BusyGates(e) \in [1 .. n -> S] BY <1>2, <2>2 DEF BusyGates
    <2> QED BY <1>2, <2>3, SequenceOf
  <1>5. AvailabilityGates(e) \in Seq(S)
    <2>1. <<"UNAVAILABLE">> \in Seq(Text) BY <1>1
    <2>2. GotoIf(<<"UNAVAILABLE">>, InExt(e, "unavailable")) \in S BY <1>1, <2>1, InExtFits
    <2> HIDE DEF S
    <2> QED BY <2>2 DEF AvailabilityGates
  <1>6. Settled(e) \in Seq(S)
    <2>1. <<"DIALSTATUS", "ANSWER">> \in Seq(Text) /\ <<"DIALSTATUS", "BUSY">> \in Seq(Text)
      BY <1>1
    <2>2. /\ GotoIf(<<"DIALSTATUS", "ANSWER">>, InExt(e, "done")) \in S
          /\ GotoIf(<<"DIALSTATUS", "BUSY">>, InExt(e, "busy")) \in S
      BY <1>1, <2>1, InExtFits
    <2> HIDE DEF S
    <2> QED BY <2>2 DEF Settled
  <1>7. DialLines(e) \in Seq(S)
    <2>1. CASE e.parallel
      <3>1. ToSet(e.devices) \in SUBSET Text BY <1>2 DEF ToSet
      <3>2. ToSet(e.devices) # {}
        <4>1. e.devices \in Seq(STRING) BY DEF ExtRecord
        <4>2. n # 0 BY <4>1, EmptySeq
        <4>3. e.devices[1] \in ToSet(e.devices) BY <1>2, <4>2 DEF ToSet
        <4> QED BY <4>3
      <3>3. "Dial" \in Apps \ Leads BY DEF Apps, Leads
      <3>4. Run("Dial", ToSet(e.devices)) \in S BY <3>1, <3>2, <3>3, ExtIs, RunFits
      <3> HIDE DEF S
      <3> QED BY <2>1, <3>4 DEF DialLines
    <2>2. CASE ~ e.parallel
      <3> DEFINE f == [i \in DOMAIN e.devices |->
                        <<Run("Dial", {e.devices[i]})>>
                          \o (IF i < Len(e.devices) THEN Settled(e) ELSE << >>)]
      <3> HIDE DEF S
      <3>1. ASSUME NEW i \in 1 .. n PROVE f[i] \in Seq(S)
        <4>1. <<Run("Dial", {e.devices[i]})>> \in Seq(S) BY <1>3
        <4>2. (IF i < Len(e.devices) THEN Settled(e) ELSE << >>) \in Seq(S) BY <1>6, EmptySeq
        <4> QED BY <1>2, <4>1, <4>2, Concat
      <3>2. f = [i \in DOMAIN e.devices |-> f[i]] OBVIOUS
      <3>3. DialLines(e) = FlattenSeq(f) BY <2>2 DEF DialLines
      <3> HIDE DEF f
      <3> QED BY <1>2, <3>1, <3>2, <3>3, EachIs
    <2> QED BY <2>1, <2>2
  <1>8. FollowMe(e) \in S BY <1>3 DEF FollowMe
  <1>9. <<"unavailable">> \in Label /\ <<"done">> \in Label /\ <<"busy">> \in Label
    BY <1>1 DEF Label
  <1>10. /\ Labelled(<<"unavailable">>, Run("Playback", {})) \in S
         /\ Labelled(<<"done">>, Hangup) \in S
         /\ Labelled(<<"busy">>, Run("Voicemail", {e.number})) \in S
    BY <1>3, <1>9, FitsLabelled
  <1> HIDE DEF S, n
  <1>11. Announcement(e) \in Seq(S) BY <1>3, <1>10 DEF Announcement
  <1> DEFINE tail == <<FollowMe(e), Hangup, Labelled(<<"done">>, Hangup),
                       Labelled(<<"busy">>, Run("Voicemail", {e.number})), Hangup>>
  <1>12. tail \in Seq(S) /\ <<Line>> \in Seq(S) BY <1>3, <1>8, <1>10
  <1>13. RingGroup(e) = <<Line>> \o BusyGates(e) \o AvailabilityGates(e) \o DialLines(e)
                          \o tail \o Announcement(e)
    BY DEF RingGroup
  <1> HIDE DEF tail
  <1>14. <<Line>> \o BusyGates(e) \in Seq(S) BY <1>4, <1>12, Concat
  <1>15. <<Line>> \o BusyGates(e) \o AvailabilityGates(e) \in Seq(S) BY <1>5, <1>14, Concat
  <1>16. <<Line>> \o BusyGates(e) \o AvailabilityGates(e) \o DialLines(e) \in Seq(S)
    BY <1>7, <1>15, Concat
  <1>17. <<Line>> \o BusyGates(e) \o AvailabilityGates(e) \o DialLines(e) \o tail \in Seq(S)
    BY <1>12, <1>16, Concat
  <1>18. RingGroup(e) \in Seq(S) BY <1>11, <1>13, <1>17, Concat
  <1> QED BY <1>18 DEF S

LEMMA ExtSectionsAre ==
  ASSUME NEW c, NEW e \in ExtRecord
  PROVE  ExtSections(e) \in Seq(Made(c)) /\ InternalEntry(e) \in Seq(Made(c))
  <1> DEFINE VM == <<"vm", e.number>>
  <1>1. Internal # Outbound BY DEF Internal, Outbound
  <1>2. ASSUME e.devices # << >> PROVE Section(Ext(e), Start, RingGroup(e)) \in Seq(Made(c))
    BY <1>2, ExtIs, StringsAreText, RingGroupIs, SectionIs
  <1>3. Section(VM, Start, <<Run("Voicemail", {e.number})>>) \in Seq(Made(c))
    <2>1. Run("Voicemail", {e.number}) \in Fitting(VM, Start) BY ExtIs, PlainLines
    <2>2. <<Run("Voicemail", {e.number})>> \in Seq(Fitting(VM, Start)) BY <2>1
    <2> QED BY <2>2, ExtIs, StringsAreText, SectionIs
  <1>4. Section(Internal, <<e.number>>, <<Run("Stasis", {e.number})>>) \in Seq(Made(c))
    <2>1. Run("Stasis", {e.number}) \in Fitting(Internal, <<e.number>>) BY ExtIs, PlainLines
    <2>2. <<Run("Stasis", {e.number})>> \in Seq(Fitting(Internal, <<e.number>>)) BY <2>1
    <2> QED BY <1>1, <2>2, ExtIs, StringsAreText, SectionIs
  <1>5. Section(Internal, <<e.number>>, <<Goto(InExt(e, "1"))>>) \in Seq(Made(c))
    <2>1. "1" \in Text BY DEF Text
    <2>2. InExt(e, "1") \in Place /\ InExt(e, "1").ctx = Ext(e) /\ InExt(e, "1").label = <<"1">>
      BY <2>1, InExtFits
    <2>3. MayLead(Internal, <<e.number>>, InExt(e, "1")) BY <2>2, ExtIs DEF MayLead, First
    <2>4. Goto(InExt(e, "1")) \in Fitting(Internal, <<e.number>>) BY <2>2, <2>3, LeadFits
    <2>5. <<Goto(InExt(e, "1"))>> \in Seq(Fitting(Internal, <<e.number>>)) BY <2>4
    <2> QED BY <1>1, <2>5, ExtIs, StringsAreText, SectionIs
  <1>6. << >> \in Seq(Made(c)) BY EmptySeq
  <1> HIDE DEF VM
  <1>7. ExtSections(e) \in Seq(Made(c))
    <2>1. (IF e.mailbox THEN Section(VM, Start, <<Run("Voicemail", {e.number})>>)
           ELSE << >>) \in Seq(Made(c))
      BY <1>3, <1>6
    <2> QED BY <1>2, <1>6, <2>1, Concat DEF ExtSections, HasRingGroup, VM
  <1> QED BY <1>4, <1>5, <1>6, <1>7 DEF InternalEntry

-----------------------------------------------------------------------------
(* What is kept of a sequence.                                             *)

\* A sequence of elements of s in their order.
InOrder(t, s, at) ==
  /\ at \in [1 .. Len(t) -> 1 .. Len(s)]
  /\ \A k \in 1 .. Len(t) : t[k] = s[at[k]]
  /\ \A j, k \in 1 .. Len(t) : j < k => at[j] < at[k]

LEMMA InOrderMore ==
  ASSUME NEW R, NEW s \in Seq(R), NEW n \in 1 .. Len(s), NEW t \in Seq(R), NEW at,
         InOrder(t, s, at), \A k \in 1 .. Len(t) : at[k] < n
  PROVE  \E b : /\ InOrder(Append(t, s[n]), s, b)
                /\ \A k \in 1 .. Len(Append(t, s[n])) : b[k] <= n
  <1> DEFINE m == Len(t)
             u == Append(t, s[n])
             b == [k \in 1 .. m + 1 |-> IF k = m + 1 THEN n ELSE at[k]]
  <1>1. m \in Nat /\ Len(s) \in Nat BY LenProperties
  <1>2. s[n] \in R BY ElementOfSeq
  <1>3. u \in Seq(R) /\ Len(u) = m + 1 /\ u[m + 1] = s[n] /\ \A k \in 1 .. m : u[k] = t[k]
    BY <1>2, AppendProperties
  <1> HIDE DEF u
  <1>4. \A k \in 1 .. m : at[k] \in 1 .. Len(s) /\ t[k] = s[at[k]] BY DEF InOrder
  <1>5. \A j, k \in 1 .. m : j < k => at[j] < at[k] BY DEF InOrder
  <1> HIDE DEF m
  <1>6. \A k \in 1 .. m + 1 : k = m + 1 \/ k \in 1 .. m BY <1>1
  <1>7. ~ m + 1 \in 1 .. m /\ m + 1 \in 1 .. m + 1 BY <1>1
  <1>8. b \in [1 .. m + 1 -> 1 .. Len(s)] BY <1>1, <1>4, <1>6
  <1>9. \A k \in 1 .. m + 1 : u[k] = s[b[k]]
    <2>1. ASSUME NEW k \in 1 .. m PROVE k \in 1 .. m + 1 /\ k # m + 1 BY <1>1
    <2> QED BY <1>3, <1>4, <1>6, <2>1
  <1>10. \A k \in 1 .. m : b[k] = at[k] BY <1>1
  <1>11. b[m + 1] = n BY <1>7
  <1>12. \A k \in 1 .. m : at[k] < n BY DEF m
  <1>13. \A j, k \in 1 .. m + 1 : j < k => j \in 1 .. m BY <1>1
  <1> HIDE DEF b
  <1>14. \A j, k \in 1 .. m + 1 : j < k => b[j] < b[k]
    BY <1>5, <1>6, <1>10, <1>11, <1>12, <1>13
  <1>15. \A k \in 1 .. m + 1 : b[k] <= n
    <2>1. \A k \in 1 .. m : at[k] <= n BY <1>4, <1>12
    <2> QED BY <1>6, <1>10, <1>11, <2>1
  <1>16. InOrder(u, s, b) BY <1>3, <1>8, <1>9, <1>14 DEF InOrder
  <1> QED BY <1>3, <1>15, <1>16 DEF u

LEMMA KeptIs ==
  ASSUME NEW R, NEW s \in Seq(R), NEW S
  PROVE  /\ Kept(s, S) \in Seq(R)
         /\ \A k \in 1 .. Len(Kept(s, S)) : Kept(s, S)[k] \in S \intersect R
         /\ \E at : InOrder(Kept(s, S), s, at)
  <1> DEFINE n == Len(s)
             T == Seq(R)
             kept == CHOOSE f : f = [i \in 0 .. n |->
                       IF i = 0 THEN << >>
                       ELSE IF s[i] \in S THEN Append(f[i - 1], s[i]) ELSE f[i - 1]]
             F == [p \in (1 .. n) \X T |->
                     IF s[p[1]] \in S THEN Append(p[2], s[p[1]]) ELSE p[2]]
  <1>1. n \in Nat /\ \A i \in 1 .. n : s[i] \in R BY LenProperties, ElementOfSeq
  <1>2. Kept(s, S) = kept[n] BY DEF Kept
  <1> HIDE DEF n
  <1>3. F \in [(1 .. n) \X T -> T] /\ << >> \in T
    <2>1. \A q \in T, i \in 1 .. n : Append(q, s[i]) \in T BY <1>1, AppendProperties
    <2> QED BY <2>1
  <1>4. \A i \in 1 .. n, q \in T : F[<<i, q>>] = IF s[i] \in S THEN Append(q, s[i]) ELSE q
    OBVIOUS
  <1> HIDE DEF F, T
  <1>5. PICK g \in [0 .. n -> T] : Steps(g, << >>, F, n) BY <1>1, <1>3, RecursionOn
  <1>6. g = [i \in 0 .. n |-> IF i = 0 THEN << >>
                              ELSE IF s[i] \in S THEN Append(g[i - 1], s[i]) ELSE g[i - 1]]
    <2>1. ASSUME NEW i \in 0 .. n
          PROVE  g[i] = IF i = 0 THEN << >>
                        ELSE IF s[i] \in S THEN Append(g[i - 1], s[i]) ELSE g[i - 1]
      <3>1. CASE i = 0 BY <1>5, <3>1 DEF Steps
      <3>2. CASE i # 0
        <4>1. i \in 1 .. n /\ i - 1 \in 0 .. n BY <1>1, <3>2
        <4>2. g[i - 1] \in T BY <1>5, <4>1
        <4>3. g[i] = F[<<i, g[i - 1]>>] BY <1>5, <3>2 DEF Steps
        <4>4. F[<<i, g[i - 1]>>] = IF s[i] \in S THEN Append(g[i - 1], s[i]) ELSE g[i - 1]
          BY <1>4, <4>1, <4>2
        <4> QED BY <3>2, <4>3, <4>4
      <3> QED BY <3>1, <3>2
    <2>2. g = [i \in 0 .. n |-> g[i]] BY <1>5
    <2> QED BY <2>1, <2>2
  <1>7. kept = [i \in 0 .. n |-> IF i = 0 THEN << >>
                                 ELSE IF s[i] \in S THEN Append(kept[i - 1], s[i]) ELSE kept[i - 1]]
    BY <1>6
  <1> HIDE DEF kept
  <1> DEFINE Good == {i \in 0 .. n :
               /\ kept[i] \in T
               /\ \A k \in 1 .. Len(kept[i]) : kept[i][k] \in S \intersect R
               /\ \E at : InOrder(kept[i], s, at) /\ \A k \in 1 .. Len(kept[i]) : at[k] <= i}
  <1>8. 0 \in Good
    <2>1. 0 \in 0 .. n BY <1>1
    <2>2. kept[0] = << >> BY <1>7, <2>1
    <2>3. Len(<< >>) = 0 /\ 1 .. 0 = {} OBVIOUS
    <2> DEFINE none == [k \in 1 .. 0 |-> 0]
    <2>4. InOrder(<< >>, s, none) BY <2>3 DEF InOrder
    <2> HIDE DEF none
    <2>5. \E at : InOrder(kept[0], s, at) /\ \A k \in 1 .. Len(kept[0]) : at[k] <= 0
      BY <2>2, <2>3, <2>4
    <2> QED BY <1>3, <2>1, <2>2, <2>3, <2>5
  <1>9. ASSUME NEW i \in 1 .. n, i - 1 \in Good PROVE i \in Good
    <2>1. i \in 0 .. n /\ i # 0 /\ i \in Nat /\ s[i] \in R BY <1>1
    <2>2. kept[i] = IF s[i] \in S THEN Append(kept[i - 1], s[i]) ELSE kept[i - 1] BY <1>7, <2>1
    <2>3. kept[i - 1] \in Seq(R) /\ \A k \in 1 .. Len(kept[i - 1]) : kept[i - 1][k] \in S \intersect R
      BY <1>9 DEF T
    <2>4. PICK at : /\ InOrder(kept[i - 1], s, at)
                    /\ \A k \in 1 .. Len(kept[i - 1]) : at[k] <= i - 1
      BY <1>9
    <2>5. \A k \in 1 .. Len(kept[i - 1]) : at[k] \in Nat /\ at[k] < i /\ at[k] <= i
      <3>1. \A k \in 1 .. Len(kept[i - 1]) : at[k] \in 1 .. Len(s) BY <2>4 DEF InOrder
      <3> QED BY <2>1, <2>4, <3>1
    <2>6. CASE s[i] \notin S
      <3>1. kept[i] = kept[i - 1] BY <2>2, <2>6
      <3>2. InOrder(kept[i], s, at) /\ \A k \in 1 .. Len(kept[i]) : at[k] <= i
        BY <2>4, <2>5, <3>1
      <3> QED BY <2>1, <2>3, <3>1, <3>2 DEF T
    <2>7. CASE s[i] \in S
      <3>1. kept[i] = Append(kept[i - 1], s[i]) BY <2>2, <2>7
      <3>2. i \in 1 .. Len(s) BY DEF n
      <3>3. PICK b : InOrder(kept[i], s, b) /\ \A k \in 1 .. Len(kept[i]) : b[k] <= i
        <4> HIDE DEF Good
        <4> QED BY <2>3, <2>4, <2>5, <3>1, <3>2, InOrderMore
      <3>4. kept[i] \in Seq(R) /\ \A k \in 1 .. Len(kept[i]) : kept[i][k] \in S \intersect R
        <4>1. /\ kept[i] \in Seq(R) /\ Len(kept[i]) = Len(kept[i - 1]) + 1
              /\ \A k \in 1 .. Len(kept[i - 1]) : kept[i][k] = kept[i - 1][k]
              /\ kept[i][Len(kept[i - 1]) + 1] = s[i]
          BY <2>1, <2>3, <3>1, AppendProperties
        <4>2. Len(kept[i - 1]) \in Nat BY <2>3, LenProperties
        <4>3. \A k \in 1 .. Len(kept[i - 1]) + 1 :
                k \in 1 .. Len(kept[i - 1]) \/ k = Len(kept[i - 1]) + 1
          BY <4>2
        <4> QED BY <2>1, <2>3, <2>7, <4>1, <4>3
      <3> QED BY <2>1, <3>3, <3>4 DEF T
    <2> QED BY <2>6, <2>7
  <1> HIDE DEF Good
  <1>10. n \in Good
    <2>1. \A i \in 0 .. n : i \in Good BY <1>1, <1>8, <1>9, UpTo
    <2> QED BY <1>1, <2>1
  <1> QED BY <1>2, <1>10 DEF Good, T

-----------------------------------------------------------------------------
(* The sections of time conditions and queues.                             *)

LEMMA HolidaySkipFits ==
  ASSUME NEW ctx, NEW exten, NEW gate, NEW to \in Place, MayLead(ctx, exten, to)
  PROVE  HolidaySkip(gate, to) \in Seq(Fitting(ctx, exten))
  <1> DEFINE day == "year for month"
  <1>1. "TIME" \in Text /\ day \in Text BY DEF Text
  <1> HIDE DEF day
  <1>2. <<"TIME", day>> \in Seq(Text) BY <1>1
  <1>3. GotoIf(<<"TIME", day>>, to) \in Fitting(ctx, exten) BY <1>2, LeadFits
  <1> DEFINE skip == <<GotoIf(<<"TIME", day>>, to)>>
  <1>4. skip \in Seq(Fitting(ctx, exten)) BY <1>3
  <1> HIDE DEF skip
  <1>5. HolidaySkip(gate, to) = IF gate = "leaves" THEN skip ELSE << >>
    BY DEF HolidaySkip, skip, day
  <1> QED BY <1>4, <1>5, EmptySeq

LEMMA TimeSectionsAre ==
  ASSUME NEW c, NEW t \in TimeRecord
  PROVE  TimeSections(t) \in Seq(Made(c))
  <1> DEFINE ctx == <<"time", t.name>>
             S == Fitting(ctx, Start)
             to(label) == At(ctx, Start, <<label>>)
  <1>1. {"time", "TIME", "hours", "in-range", "no-match"} \subseteq Text /\ t.name \in Text
    BY StringsAreText DEF Text, TimeRecord
  <1>2. ctx \in Seq(Text) /\ ~ Within(ctx) /\ ctx # Internal /\ ctx # Outbound
    BY <1>1 DEF Within, Internal, Outbound
  <1> HIDE DEF ctx
  <1>3. \A label \in Text : <<label>> \in Label BY DEF Label
  <1>4. ASSUME NEW label \in Text PROVE to(label) \in Place /\ to(label).ctx = ctx
    <2> DEFINE l == <<label>>
    <2>1. l \in Label BY <1>3
    <2> HIDE DEF l
    <2>2. At(ctx, Start, l) \in Place /\ At(ctx, Start, l).ctx = ctx
      BY <1>2, <2>1, StringsAreText, AtIs
    <2> QED BY <2>2 DEF l
  <1> HIDE DEF to
  <1>5. \A label \in Text : MayLead(ctx, Start, to(label)) BY <1>2, <1>4 DEF MayLead
  <1>6. <<"TIME", "hours">> \in Seq(Text) BY <1>1
  <1>7. /\ GotoIf(<<"TIME", "hours">>, to("in-range")) \in S /\ Goto(to("no-match")) \in S
        /\ HolidaySkip(t.gate, to("no-match")) \in Seq(S)
    BY <1>1, <1>4, <1>5, <1>6, LeadFits, HolidaySkipFits
  <1>8. Render(t.match) \in S /\ Render(t.nomatch) \in S
    BY <1>2, RenderFits DEF TimeRecord
  <1>9. Labelled(<<"in-range">>, Line) \in S /\ Labelled(<<"no-match">>, Render(t.nomatch)) \in S
    BY <1>1, <1>3, <1>8, FitsLabelled, PlainLines
  <1> HIDE DEF S
  <1> DEFINE first == <<GotoIf(<<"TIME", "hours">>, to("in-range")), Goto(to("no-match")),
                        Labelled(<<"in-range">>, Line)>>
             last == <<Render(t.match), Labelled(<<"no-match">>, Render(t.nomatch))>>
  <1>10. first \in Seq(S) /\ last \in Seq(S) BY <1>7, <1>8, <1>9
  <1>11. TimeSections(t) = Section(ctx, Start, first \o HolidaySkip(t.gate, to("no-match")) \o last)
    BY DEF TimeSections, ctx, to
  <1> HIDE DEF first, last
  <1>12. first \o HolidaySkip(t.gate, to("no-match")) \o last \in Seq(S) BY <1>7, <1>10, Concat
  <1> QED BY <1>2, <1>11, <1>12, StringsAreText, SectionIs DEF S

LEMMA QueueIs ==
  ASSUME NEW q \in QueueRecord
  PROVE  /\ q.name \in Text /\ <<q.name>> \in Seq(Text) /\ <<q.number>> \in Seq(Text)
         /\ At(<<"queue", q.name>>, Start, First) \in Place
         /\ \A exten : Goto(At(<<"queue", q.name>>, Start, First)) \in Fitting(Internal, exten)
  <1>1. q.name \in Text /\ q.number \in Text /\ "queue" \in Text
    BY StringsAreText DEF QueueRecord, Text
  <1>2. <<"queue", q.name>> \in Seq(Text) /\ Within(<<"queue", q.name>>) BY <1>1 DEF Within
  <1> DEFINE ctx == <<"queue", q.name>>
             to == At(ctx, Start, First)
  <1>3. to \in Place /\ to.ctx = ctx /\ to.label = First
    <2>1. ctx \in Seq(Text) BY <1>2
    <2> HIDE DEF ctx
    <2> QED BY <2>1, StringsAreText, AtIs
  <1> HIDE DEF to
  <1>4. \A exten : MayLead(Internal, exten, to) BY <1>2, <1>3 DEF MayLead
  <1>5. \A exten : Goto(to) \in Fitting(Internal, exten) BY <1>3, <1>4, LeadFits
  <1>6. <<q.name>> \in Seq(Text) /\ <<q.number>> \in Seq(Text) BY <1>1
  <1> QED BY <1>1, <1>3, <1>5, <1>6 DEF to

LEMMA QueueSectionsAre ==
  ASSUME NEW c, NEW q \in QueueRecord, q \in ToSet(c.queues)
  PROVE  QueueSections(q) \in Seq(Made(c)) /\ QueueEntry(q) \in Seq(Made(c))
  <1>1. Internal # Outbound BY DEF Internal, Outbound
  <1> DEFINE ctx == <<q.name>>
             entry == <<Goto(At(<<"queue", q.name>>, Start, First))>>
             lines == <<Run("Queue", {q.name}), Hangup>>
             timed == QueueTimeout(q)
  <1>2. entry \in Seq(Fitting(Internal, <<q.number>>))
    <2>1. Goto(At(<<"queue", q.name>>, Start, First)) \in Fitting(Internal, <<q.number>>)
      BY QueueIs
    <2> QED BY <2>1
  <1>3. lines \in Seq(Fitting(ctx, Start)) /\ timed \in Seq(Fitting(ctx, <<"t">>))
    <2> DEFINE t == <<"t">>
    <2>1. Run("Queue", {q.name}) \in Fitting(ctx, Start) /\ Hangup \in Fitting(ctx, Start)
      BY QueueIs, PlainLines
    <2>2. q.target \in Text BY DEF QueueRecord, Text
    <2> DEFINE on == Run("Queue", {q.target})
    <2>3. on \in Fitting(ctx, t) /\ Hangup \in Fitting(ctx, t) /\ Line \in Fitting(ctx, t)
      BY <2>2, PlainLines
    <2>4. timed = <<Hangup>> \/ timed = <<Line, on, Hangup>> BY DEF QueueTimeout
    <2> HIDE DEF ctx, on, timed, t
    <2> DEFINE end == Hangup
               line == Line
               F == Fitting(ctx, t)
    <2>7. end \in F /\ on \in F /\ line \in F BY <2>3
    <2>8. timed = <<end>> \/ timed = <<line, on, end>> BY <2>4
    <2> HIDE DEF end, line, F
    <2>9. <<end>> \in Seq(F) BY <2>7
    <2>10. <<line, on, end>> \in Seq(F) BY <2>7
    <2>5. timed \in Seq(F) BY <2>8, <2>9, <2>10
    <2>6. lines \in Seq(Fitting(ctx, Start)) BY <2>1
    <2> QED BY <2>5, <2>6 DEF t, F
  <1>4. \A s : s.ctx = ctx => OutboundIsChain(c, s)
    <2>1. ctx = Outbound => q.name = "outbound" BY DEF Outbound
    <2> HIDE DEF ctx
    <2> QED BY <2>1 DEF OutboundIsChain
  <1>5. <<"t">> \in Seq(Text) BY DEF Text
  <1>6. ctx \in Seq(Text) BY QueueIs
  <1> HIDE DEF ctx, lines, entry, timed
  <1>7. Section(ctx, Start, lines) \in Seq(Made(c)) /\ Section(ctx, <<"t">>, timed) \in Seq(Made(c))
    <2>1. /\ OutboundIsChain(c, [ctx |-> ctx, exten |-> Start, lines |-> lines])
          /\ OutboundIsChain(c, [ctx |-> ctx, exten |-> <<"t">>, lines |-> timed])
      BY <1>4
    <2>2. Section(ctx, Start, lines) \in Seq(Made(c))
      BY <1>3, <1>6, <2>1, StringsAreText, SectionOf
    <2> DEFINE t == <<"t">>
    <2>3. /\ t \in Seq(Text) /\ timed \in Seq(Fitting(ctx, t))
          /\ OutboundIsChain(c, [ctx |-> ctx, exten |-> t, lines |-> timed])
      BY <1>3, <1>5, <2>1
    <2> HIDE DEF t
    <2>4. Section(ctx, t, timed) \in Seq(Made(c)) BY <1>6, <2>3, SectionOf
    <2> QED BY <2>2, <2>4 DEF t
  <1>8. Section(Internal, <<q.number>>, entry) \in Seq(Made(c))
    BY <1>1, <1>2, QueueIs, StringsAreText, SectionIs
  <1>9. QueueSections(q) \in Seq(Made(c))
    <2>1. (IF q.timed THEN Section(ctx, <<"t">>, timed) ELSE << >>) \in Seq(Made(c))
      BY <1>7, EmptySeq
    <2> QED BY <1>7, <2>1, Concat DEF QueueSections, ctx, lines, timed
  <1> QED BY <1>8, <1>9 DEF QueueEntry, entry

LEMMA OperatorEntryIs ==
  ASSUME NEW c \in CompanyRecord
  PROVE  OperatorEntry(c) \in Seq(Made(c))
  <1> DEFINE manual == {i \in DOMAIN c.queues : c.queues[i].manual}
             q == c.queues[Min(manual)]
  <1>1. CASE manual = {} BY <1>1, EmptySeq DEF OperatorEntry
  <1>2. CASE manual # {}
    <2>1. c.queues \in Seq(QueueRecord) BY DEF CompanyRecord
    <2>2. DOMAIN c.queues = 1 .. Len(c.queues) /\ Len(c.queues) \in Nat BY <2>1, LenProperties
    <2>3. manual \subseteq Nat /\ manual \subseteq 1 .. Len(c.queues) BY <2>2
    <2> HIDE DEF manual
    <2>4. Min(manual) \in 1 .. Len(c.queues) BY <1>2, <2>3, MinIs
    <2>5. q \in QueueRecord BY <2>1, <2>4, ElementOfSeq
    <2> HIDE DEF q
    <2> DEFINE lines == <<Goto(At(<<"queue", q.name>>, Start, First)), Hangup>>
    <2>6. Goto(At(<<"queue", q.name>>, Start, First)) \in Fitting(Internal, <<"0">>)
          /\ Hangup \in Fitting(Internal, <<"0">>)
      BY <2>5, QueueIs, PlainLines
    <2>7. lines \in Seq(Fitting(Internal, <<"0">>)) BY <2>6
    <2>8. <<"0">> \in Seq(Text) BY DEF Text
    <2>9. Internal # Outbound BY DEF Internal, Outbound
    <2>10. OperatorEntry(c) = Section(Internal, <<"0">>, lines)
      BY <1>2 DEF OperatorEntry, manual, q
    <2> HIDE DEF lines
    <2> QED BY <2>7, <2>8, <2>9, <2>10, StringsAreText, SectionIs
  <1> QED BY <1>1, <1>2

-----------------------------------------------------------------------------
(* The sections of inbound routes.                                         *)

LEMMA FromTrunkIs ==
  /\ FromTrunk \in Seq(Text) /\ ~ Within(FromTrunk) /\ FromTrunk # Internal /\ FromTrunk # Outbound
  BY StringsAreText DEF FromTrunk, Within, Internal, Outbound

LEMMA TrunkPlace ==
  ASSUME NEW exten \in Seq(Text), NEW label \in Label
  PROVE  /\ At(FromTrunk, exten, label) \in Place
         /\ \A x : MayLead(FromTrunk, x, At(FromTrunk, exten, label))
  BY AtIs, FromTrunkIs DEF MayLead

LEMMA MatchIs ==
  ASSUME NEW r \in InboundRecord
  PROVE  /\ InboundMatch(r) \in Seq(Text)
         /\ <<"start", r.seq>> \in Label /\ <<"r", r.seq>> \in Label
         /\ Render(r.dest) \in Fitting(FromTrunk, InboundMatch(r))
         /\ \A exten : Render(r.dest) \in Fitting(FromTrunk, exten)
         /\ <<"CALLERID", r.cid>> \in Seq(Text)
  <1>1. r.did \in Text /\ r.cid \in Text /\ r.seq \in Int /\ r.dest \in Seq(STRING)
    BY StringsAreText DEF InboundRecord
  <1>2. {"_.", "start", "r", "CALLERID"} \subseteq Text BY DEF Text
  <1>3. <<r.did, r.cid>> \in Seq(Text) /\ <<r.did>> \in Seq(Text) /\ <<"_.">> \in Seq(Text)
    BY <1>1, <1>2
  <1>4. InboundMatch(r) \in Seq(Text) BY <1>3, StringsAreText DEF InboundMatch
  <1>5. <<"start", r.seq>> \in Label /\ <<"r", r.seq>> \in Label BY <1>1, <1>2 DEF Label
  <1>6. <<"CALLERID", r.cid>> \in Seq(Text) BY <1>1, <1>2
  <1>7. \A exten : Render(r.dest) \in Fitting(FromTrunk, exten) BY <1>1, FromTrunkIs, RenderFits
  <1> QED BY <1>4, <1>5, <1>6, <1>7

LEMMA InboundLinesFit ==
  ASSUME NEW group \in Seq(InboundRecord), NEW i \in 1 .. Len(group), NEW exten
  PROVE  InboundLines(group, i) \in Seq(Fitting(FromTrunk, exten))
  <1> DEFINE S == Fitting(FromTrunk, exten)
             r == group[i]
             own == <<"r", r.seq>>
             start == <<"start", r.seq>>
             caller == <<"CALLERID", r.cid>>
             to == At(FromTrunk, InboundMatch(r), own)
             head == <<IF i = 1 THEN Line ELSE Labelled(start, Line)>>
             test == <<GotoIf(caller, to), Goto(NextInbound(group, i)), Labelled(own, Line)>>
             plain == <<Line>>
             last == <<Render(r.dest)>>
  <1>1. r \in InboundRecord BY ElementOfSeq
  <1> HIDE DEF r
  <1>2. own \in Label /\ start \in Label /\ caller \in Seq(Text) /\ InboundMatch(r) \in Seq(Text)
    BY <1>1, MatchIs
  <1>3. Render(r.dest) \in S BY <1>1, MatchIs
  <1> HIDE DEF own, start, caller
  <1>4. GotoIf(caller, to) \in S BY <1>2, TrunkPlace, LeadFits
  <1>5. Goto(NextInbound(group, i)) \in S
    <2>1. CASE i < Len(group)
      <3> DEFINE s == group[i + 1]
                 then == <<"start", s.seq>>
      <3>1. i + 1 \in 1 .. Len(group) BY <2>1, LenProperties
      <3>2. s \in InboundRecord BY <3>1, ElementOfSeq
      <3> HIDE DEF s
      <3>3. then \in Label BY <3>2, MatchIs
      <3> HIDE DEF then
      <3>4. NextInbound(group, i) = At(FromTrunk, InboundMatch(r), then)
        BY <2>1 DEF NextInbound, r, s, then
      <3> QED BY <1>2, <3>3, <3>4, TrunkPlace, LeadFits
    <2>2. CASE ~ i < Len(group)
      <3>1. NextInbound(group, i) = At(FromTrunk, Start, First) BY <2>2 DEF NextInbound
      <3> QED BY <3>1, StringsAreText, TrunkPlace, LeadFits
    <2> QED BY <2>1, <2>2
  <1>6. Line \in S /\ Labelled(start, Line) \in S /\ Labelled(own, Line) \in S
    BY <1>2, PlainLines, FitsLabelled
  <1> HIDE DEF S, to
  <1>7. head \in Seq(S) /\ test \in Seq(S) /\ plain \in Seq(S) /\ last \in Seq(S)
    BY <1>3, <1>4, <1>5, <1>6
  <1>8. InboundLines(group, i) = head \o (IF OnlyCid(r) THEN test ELSE plain) \o last
    BY DEF InboundLines, r, own, start, caller, to
  <1> HIDE DEF head, test, plain, last
  <1>9. (IF OnlyCid(r) THEN test ELSE plain) \in Seq(S) BY <1>7
  <1>10. head \o (IF OnlyCid(r) THEN test ELSE plain) \o last \in Seq(S) BY <1>7, <1>9, Concat
  <1> QED BY <1>8, <1>10 DEF S

LEMMA NoServiceFits ==
  ASSUME NEW ctx, NEW exten
  PROVE  NoService \in Seq(Fitting(ctx, exten))
  <1> DEFINE S == Fitting(ctx, exten)
  <1>1. Line \in S /\ Run("Playback", {}) \in S /\ Hangup \in S BY PlainLines
  <1> HIDE DEF S
  <1>2. NoService \in Seq(S) BY <1>1 DEF NoService
  <1> QED BY <1>2 DEF S

LEMMA InboundSectionsAre ==
  ASSUME NEW c \in CompanyRecord
  PROVE  /\ InboundSections(c) \in Seq(Made(c))
         /\ \A i \in DOMAIN c.inbound : InboundGroup(c.inbound, i) \in Seq(Made(c))
         /\ InboundFallback(c.inbound) \in Seq(Made(c))
         /\ \A a \in AccountRecord : AccountEntry(a) \in Seq(Made(c))
  <1> DEFINE routes == c.inbound
             n == Len(routes)
             M == Made(c)
             groups == [i \in DOMAIN routes |-> InboundGroup(routes, i)]
             accounts == [i \in DOMAIN c.accounts |-> AccountEntry(c.accounts[i])]
  <1>1. routes \in Seq(InboundRecord) /\ c.accounts \in Seq(AccountRecord) BY DEF CompanyRecord
  <1>2. /\ n \in Nat /\ DOMAIN routes = 1 .. n /\ \A i \in 1 .. n : routes[i] \in InboundRecord
        /\ Len(c.accounts) \in Nat /\ DOMAIN c.accounts = 1 .. Len(c.accounts)
        /\ \A i \in 1 .. Len(c.accounts) : c.accounts[i] \in AccountRecord
    BY <1>1, LenProperties, ElementOfSeq
  <1> HIDE DEF M, n, routes
  <1>3. << >> \in Seq(M) BY EmptySeq
  <1>4. ASSUME NEW i \in 1 .. n PROVE InboundGroup(routes, i) \in Seq(M)
    <2> DEFINE match == InboundMatch(routes[i])
               group == Kept(routes, {r \in ToSet(routes) : InboundMatch(r) = match})
               lines == [k \in DOMAIN group |-> InboundLines(group, k)]
    <2>1. match \in Seq(Text) BY <1>2, MatchIs
    <2>2. group \in Seq(InboundRecord) BY <1>1, KeptIs DEF routes
    <2>3. (IF \E j \in 1 .. i - 1 : InboundMatch(routes[j]) = match THEN << >>
           ELSE Section(FromTrunk, match, FlattenSeq(lines))) = InboundGroup(routes, i)
      BY DEF InboundGroup
    <2> HIDE DEF match, group
    <2>4. Len(group) \in Nat /\ DOMAIN group = 1 .. Len(group) BY <2>2, LenProperties
    <2>5. \A k \in DOMAIN group : lines[k] \in Seq(Fitting(FromTrunk, match))
      BY <2>2, <2>4, InboundLinesFit
    <2>6. lines = [k \in DOMAIN group |-> lines[k]] OBVIOUS
    <2> HIDE DEF lines
    <2>7. FlattenSeq(lines) \in Seq(Fitting(FromTrunk, match)) BY <2>4, <2>5, <2>6, EachIs
    <2>8. Section(FromTrunk, match, FlattenSeq(lines)) \in Seq(M)
      BY <2>1, <2>7, FromTrunkIs, SectionIs DEF M
    <2> QED BY <1>3, <2>3, <2>8
  <1>5. FlattenSeq(groups) \in Seq(M)
    <2>1. groups = [i \in DOMAIN routes |-> groups[i]] OBVIOUS
    <2>2. \A i \in DOMAIN routes : groups[i] \in Seq(M) BY <1>2, <1>4
    <2> HIDE DEF groups
    <2> QED BY <1>2, <2>1, <2>2, EachIs DEF n
  <1>6. InboundFallback(routes) \in Seq(M)
    <2> DEFINE any == <<"_.">>
    <2>1. any \in Seq(Text)
      <3>1. "_." \in Text BY DEF Text
      <3> QED BY <3>1
    <2>2. Section(FromTrunk, Start, NoService) \in Seq(M)
      BY NoServiceFits, FromTrunkIs, StringsAreText, SectionIs DEF M
    <2> HIDE DEF any
    <2>3. Section(FromTrunk, any, NoService) \in Seq(M)
      BY <2>1, NoServiceFits, FromTrunkIs, SectionIs DEF M
    <2>4. (IF \E i \in DOMAIN routes : OnlyCid(routes[i]) THEN << >>
           ELSE Section(FromTrunk, any, NoService)) \in Seq(M)
      BY <1>3, <2>3
    <2>5. Section(FromTrunk, Start, NoService)
            \o (IF \E i \in DOMAIN routes : OnlyCid(routes[i]) THEN << >>
                ELSE Section(FromTrunk, any, NoService)) \in Seq(M)
      BY <2>2, <2>4, Concat
    <2> QED BY <1>3, <2>5 DEF InboundFallback, any
  <1>7. ASSUME NEW a \in AccountRecord PROVE AccountEntry(a) \in Seq(M)
    <2> DEFINE exten == <<a.user>>
               lines == <<Line, Line, Render(a.dest)>>
    <2>1. a.user \in Text /\ a.dest \in Seq(STRING) BY StringsAreText DEF AccountRecord
    <2>2. exten \in Seq(Text) BY <2>1
    <2> HIDE DEF exten
    <2>3. Line \in Fitting(FromTrunk, exten) /\ Render(a.dest) \in Fitting(FromTrunk, exten)
      BY <2>1, PlainLines, FromTrunkIs, RenderFits
    <2>4. lines \in Seq(Fitting(FromTrunk, exten)) BY <2>3
    <2>5. AccountEntry(a) = Section(FromTrunk, exten, lines) BY DEF AccountEntry, exten
    <2> HIDE DEF lines
    <2> QED BY <2>2, <2>4, <2>5, FromTrunkIs, SectionIs DEF M
  <1>8. FlattenSeq(accounts) \in Seq(M)
    <2>1. accounts = [i \in DOMAIN c.accounts |-> accounts[i]] OBVIOUS
    <2>2. \A i \in DOMAIN c.accounts : accounts[i] \in Seq(M) BY <1>2, <1>7
    <2> HIDE DEF accounts
    <2> QED BY <1>2, <2>1, <2>2, EachIs
  <1>9. InboundSections(c) = IF routes = << >> THEN << >>
                             ELSE FlattenSeq(groups) \o InboundFallback(routes) \o FlattenSeq(accounts)
    BY DEF InboundSections, Each, routes
  <1> HIDE DEF groups, accounts
  <1>10. FlattenSeq(groups) \o InboundFallback(routes) \o FlattenSeq(accounts) \in Seq(M)
    BY <1>5, <1>6, <1>8, Concat
  <1>11. \A i \in DOMAIN routes : InboundGroup(routes, i) \in Seq(M) BY <1>2, <1>4
  <1>12. InboundSections(c) \in Seq(M) BY <1>3, <1>9, <1>10
  <1> QED BY <1>6, <1>7, <1>11, <1>12 DEF M, routes

-----------------------------------------------------------------------------
(* The sections of outbound routes.  The lines of a route are the gate, a  *)
(* line that bears the label go, and the trunks.                           *)

GoLabel(r) == <<"go", r.seq>>
IsTrunkLabel(r, label) == \E k \in Nat : label = <<"t", r.seq, k>>
IsStartLabel(label) == \E s \in Int : label = <<"start", s>>

\* Where the gate of a route leads: on only in its hours, and to the next route.
GateLine(r, l) ==
  /\ l.app # "Dial"
  /\ l.label = << >> \/ IsStartLabel(l.label)
  /\ l.app \in Leads =>
       \/ /\ l.to.label = GoLabel(r)
          /\ r.gate = "none" \/ (l.app = "GotoIf" /\ l.test = <<"TIME", "hours">>)
       \/ IsStartLabel(l.to.label)
       \/ l.to.ctx = Failover

\* What a route does behind its gate: it dials its trunks, among which it stays.
TrunkLine(r, l) ==
  /\ l.app = "Dial" => \E k \in DOMAIN r.trunks : l.who = {r.trunks[k].name}
  /\ l.label = << >> \/ IsTrunkLabel(r, l.label)
  /\ l.app \in Leads => l.to.ctx = Failover \/ IsTrunkLabel(r, l.to.label)

InChain(pattern, l) ==
  l.app \in Leads => l.to.ctx = Failover \/ (l.to.ctx = Outbound /\ l.to.exten = <<pattern>>)

GateLines(r) == {l \in LineRecord : /\ LineFits(Outbound, <<r.pattern>>, l)
                                    /\ InChain(r.pattern, l) /\ GateLine(r, l)}
TrunkPart(r) == {l \in LineRecord : /\ LineFits(Outbound, <<r.pattern>>, l)
                                    /\ InChain(r.pattern, l) /\ TrunkLine(r, l)}

LEMMA RouteIs ==
  ASSUME NEW r \in OutboundRecord
  PROVE  /\ r.seq \in Int /\ <<r.pattern>> \in Seq(Text) /\ r.pattern \in STRING
         /\ r.trunks \in Seq(TrunkRecord) /\ Len(r.trunks) \in Nat
         /\ DOMAIN r.trunks = 1 .. Len(r.trunks)
         /\ \A k \in 1 .. Len(r.trunks) : r.trunks[k].name \in Text
         /\ GoLabel(r) \in Label /\ <<"start", r.seq>> \in Label
         /\ \A k \in Nat : <<"t", r.seq, k>> \in Label
         /\ \A label \in Label : /\ OutLabel(r, label) \in Place
                                 /\ OutLabel(r, label).ctx = Outbound
                                 /\ OutLabel(r, label).exten = <<r.pattern>>
                                 /\ OutLabel(r, label).label = label
  <1>1. r.seq \in Int /\ r.pattern \in Text /\ r.pattern \in STRING /\ r.trunks \in Seq(TrunkRecord)
    BY StringsAreText DEF OutboundRecord
  <1> DEFINE exten == <<r.pattern>>
  <1>2. exten \in Seq(Text) BY <1>1
  <1>3. {"go", "start", "t"} \subseteq Text BY DEF Text
  <1>4. GoLabel(r) \in Label /\ <<"start", r.seq>> \in Label BY <1>1, <1>3 DEF GoLabel, Label
  <1>5. \A k \in Nat : <<"t", r.seq, k>> \in Label BY <1>1, <1>3 DEF Label
  <1>6. ASSUME NEW k \in 1 .. Len(r.trunks) PROVE r.trunks[k].name \in Text
    <2>1. r.trunks[k] \in TrunkRecord BY <1>1, ElementOfSeq
    <2> QED BY <2>1, StringsAreText DEF TrunkRecord
  <1> HIDE DEF exten
  <1>7. ASSUME NEW label \in Label
        PROVE  /\ OutLabel(r, label) \in Place /\ OutLabel(r, label).ctx = Outbound
               /\ OutLabel(r, label).exten = exten /\ OutLabel(r, label).label = label
    <2>1. OutLabel(r, label) = At(Outbound, exten, label) BY DEF OutLabel, exten
    <2> QED BY <1>2, <2>1, StringsAreText, AtIs
  <1> QED BY <1>1, <1>2, <1>4, <1>5, <1>6, <1>7, LenProperties DEF exten

LEMMA FailoverIs ==
  /\ AllFailed \in Place /\ AllFailed.ctx = Failover /\ AllFailed.label = First
  /\ At(Failover, <<"hangup">>, First) \in Place /\ At(Failover, <<"hangup">>, First).ctx = Failover
  /\ At(Failover, <<"hangup">>, First).label = First
  <1> DEFINE failover == <<"failover">>
             hangup == <<"hangup">>
  <1>1. "failover" \in Text /\ "hangup" \in Text BY DEF Text
  <1>2. failover \in Seq(Text) /\ hangup \in Seq(Text) BY <1>1
  <1> HIDE DEF failover, hangup
  <1>3. /\ At(Failover, failover, First) \in Place /\ At(Failover, failover, First).ctx = Failover
        /\ At(Failover, hangup, First) \in Place /\ At(Failover, hangup, First).ctx = Failover
        /\ At(Failover, failover, First).label = First /\ At(Failover, hangup, First).label = First
    BY <1>2, StringsAreText, AtIs
  <1> QED BY <1>3 DEF AllFailed, failover, hangup

\* In a chain the lines of a route fit whatever they do.
LEMMA OutboundFits ==
  ASSUME NEW exten, NEW l \in LineRecord, l.app = "Dial" => l.who # {},
         l.app \in Leads => l.to.ctx = Outbound \/ l.to.label = First
  PROVE  LineFits(Outbound, exten, l)
  BY DEF LineFits, Within, Outbound, Internal, Rings

LEMMA TimeGateIs ==
  ASSUME NEW r \in OutboundRecord, NEW next \in Place,
         \/ next.ctx = Failover /\ next.label = First
         \/ next.ctx = Outbound /\ next.exten = <<r.pattern>> /\ IsStartLabel(next.label)
  PROVE  LET gate == TimeGate(r.gate, OutLabel(r, GoLabel(r)), next) IN
         /\ gate \in Seq(GateLines(r)) /\ Len(gate) \in Nat \ {0}
         /\ gate[Len(gate)].app = "Goto"
  <1> DEFINE G == TimeGate(r.gate, OutLabel(r, GoLabel(r)), next)
             S == GateLines(r)
             go == OutLabel(r, GoLabel(r))
             day == "year for month"
             hours == <<"TIME", "hours">>
             never == <<"TIME", day>>
  <1>1. /\ go \in Place /\ go.ctx = Outbound /\ go.exten = <<r.pattern>> /\ go.label = GoLabel(r)
    BY RouteIs
  <1>2. "TIME" \in Text /\ day \in Text /\ "hours" \in Text BY DEF Text
  <1> HIDE DEF day, go
  <1>3. hours \in Seq(Text) /\ never \in Seq(Text) BY <1>2
  <1>4. ASSUME NEW l \in LineRecord, l.app \in Leads, l.label = << >>, l.to = next
        PROVE  l \in S
    <2>1. l.app # "Dial" BY <1>4 DEF Leads
    <2>2. GateLine(r, l) BY <1>4, <2>1 DEF GateLine
    <2>3. InChain(r.pattern, l)
      <3> DEFINE exten == <<r.pattern>>
      <3>1. next.ctx = Failover \/ (next.ctx = Outbound /\ next.exten = exten) OBVIOUS
      <3> HIDE DEF exten
      <3>2. l.to.ctx = Failover \/ (l.to.ctx = Outbound /\ l.to.exten = exten) BY <1>4, <3>1
      <3> QED BY <3>2 DEF InChain, exten
    <2>4. LineFits(Outbound, <<r.pattern>>, l) BY <1>4, <2>1, OutboundFits
    <2> QED BY <2>2, <2>3, <2>4 DEF GateLines
  <1>5. ASSUME NEW l \in LineRecord, l.app \in Leads, l.label = << >>, l.to = go,
               r.gate = "none" \/ (l.app = "GotoIf" /\ l.test = hours)
        PROVE  l \in S
    <2>1. l.app # "Dial" BY <1>5 DEF Leads
    <2>2. GateLine(r, l) BY <1>1, <1>5, <2>1 DEF GateLine
    <2>3. InChain(r.pattern, l) BY <1>1, <1>5 DEF InChain
    <2>4. LineFits(Outbound, <<r.pattern>>, l) BY <1>1, <1>5, <2>1, OutboundFits
    <2> QED BY <2>2, <2>3, <2>4 DEF GateLines
  <1> HIDE DEF S, hours, never
  <1>6. Goto(next) \in S /\ GotoIf(never, next) \in S
    BY <1>3, <1>4, GotoIs, GotoIfIs DEF Leads
  <1>7. GotoIf(hours, go) \in S /\ (r.gate = "none" => Goto(go) \in S)
    <2>1. {"Goto", "GotoIf"} \subseteq Leads BY DEF Leads
    <2>2. GotoIf(hours, go) \in S BY <1>1, <1>3, <1>5, <2>1, GotoIfIs
    <2>3. ASSUME r.gate = "none" PROVE Goto(go) \in S
      <3>1. Goto(go) \in LineRecord /\ Goto(go).app \in Leads /\ Goto(go).label = << >>
            /\ Goto(go).to = go
        BY <1>1, <2>1, GotoIs
      <3> QED BY <1>5, <2>3, <3>1
    <2> QED BY <2>2, <2>3
  <1>8. Goto(next).app = "Goto" /\ Goto(go).app = "Goto" BY <1>1, GotoIs
  <1>9. CASE r.gate = "none"
    <2> DEFINE gate == <<Goto(go)>>
    <2>1. gate \in Seq(S) /\ Len(gate) = 1 /\ gate[1] = Goto(go) BY <1>7, <1>9
    <2>2. G = gate BY <1>9 DEF TimeGate, go
    <2> HIDE DEF gate, G
    <2>3. G \in Seq(S) /\ Len(G) = 1 /\ G[1] = Goto(go) BY <2>1, <2>2
    <2>4. G \in Seq(S) /\ Len(G) \in Nat \ {0} /\ G[Len(G)].app = "Goto" BY <1>8, <2>3
    <2> QED BY <2>4 DEF S, G
  <1>10. CASE r.gate # "none"
    <2> DEFINE last == <<GotoIf(hours, go), Goto(next)>>
               skip == HolidaySkip(r.gate, next)
    <2>1. last \in Seq(S) /\ Len(last) = 2 /\ last[2] = Goto(next) BY <1>6, <1>7
    <2>2. skip \in Seq(S)
      <3> DEFINE one == <<GotoIf(never, next)>>
      <3>1. one \in Seq(S) BY <1>6
      <3>2. skip = IF r.gate = "leaves" THEN one ELSE << >>
        BY DEF HolidaySkip, never, day
      <3> HIDE DEF one, skip
      <3> QED BY <3>1, <3>2, EmptySeq
    <2>3. G = skip \o last BY <1>10 DEF TimeGate, hours, go
    <2> HIDE DEF last, skip, G
    <2>4. /\ skip \o last \in Seq(S) /\ Len(skip \o last) = Len(skip) + 2
          /\ \A i \in 1 .. Len(skip) + 2 :
               (skip \o last)[i] = IF i <= Len(skip) THEN skip[i] ELSE last[i - Len(skip)]
      <3>1. Len(last) = 2 BY <2>1
      <3>2. /\ skip \o last \in Seq(S) /\ Len(skip \o last) = Len(skip) + Len(last)
            /\ \A i \in 1 .. Len(skip) + Len(last) :
                 (skip \o last)[i] = IF i <= Len(skip) THEN skip[i] ELSE last[i - Len(skip)]
        BY <2>1, <2>2, ConcatProperties
      <3> QED BY <3>1, <3>2
    <2>5. Len(skip) \in Nat BY <2>2, LenProperties
    <2>6. /\ Len(skip) + 2 \in 1 .. Len(skip) + 2 /\ ~ Len(skip) + 2 <= Len(skip)
          /\ Len(skip) + 2 - Len(skip) = 2 /\ Len(skip) + 2 \in Nat \ {0}
      BY <2>5
    <2>7. (skip \o last)[Len(skip) + 2] = Goto(next) BY <2>1, <2>4, <2>6
    <2>8. G \in Seq(S) /\ Len(G) \in Nat \ {0} /\ G[Len(G)].app = "Goto"
      BY <1>8, <2>3, <2>4, <2>6, <2>7
    <2> QED BY <2>8 DEF S, G
  <1> QED BY <1>9, <1>10

LEMMA TrunkLinesAre ==
  ASSUME NEW r \in OutboundRecord, NEW k \in 1 .. Len(r.trunks)
  PROVE  TrunkLines(r, k) \in Seq(TrunkPart(r))
  <1> DEFINE S == TrunkPart(r)
             name == r.trunks[k].name
             label == <<"t", r.seq, k>>
             answered == <<"DIALSTATUS", "ANSWER">>
             over == At(Failover, <<"hangup">>, First)
             on == IF r.trunks[k].next THEN OutLabel(r, label) ELSE AllFailed
  <1>1. /\ k \in Nat /\ k \in DOMAIN r.trunks /\ name \in Text /\ label \in Label
        /\ OutLabel(r, label) \in Place /\ OutLabel(r, label).ctx = Outbound
        /\ OutLabel(r, label).exten = <<r.pattern>> /\ OutLabel(r, label).label = label
    <2>1. k \in Nat /\ k \in DOMAIN r.trunks /\ name \in Text
      <3>1. Len(r.trunks) \in Nat /\ DOMAIN r.trunks = 1 .. Len(r.trunks) BY RouteIs
      <3>2. name \in Text BY RouteIs, Zenon
      <3> QED BY <3>1, <3>2
    <2>2. label \in Label BY <2>1, RouteIs, Zenon
    <2> HIDE DEF label
    <2> QED BY <2>1, <2>2, RouteIs
  <1>2. IsTrunkLabel(r, label) BY <1>1 DEF IsTrunkLabel
  <1>3. answered \in Seq(Text)
    <2>1. {"DIALSTATUS", "ANSWER"} \subseteq Text BY DEF Text
    <2> QED BY <2>1
  <1>4. ASSUME NEW l \in LineRecord, l.app \notin Leads, l.label = << >> \/ l.label = label,
               l.app = "Dial" => l.who = {name}
        PROVE  l \in S
    <2>1. TrunkLine(r, l) BY <1>1, <1>2, <1>4 DEF TrunkLine
    <2>2. InChain(r.pattern, l) BY <1>4 DEF InChain
    <2>3. LineFits(Outbound, <<r.pattern>>, l) BY <1>4, OutboundFits
    <2> QED BY <2>1, <2>2, <2>3 DEF TrunkPart
  <1>5. ASSUME NEW l \in LineRecord, l.app \in Leads, l.label = << >>,
               (l.to.ctx = Failover /\ l.to.label = First) \/ l.to = OutLabel(r, label)
        PROVE  l \in S
    <2>1. l.app # "Dial" BY <1>5 DEF Leads
    <2>2. TrunkLine(r, l) BY <1>1, <1>2, <1>5, <2>1 DEF TrunkLine
    <2>3. InChain(r.pattern, l) BY <1>1, <1>5 DEF InChain
    <2>4. LineFits(Outbound, <<r.pattern>>, l) BY <1>1, <1>5, <2>1, OutboundFits
    <2> QED BY <2>2, <2>3, <2>4 DEF TrunkPart
  <1> HIDE DEF S, name, label, answered, over
  <1>6. Run("Dial", {name}) \in S
    <2>1. {name} \in SUBSET Text /\ "Dial" \in Apps /\ "Dial" \notin Leads
      BY <1>1 DEF Apps, Leads
    <2> QED BY <1>4, <2>1, RunIs
  <1>7. GotoIf(answered, over) \in S
    <2>1. over \in Place /\ over.ctx = Failover /\ over.label = First BY FailoverIs DEF over
    <2>2. "GotoIf" \in Leads BY DEF Leads
    <2> QED BY <1>3, <1>5, <2>1, <2>2, GotoIfIs
  <1>8. Goto(on) \in S /\ Goto(AllFailed) \in S
    <2>1. "Goto" \in Leads BY DEF Leads
    <2>2. Goto(AllFailed) \in S BY <1>5, <2>1, FailoverIs, GotoIs
    <2>3. Goto(OutLabel(r, label)) \in S BY <1>1, <1>5, <2>1, GotoIs
    <2> QED BY <2>2, <2>3
  <1>9. Labelled(label, Line) \in S
    <2>1. /\ Labelled(label, Line) \in LineRecord /\ Labelled(label, Line).label = label
          /\ Labelled(label, Line).app = "NoOp"
      BY <1>1, LineIs, LabelledIs
    <2> QED BY <1>4, <2>1 DEF Leads
  <1> HIDE DEF on
  <1> DEFINE dial == <<Run("Dial", {name}), GotoIf(answered, over)>>
             more == <<Goto(on), Labelled(label, Line)>>
             last == <<Goto(AllFailed)>>
  <1>10. dial \in Seq(S) /\ more \in Seq(S) /\ last \in Seq(S) BY <1>6, <1>7, <1>8, <1>9
  <1>11. TrunkLines(r, k) = dial \o (IF k < Len(r.trunks) THEN more ELSE last)
    BY DEF TrunkLines, name, label, answered, over, on
  <1> HIDE DEF dial, more, last
  <1>12. (IF k < Len(r.trunks) THEN more ELSE last) \in Seq(S) BY <1>10
  <1> QED BY <1>10, <1>11, <1>12, Concat DEF S

\* The lines of a route: g is the place of its label go.
IsRoute(r, lines, g) ==
  /\ lines \in Seq(LineRecord) /\ g \in 2 .. Len(lines)
  /\ \A j \in 1 .. g - 1 : lines[j] \in GateLines(r)
  /\ lines[g - 1].app = "Goto"
  /\ lines[g].label = GoLabel(r) /\ lines[g].app = "NoOp"
  /\ \A j \in g + 1 .. Len(lines) : lines[j] \in TrunkPart(r)

LEMMA Joined ==
  ASSUME NEW S, NEW P, NEW R, P \subseteq S, R \subseteq S, NEW m \in S,
         NEW p \in Seq(P), NEW q \in Seq(R), Len(p) # 0
  PROVE  LET lines == p \o <<m>> \o q
             g == Len(p) + 1 IN
         /\ lines \in Seq(S) /\ g \in 2 .. Len(lines)
         /\ \A j \in 1 .. g - 1 : lines[j] \in P /\ lines[j] = p[j]
         /\ lines[g] = m
         /\ \A j \in g + 1 .. Len(lines) : lines[j] \in R
  <1> DEFINE one == <<m>>
             first == p \o one
             lines == first \o q
             n == Len(p)
  <1>1. one \in Seq(S) /\ Len(one) = 1 /\ one[1] = m OBVIOUS
  <1>2. p \in Seq(S) /\ q \in Seq(S) BY SeqMonotonic
  <1>3. n \in Nat /\ n # 0 /\ Len(q) \in Nat BY LenProperties
  <1>4. (\A i \in 1 .. n : p[i] \in P) /\ (\A i \in 1 .. Len(q) : q[i] \in R) BY ElementOfSeq
  <1> HIDE DEF one
  <1>5. /\ first \in Seq(S) /\ Len(first) = n + 1
        /\ \A i \in 1 .. n + 1 : first[i] = IF i <= n THEN p[i] ELSE one[i - n]
    <2>1. /\ first \in Seq(S) /\ Len(first) = n + Len(one)
          /\ \A i \in 1 .. n + Len(one) : first[i] = IF i <= n THEN p[i] ELSE one[i - n]
      BY <1>1, <1>2, ConcatProperties
    <2> QED BY <1>1, <2>1
  <1> HIDE DEF first, n
  <1>6. /\ lines \in Seq(S) /\ Len(lines) = n + 1 + Len(q)
        /\ \A i \in 1 .. n + 1 + Len(q) :
             lines[i] = IF i <= n + 1 THEN first[i] ELSE q[i - (n + 1)]
    <2>1. /\ lines \in Seq(S) /\ Len(lines) = Len(first) + Len(q)
          /\ \A i \in 1 .. Len(first) + Len(q) :
               lines[i] = IF i <= Len(first) THEN first[i] ELSE q[i - Len(first)]
      BY <1>2, <1>5, ConcatProperties
    <2> QED BY <1>5, <2>1
  <1> HIDE DEF lines
  <1>7. n + 1 \in 2 .. Len(lines) /\ n + 1 - 1 = n BY <1>3, <1>6
  <1>8. ASSUME NEW j \in 1 .. n PROVE lines[j] \in P /\ lines[j] = p[j]
    <2>1. j \in 1 .. n + 1 + Len(q) /\ j <= n + 1 /\ j \in 1 .. n + 1 /\ j <= n BY <1>3
    <2> QED BY <1>4, <1>5, <1>6, <2>1
  <1>9. lines[n + 1] = m
    <2>1. /\ n + 1 \in 1 .. n + 1 + Len(q) /\ n + 1 <= n + 1 /\ n + 1 \in 1 .. n + 1
          /\ ~ n + 1 <= n /\ n + 1 - n = 1
      BY <1>3
    <2>2. first[n + 1] = one[1]
      <3>1. ASSUME NEW k \in Nat, k = n + 1 PROVE first[k] = one[1]
        <4>1. k \in 1 .. n + 1 /\ ~ k <= n /\ k - n = 1 BY <1>3, <3>1
        <4> QED BY <1>5, <4>1
      <3>2. n + 1 \in Nat BY <1>3
      <3> QED BY <3>1, <3>2
    <2>3. first[n + 1] = m BY <1>1, <2>2
    <2>4. lines[n + 1] = first[n + 1] BY <1>6, <2>1
    <2> QED BY <2>3, <2>4
  <1>10. ASSUME NEW j \in n + 1 + 1 .. Len(lines) PROVE lines[j] \in R
    <2>1. j \in 1 .. n + 1 + Len(q) /\ ~ j <= n + 1 /\ j - (n + 1) \in 1 .. Len(q) BY <1>3, <1>6
    <2> QED BY <1>4, <1>6, <2>1
  <1> QED BY <1>6, <1>7, <1>8, <1>9, <1>10 DEF lines, first, one, n

LEMMA RoutePartsFit ==
  ASSUME NEW r \in OutboundRecord
  PROVE  /\ GateLines(r) \subseteq Fitting(Outbound, <<r.pattern>>)
         /\ TrunkPart(r) \subseteq Fitting(Outbound, <<r.pattern>>)
         /\ Fitting(Outbound, <<r.pattern>>) \subseteq LineRecord
  BY DEF GateLines, TrunkPart, Fitting

LEMMA OutboundLinesAre ==
  ASSUME NEW chain \in Seq(OutboundRecord), NEW i \in 1 .. Len(chain),
         \A k \in 1 .. Len(chain) : chain[k].pattern = chain[i].pattern
  PROVE  /\ OutboundLines(chain, i) \in Seq(Fitting(Outbound, <<chain[i].pattern>>))
         /\ \E g : IsRoute(chain[i], OutboundLines(chain, i), g)
  <1> DEFINE r == chain[i]
             n == Len(chain)
             S == Fitting(Outbound, <<r.pattern>>)
             P == GateLines(r)
             R == TrunkPart(r)
             next == IF i < n THEN OutLabel(r, <<"start", chain[i + 1].seq>>) ELSE AllFailed
             go == Labelled(GoLabel(r), Line)
             gate == TimeGate(r.gate, OutLabel(r, GoLabel(r)), next)
             head == <<IF i = 1 THEN Line ELSE Labelled(<<"start", r.seq>>, Line)>>
             f == [k \in DOMAIN r.trunks |-> TrunkLines(r, k)]
             rest == FlattenSeq(f)
  <1>1. r \in OutboundRecord /\ n \in Nat BY ElementOfSeq, LenProperties
  <1>2. next \in Place /\ \/ next.ctx = Failover /\ next.label = First
                          \/ next.ctx = Outbound /\ next.exten = <<r.pattern>>
                               /\ IsStartLabel(next.label)
    <2>1. CASE i < n
      <3> DEFINE label == <<"start", chain[i + 1].seq>>
      <3>1. i + 1 \in 1 .. n BY <1>1, <2>1
      <3>2. chain[i + 1] \in OutboundRecord BY <3>1, ElementOfSeq
      <3>3. chain[i + 1].seq \in Int BY <3>2, RouteIs
      <3>4. label \in Label BY <3>2, RouteIs
      <3>5. IsStartLabel(label) BY <3>3 DEF IsStartLabel
      <3>6. next = OutLabel(r, label) BY <2>1
      <3> HIDE DEF label, next, r
      <3>7. next \in Place /\ next.ctx = Outbound /\ next.exten = <<r.pattern>> /\ next.label = label
        BY <1>1, <3>4, <3>6, RouteIs
      <3> QED BY <3>5, <3>7
    <2>2. CASE ~ i < n
      <3>1. next = AllFailed BY <2>2
      <3> HIDE DEF next
      <3> QED BY <3>1, FailoverIs
    <2> QED BY <2>1, <2>2
  <1> HIDE DEF next
  <1>3. gate \in Seq(P) /\ Len(gate) \in Nat \ {0} /\ gate[Len(gate)].app = "Goto"
    <2> HIDE DEF r
    <2> QED BY <1>1, <1>2, TimeGateIs
  <1> HIDE DEF gate
  <1>4. P \subseteq S /\ R \subseteq S /\ S \subseteq LineRecord
    <2> HIDE DEF r
    <2> QED BY <1>1, RoutePartsFit
  <1>5. go \in S /\ go.label = GoLabel(r) /\ go.app = "NoOp"
    <2> HIDE DEF r
    <2> QED BY <1>1, RouteIs, PlainLines, FitsLabelled, LineIs, LabelledIs
  <1>6. head \in Seq(P)
    <2> DEFINE label == <<"start", r.seq>>
    <2>1. label \in Label /\ r.seq \in Int
      <3> HIDE DEF r
      <3> QED BY <1>1, RouteIs
    <2>2. IsStartLabel(label) BY <2>1 DEF IsStartLabel
    <2> HIDE DEF label, r
    <2>3. ASSUME NEW l \in LineRecord, l.app = "NoOp", l.label = << >> \/ l.label = label
          PROVE  l \in P
      <3>1. l.app # "Dial" /\ l.app \notin Leads BY <2>3 DEF Leads
      <3>2. GateLine(r, l) BY <2>2, <2>3, <3>1 DEF GateLine
      <3>3. InChain(r.pattern, l) BY <3>1 DEF InChain
      <3>4. LineFits(Outbound, <<r.pattern>>, l) BY <3>1, OutboundFits
      <3> QED BY <3>2, <3>3, <3>4 DEF GateLines
    <2>4. Line \in P BY <2>3, LineIs
    <2>5. Labelled(label, Line) \in P
      <3>1. /\ Labelled(label, Line) \in LineRecord /\ Labelled(label, Line).app = "NoOp"
            /\ Labelled(label, Line).label = label
        BY <2>1, LineIs, LabelledIs
      <3> QED BY <2>3, <3>1
    <2> DEFINE first == IF i = 1 THEN Line ELSE Labelled(label, Line)
    <2>6. first \in P BY <2>4, <2>5
    <2> HIDE DEF first, P
    <2>7. <<first>> \in Seq(P) BY <2>6
    <2>8. head = <<first>> BY DEF first, label
    <2> QED BY <2>7, <2>8
  <1>7. rest \in Seq(R)
    <2>1. \A k \in 1 .. Len(r.trunks) : TrunkLines(r, k) \in Seq(R)
      <3> HIDE DEF r
      <3> QED BY <1>1, TrunkLinesAre
    <2>2. Len(r.trunks) \in Nat /\ DOMAIN r.trunks = 1 .. Len(r.trunks)
      <3> HIDE DEF r
      <3> QED BY <1>1, RouteIs
    <2>3. f = [k \in DOMAIN r.trunks |-> f[k]] OBVIOUS
    <2>4. \A k \in DOMAIN r.trunks : f[k] \in Seq(R) BY <2>1, <2>2
    <2> HIDE DEF f, R, r
    <2> QED BY <2>2, <2>3, <2>4, EachIs
  <1>8. OutboundLines(chain, i) = head \o gate \o <<go>> \o rest
    BY DEF OutboundLines, GoLabel, next, gate
  <1> HIDE DEF head, go, rest
  <1> DEFINE p == head \o gate
             lines == p \o <<go>> \o rest
             g == Len(p) + 1
  <1>9. p \in Seq(P) /\ Len(p) # 0 /\ p[Len(p)] = gate[Len(gate)] /\ Len(p) \in 1 .. Len(p)
    <2> HIDE DEF P
    <2>1. /\ p \in Seq(P) /\ Len(p) = Len(head) + Len(gate)
          /\ \A j \in 1 .. Len(head) + Len(gate) :
               p[j] = IF j <= Len(head) THEN head[j] ELSE gate[j - Len(head)]
      BY <1>3, <1>6, ConcatProperties
    <2>2. Len(head) \in Nat /\ Len(gate) \in Nat \ {0} BY <1>3, <1>6, LenProperties
    <2> HIDE DEF p
    <2>3. ASSUME NEW k \in Nat, k = Len(head) + Len(gate)
          PROVE  p[k] = gate[Len(gate)] /\ k # 0 /\ k \in 1 .. k
      <3>1. k \in 1 .. Len(head) + Len(gate) /\ ~ k <= Len(head) /\ k - Len(head) = Len(gate)
            /\ k # 0 /\ k \in 1 .. k
        BY <2>2, <2>3
      <3> QED BY <2>1, <3>1
    <2>4. Len(head) + Len(gate) \in Nat BY <2>2
    <2> QED BY <2>1, <2>3, <2>4
  <1> HIDE DEF p, S, P, R
  <1>10. /\ lines \in Seq(S) /\ g \in 2 .. Len(lines)
         /\ \A j \in 1 .. g - 1 : lines[j] \in P /\ lines[j] = p[j]
         /\ lines[g] = go
         /\ \A j \in g + 1 .. Len(lines) : lines[j] \in R
    BY <1>4, <1>5, <1>7, <1>9, Joined
  <1>11. lines[g - 1].app = "Goto"
    <2>1. Len(p) \in Nat BY <1>9, LenProperties
    <2>2. g - 1 = Len(p) BY <2>1
    <2>3. lines[Len(p)] = p[Len(p)] BY <1>9, <1>10, <2>2
    <2> HIDE DEF lines
    <2> QED BY <1>3, <1>9, <2>2, <2>3
  <1>12. lines = OutboundLines(chain, i) BY <1>8 DEF p
  <1> HIDE DEF lines, g
  <1>13. lines \in Seq(LineRecord) BY <1>4, <1>10, SeqMonotonic
  <1>14. IsRoute(r, lines, g) BY <1>5, <1>10, <1>11, <1>13 DEF IsRoute, P, R
  <1> QED BY <1>10, <1>12, <1>14 DEF S, r

LEMMA ChainIs ==
  ASSUME NEW c \in CompanyRecord, NEW pattern
  PROVE  LET chain == Chain(c.outbound, pattern) IN
         /\ chain \in Seq(OutboundRecord) /\ Len(chain) \in Nat /\ DOMAIN chain = 1 .. Len(chain)
         /\ \A k \in 1 .. Len(chain) : /\ chain[k] \in OutboundRecord
                                       /\ chain[k].pattern = pattern
                                       /\ chain[k] \in ToSet(c.outbound)
         /\ \E at : InOrder(chain, c.outbound, at)
  <1> DEFINE S == {r \in ToSet(c.outbound) : r.pattern = pattern}
             chain == Kept(c.outbound, S)
  <1>1. c.outbound \in Seq(OutboundRecord) BY DEF CompanyRecord
  <1>2. Chain(c.outbound, pattern) = chain BY DEF Chain
  <1>3. /\ chain \in Seq(OutboundRecord)
        /\ \A k \in 1 .. Len(chain) : chain[k] \in S \intersect OutboundRecord
        /\ \E at : InOrder(chain, c.outbound, at)
    <2> HIDE DEF S
    <2> QED BY <1>1, KeptIs
  <1>4. \A k \in 1 .. Len(chain) : /\ chain[k] \in OutboundRecord /\ chain[k].pattern = pattern
                                   /\ chain[k] \in ToSet(c.outbound)
    <2> HIDE DEF chain
    <2> QED BY <1>3
  <1> HIDE DEF chain
  <1> QED BY <1>2, <1>3, <1>4, LenProperties

LEMMA ChainLinesFit ==
  ASSUME NEW c \in CompanyRecord, NEW pattern
  PROVE  ChainLines(Chain(c.outbound, pattern)) \in Seq(Fitting(Outbound, <<pattern>>))
  <1> DEFINE chain == Chain(c.outbound, pattern)
             S == Fitting(Outbound, <<pattern>>)
             f == [k \in DOMAIN chain |-> OutboundLines(chain, k)]
  <1>1. /\ chain \in Seq(OutboundRecord) /\ Len(chain) \in Nat /\ DOMAIN chain = 1 .. Len(chain)
        /\ \A k \in 1 .. Len(chain) : chain[k].pattern = pattern
    BY ChainIs
  <1> HIDE DEF chain
  <1>2. ASSUME NEW k \in DOMAIN chain PROVE OutboundLines(chain, k) \in Seq(S)
    <2>1. OutboundLines(chain, k) \in Seq(Fitting(Outbound, <<chain[k].pattern>>))
      BY <1>1, OutboundLinesAre
    <2> QED BY <1>1, <2>1
  <1>3. f = [k \in DOMAIN chain |-> f[k]] OBVIOUS
  <1>4. \A k \in DOMAIN chain : f[k] \in Seq(S) BY <1>2
  <1>5. ChainLines(chain) = FlattenSeq(f) BY DEF ChainLines
  <1> HIDE DEF f, S
  <1>6. FlattenSeq(f) \in Seq(S) BY <1>1, <1>3, <1>4, EachIs
  <1> QED BY <1>5, <1>6 DEF S, chain

LEMMA OutboundSectionsAre ==
  ASSUME NEW c \in CompanyRecord
  PROVE  /\ OutboundSections(c) \in Seq(Made(c))
         /\ \A i \in DOMAIN c.outbound : OutboundChain(c.outbound, i) \in Seq(Made(c))
         /\ c.outbound # << >> =>
              Section(Failover, <<"failover">>, <<Line, OutboundFailover(c.outbound)>>)
                \in Seq(Made(c))
         /\ Section(Failover, <<"hangup">>, <<Hangup>>) \in Seq(Made(c))
  <1> DEFINE routes == c.outbound
             n == Len(routes)
             M == Made(c)
             chains == [i \in DOMAIN routes |-> OutboundChain(routes, i)]
             over == <<"failover">>
             hangup == <<"hangup">>
             all == <<Line, OutboundFailover(routes)>>
             none == <<Hangup>>
  <1>1. routes \in Seq(OutboundRecord) BY DEF CompanyRecord
  <1>2. n \in Nat /\ DOMAIN routes = 1 .. n /\ \A i \in 1 .. n : routes[i] \in OutboundRecord
    BY <1>1, LenProperties, ElementOfSeq
  <1> HIDE DEF M
  <1>3. << >> \in Seq(M) BY EmptySeq
  <1>4. ASSUME NEW i \in 1 .. n PROVE OutboundChain(routes, i) \in Seq(M)
    <2> DEFINE pattern == routes[i].pattern
               lines == ChainLines(Chain(routes, pattern))
               exten == <<pattern>>
    <2>1. OutboundChain(routes, i) = IF \E j \in 1 .. i - 1 : routes[j].pattern = pattern
                                     THEN << >> ELSE Section(Outbound, exten, lines)
      BY DEF OutboundChain, ChainLines
    <2>2. exten \in Seq(Text) BY <1>2, RouteIs
    <2>3. lines \in Seq(Fitting(Outbound, exten)) BY ChainLinesFit
    <2>4. i \in DOMAIN c.outbound BY <1>2
    <2>5. OutboundIsChain(c, [ctx |-> Outbound, exten |-> exten, lines |-> lines])
      BY <2>4 DEF OutboundIsChain
    <2> HIDE DEF exten, lines
    <2>6. Section(Outbound, exten, lines) \in Seq(M)
      BY <2>2, <2>3, <2>5, StringsAreText, SectionOf DEF M
    <2> QED BY <1>3, <2>1, <2>6
  <1>5. FlattenSeq(chains) \in Seq(M)
    <2>1. chains = [i \in DOMAIN routes |-> chains[i]] OBVIOUS
    <2>2. \A i \in DOMAIN routes : chains[i] \in Seq(M) BY <1>2, <1>4
    <2> HIDE DEF chains
    <2> QED BY <1>2, <2>1, <2>2, EachIs
  <1>6. Failover \in Seq(Text) /\ Failover # Outbound /\ ~ Within(Failover) /\ Failover # Internal
    BY StringsAreText DEF Failover, Outbound, Within, Internal
  <1>7. over \in Seq(Text) /\ hangup \in Seq(Text)
    <2>1. "failover" \in Text /\ "hangup" \in Text BY DEF Text
    <2> QED BY <2>1
  <1>8. ASSUME routes # << >> PROVE Section(Failover, over, all) \in Seq(M)
    <2> DEFINE last == Last(routes)
               S == Fitting(Failover, over)
    <2>1. n \in 1 .. n BY <1>1, <1>2, <1>8, EmptySeq
    <2>2. last \in OutboundRecord BY <1>2, <2>1 DEF Last
    <2>3. last.failover \in Seq(STRING) BY <2>2 DEF OutboundRecord
    <2>4. Line \in S /\ Run("Playback", {}) \in S BY PlainLines
    <2>5. Render(last.failover) \in S BY <1>6, <2>3, RenderFits
    <2> HIDE DEF S, over
    <2>6. OutboundFailover(routes) \in S BY <2>4, <2>5 DEF OutboundFailover
    <2>7. all \in Seq(S) BY <2>4, <2>6
    <2> HIDE DEF all
    <2> QED BY <1>6, <1>7, <2>7, SectionIs DEF M, S
  <1>9. Section(Failover, hangup, none) \in Seq(M)
    <2> DEFINE S == Fitting(Failover, hangup)
    <2>1. Hangup \in S BY PlainLines
    <2> HIDE DEF S, hangup
    <2>2. none \in Seq(S) BY <2>1
    <2> HIDE DEF none
    <2> QED BY <1>6, <1>7, <2>2, SectionIs DEF M, S
  <1>10. OutboundSections(c) = IF routes = << >> THEN << >>
           ELSE FlattenSeq(chains) \o Section(Failover, over, all) \o Section(Failover, hangup, none)
    BY DEF OutboundSections
  <1>12. \A i \in DOMAIN c.outbound : OutboundChain(c.outbound, i) \in Seq(M) BY <1>2, <1>4
  <1>13. c.outbound # << >> =>
           Section(Failover, <<"failover">>, <<Line, OutboundFailover(c.outbound)>>) \in Seq(M)
    BY <1>8, Zenon
  <1>14. Section(Failover, <<"hangup">>, <<Hangup>>) \in Seq(M) BY <1>9, Zenon
  <1> HIDE DEF chains, over, all, hangup, none, routes
  <1>11. ASSUME routes # << >>
         PROVE  FlattenSeq(chains) \o Section(Failover, over, all) \o Section(Failover, hangup, none)
                  \in Seq(M)
    BY <1>5, <1>8, <1>9, <1>11, Concat
  <1>15. OutboundSections(c) \in Seq(M) BY <1>3, <1>10, <1>11
  <1> QED BY <1>12, <1>13, <1>14, <1>15, Zenon DEF M

LEMMA OutboundEntryIs ==
  ASSUME NEW c \in CompanyRecord
  PROVE  OutboundEntry(c) \in Seq(Made(c))
  <1> DEFINE M == Made(c)
             zero == <<"_0.">>
             plus == <<"_+.">>
             swedish == <<"_46.">>
             out == At(Outbound, Dialled, First)
             e164 == At(Outbound, DialledE164, First)
             goes == <<Goto(out)>>
             converts == <<Line, Goto(e164)>>
  <1>1. zero \in Seq(Text) /\ plus \in Seq(Text) /\ swedish \in Seq(Text)
    <2>1. "_0." \in Text /\ "_+." \in Text /\ "_46." \in Text BY DEF Text
    <2> QED BY <2>1
  <1>2. /\ out \in Place /\ out.ctx = Outbound /\ out.label = First
        /\ e164 \in Place /\ e164.ctx = Outbound /\ e164.label = First
    <2> DEFINE d == "${EXTEN}"
               e == "+${EXTEN}"
    <2>1. d \in Text /\ e \in Text /\ Dialled = <<d>> /\ DialledE164 = <<e>>
      BY DEF Text, Dialled, DialledE164
    <2> HIDE DEF d, e
    <2>2. Dialled \in Seq(Text) /\ DialledE164 \in Seq(Text) BY <2>1
    <2> QED BY <2>2, StringsAreText, AtIs
  <1>3. {zero, plus, swedish} \subseteq WaysOut BY DEF WaysOut
  <1>4. Internal # Outbound /\ ~ Within(Internal) BY DEF Internal, Outbound, Within
  <1> HIDE DEF zero, plus, swedish, out, e164, M
  <1>5. ASSUME NEW exten \in WaysOut
        PROVE  Goto(out) \in Fitting(Internal, exten) /\ Goto(e164) \in Fitting(Internal, exten)
    <2>1. MayLead(Internal, exten, out) /\ MayLead(Internal, exten, e164)
      BY <1>2, <1>4, <1>5 DEF MayLead
    <2> QED BY <1>2, <2>1, LeadFits
  <1>6. ASSUME NEW exten \in WaysOut
        PROVE  goes \in Seq(Fitting(Internal, exten)) /\ converts \in Seq(Fitting(Internal, exten))
    <2> DEFINE S == Fitting(Internal, exten)
    <2>1. Goto(out) \in S /\ Goto(e164) \in S /\ Line \in S BY <1>5, PlainLines
    <2> HIDE DEF S
    <2>2. goes \in Seq(S) /\ converts \in Seq(S) BY <2>1
    <2> QED BY <2>2 DEF S
  <1> HIDE DEF goes, converts
  <1>7. /\ Section(Internal, zero, goes) \in Seq(M) /\ Section(Internal, plus, goes) \in Seq(M)
        /\ Section(Internal, swedish, converts) \in Seq(M)
    BY <1>1, <1>3, <1>4, <1>6, StringsAreText, SectionIs DEF M
  <1>8. OutboundEntry(c) = IF c.outbound = << >> THEN << >>
          ELSE Section(Internal, zero, goes) \o Section(Internal, plus, goes)
                 \o Section(Internal, swedish, converts)
    BY DEF OutboundEntry, zero, plus, swedish, out, e164, goes, converts
  <1>9. << >> \in Seq(M) BY EmptySeq
  <1>10. Section(Internal, zero, goes) \o Section(Internal, plus, goes)
           \o Section(Internal, swedish, converts) \in Seq(M)
    BY <1>7, Concat
  <1> QED BY <1>8, <1>9, <1>10 DEF M

-----------------------------------------------------------------------------
(* The dialplan of a company.                                              *)

LEMMA ConcatKeeps ==
  ASSUME NEW S, NEW p \in Seq(S), NEW q \in Seq(S)
  PROVE  ToSet(p) \subseteq ToSet(p \o q) /\ ToSet(q) \subseteq ToSet(p \o q)
  <1>1. /\ DOMAIN p = 1 .. Len(p) /\ DOMAIN q = 1 .. Len(q)
        /\ DOMAIN (p \o q) = 1 .. Len(p \o q)
    BY ConcatProperties, LenProperties
  <1>2. \A x \in ToSet(p) : x \in ToSet(p \o q)
    <2> SUFFICES ASSUME NEW i \in 1 .. Len(p) PROVE p[i] \in ToSet(p \o q) BY <1>1 DEF ToSet
    <2>1. PICK k \in 1 .. Len(p \o q) : (p \o q)[k] = p[i] BY ConcatHas
    <2>2. k \in DOMAIN (p \o q) BY <1>1
    <2> QED BY <2>1, <2>2, Zenon DEF ToSet
  <1>3. \A x \in ToSet(q) : x \in ToSet(p \o q)
    <2> SUFFICES ASSUME NEW i \in 1 .. Len(q) PROVE q[i] \in ToSet(p \o q) BY <1>1 DEF ToSet
    <2>1. PICK k \in 1 .. Len(p \o q) : (p \o q)[k] = q[i] BY ConcatHas
    <2>2. k \in DOMAIN (p \o q) BY <1>1
    <2> QED BY <2>1, <2>2, Zenon DEF ToSet
  <1> QED BY <1>2, <1>3

\* The sections of each kind, in the order in which they are generated.
PartsAre(c, S) ==
  /\ FlattenSeq([i \in DOMAIN c.exts |-> InternalEntry(c.exts[i])]) \in S
  /\ FlattenSeq([i \in DOMAIN c.queues |-> QueueEntry(c.queues[i])]) \in S
  /\ OperatorEntry(c) \in S /\ OutboundEntry(c) \in S
  /\ Section(Internal, <<"_X.">>, NoService) \in S
  /\ FlattenSeq([i \in DOMAIN c.exts |-> ExtSections(c.exts[i])]) \in S
  /\ InboundSections(c) \in S /\ OutboundSections(c) \in S
  /\ FlattenSeq([i \in DOMAIN c.queues |-> QueueSections(c.queues[i])]) \in S
  /\ FlattenSeq([i \in DOMAIN c.times |-> TimeSections(c.times[i])]) \in S

LEMMA PartsAreMade ==
  ASSUME NEW c \in CompanyRecord
  PROVE  PartsAre(c, Seq(Made(c)))
  <1> DEFINE M == Made(c)
             entries == [i \in DOMAIN c.exts |-> InternalEntry(c.exts[i])]
             numbers == [i \in DOMAIN c.queues |-> QueueEntry(c.queues[i])]
             groups == [i \in DOMAIN c.exts |-> ExtSections(c.exts[i])]
             queues == [i \in DOMAIN c.queues |-> QueueSections(c.queues[i])]
             times == [i \in DOMAIN c.times |-> TimeSections(c.times[i])]
             rest == Section(Internal, <<"_X.">>, NoService)
  <1>1. c.exts \in Seq(ExtRecord) /\ c.queues \in Seq(QueueRecord) /\ c.times \in Seq(TimeRecord)
    BY DEF CompanyRecord
  <1>2. /\ Len(c.exts) \in Nat /\ DOMAIN c.exts = 1 .. Len(c.exts)
        /\ Len(c.queues) \in Nat /\ DOMAIN c.queues = 1 .. Len(c.queues)
        /\ Len(c.times) \in Nat /\ DOMAIN c.times = 1 .. Len(c.times)
    BY <1>1, LenProperties
  <1>3. /\ \A i \in DOMAIN c.exts : c.exts[i] \in ExtRecord
        /\ \A i \in DOMAIN c.queues : c.queues[i] \in QueueRecord /\ c.queues[i] \in ToSet(c.queues)
        /\ \A i \in DOMAIN c.times : c.times[i] \in TimeRecord
    BY <1>1, <1>2, ElementOfSeq DEF ToSet
  <1> HIDE DEF M
  <1>4. FlattenSeq(entries) \in Seq(M) /\ FlattenSeq(groups) \in Seq(M)
    <2>1. /\ entries = [i \in DOMAIN c.exts |-> entries[i]]
          /\ groups = [i \in DOMAIN c.exts |-> groups[i]]
      OBVIOUS
    <2>2. \A i \in DOMAIN c.exts : entries[i] \in Seq(M) /\ groups[i] \in Seq(M)
      BY <1>3, ExtSectionsAre DEF M
    <2> HIDE DEF entries, groups
    <2> QED BY <1>2, <2>1, <2>2, EachIs
  <1>5. FlattenSeq(numbers) \in Seq(M) /\ FlattenSeq(queues) \in Seq(M)
    <2>1. /\ numbers = [i \in DOMAIN c.queues |-> numbers[i]]
          /\ queues = [i \in DOMAIN c.queues |-> queues[i]]
      OBVIOUS
    <2>2. \A i \in DOMAIN c.queues : numbers[i] \in Seq(M) /\ queues[i] \in Seq(M)
      BY <1>3, QueueSectionsAre DEF M
    <2> HIDE DEF numbers, queues
    <2> QED BY <1>2, <2>1, <2>2, EachIs
  <1>6. FlattenSeq(times) \in Seq(M)
    <2>1. times = [i \in DOMAIN c.times |-> times[i]] OBVIOUS
    <2>2. \A i \in DOMAIN c.times : times[i] \in Seq(M) BY <1>3, TimeSectionsAre DEF M
    <2> HIDE DEF times
    <2> QED BY <1>2, <2>1, <2>2, EachIs
  <1>7. rest \in Seq(M)
    <2> DEFINE any == <<"_X.">>
    <2>1. "_X." \in Text BY DEF Text
    <2>2. any \in Seq(Text) BY <2>1
    <2>3. Internal # Outbound BY DEF Internal, Outbound
    <2> HIDE DEF any
    <2>4. Section(Internal, any, NoService) \in Seq(M)
      BY <2>2, <2>3, NoServiceFits, StringsAreText, SectionIs DEF M
    <2> QED BY <2>4 DEF any
  <1>8. /\ OperatorEntry(c) \in Seq(M) /\ OutboundEntry(c) \in Seq(M)
        /\ InboundSections(c) \in Seq(M) /\ OutboundSections(c) \in Seq(M)
    BY OperatorEntryIs, OutboundEntryIs, InboundSectionsAre, OutboundSectionsAre DEF M
  <1> QED BY <1>4, <1>5, <1>6, <1>7, <1>8 DEF PartsAre, M

\* What the first sections of a company make stays in its dialplan.
LEMMA SectionsAre ==
  ASSUME NEW c \in CompanyRecord
  PROVE  LET first == FlattenSeq([i \in DOMAIN c.exts |-> InternalEntry(c.exts[i])])
                        \o FlattenSeq([i \in DOMAIN c.queues |-> QueueEntry(c.queues[i])]) IN
         /\ first \in Seq(Made(c)) /\ Sections(c) \in Seq(Made(c))
         /\ ToSet(first) \subseteq ToSet(Sections(c))
  <1> DEFINE M == Made(c)
             entries == [i \in DOMAIN c.exts |-> InternalEntry(c.exts[i])]
             numbers == [i \in DOMAIN c.queues |-> QueueEntry(c.queues[i])]
             groups == [i \in DOMAIN c.exts |-> ExtSections(c.exts[i])]
             queues == [i \in DOMAIN c.queues |-> QueueSections(c.queues[i])]
             times == [i \in DOMAIN c.times |-> TimeSections(c.times[i])]
             rest == Section(Internal, <<"_X.">>, NoService)
             first == FlattenSeq(entries) \o FlattenSeq(numbers)
             p == first \o OperatorEntry(c) \o OutboundEntry(c) \o rest
             q == p \o FlattenSeq(groups) \o InboundSections(c) \o OutboundSections(c)
             all == q \o FlattenSeq(queues) \o FlattenSeq(times)
  <1>1. PartsAre(c, Seq(M)) BY PartsAreMade DEF M
  <1>2. /\ FlattenSeq(entries) \in Seq(M) /\ FlattenSeq(numbers) \in Seq(M)
        /\ OperatorEntry(c) \in Seq(M) /\ OutboundEntry(c) \in Seq(M) /\ rest \in Seq(M)
        /\ FlattenSeq(groups) \in Seq(M) /\ InboundSections(c) \in Seq(M)
        /\ OutboundSections(c) \in Seq(M) /\ FlattenSeq(queues) \in Seq(M)
        /\ FlattenSeq(times) \in Seq(M)
    BY <1>1 DEF PartsAre
  <1>3. Sections(c) = all BY DEF Sections, Each
  <1> HIDE DEF M, entries, numbers, groups, queues, times, rest
  <1>4. first \in Seq(M) BY <1>2, Concat
  <1>5. p \in Seq(M) /\ ToSet(first) \subseteq ToSet(p)
    <2> HIDE DEF first
    <2> QED BY <1>2, <1>4, Concat, ConcatKeeps
  <1>6. q \in Seq(M) /\ ToSet(p) \subseteq ToSet(q)
    <2> HIDE DEF p
    <2> QED BY <1>2, <1>5, Concat, ConcatKeeps
  <1>7. all \in Seq(M) /\ ToSet(q) \subseteq ToSet(all)
    <2> HIDE DEF q
    <2> QED BY <1>2, <1>6, Concat, ConcatKeeps
  <1>8. ToSet(first) \subseteq ToSet(all)
    <2> HIDE DEF first, p, q, all
    <2> QED BY <1>5, <1>6, <1>7
  <1> HIDE DEF all
  <1> QED BY <1>3, <1>4, <1>7, <1>8 DEF M, entries, numbers, first

\* The first section of a key.
IsFirst(secs, i, key) ==
  /\ <<secs[i].ctx, secs[i].exten>> = key
  /\ \A j \in 1 .. i - 1 : <<secs[j].ctx, secs[j].exten>> # key

\* The lines of a key are those of its sections, at the same places, all of
\* its first section, and as many as the longest of them has.
Merged(lines, secs, n, key) ==
  /\ lines \in Seq(LineRecord)
  /\ \A k \in 1 .. Len(lines) : \E i \in 1 .. n :
       <<secs[i].ctx, secs[i].exten>> = key /\ k \in 1 .. Len(secs[i].lines)
         /\ lines[k] = secs[i].lines[k]
  /\ \A i \in 1 .. n : <<secs[i].ctx, secs[i].exten>> = key => Len(secs[i].lines) <= Len(lines)
  /\ \A i \in 1 .. n : IsFirst(secs, i, key) =>
       \A k \in 1 .. Len(secs[i].lines) : lines[k] = secs[i].lines[k]

LEMMA MergedMore ==
  ASSUME NEW n \in Nat, NEW secs, NEW key, NEW p, Merged(p, secs, n, key),
         \A i \in 1 .. n : Len(secs[i].lines) \in Nat,
         NEW s, s = secs[n + 1], s.lines \in Seq(LineRecord), <<s.ctx, s.exten>> = key
  PROVE  Merged(p \o SubSeq(s.lines, Len(p) + 1, Len(s.lines)), secs, n + 1, key)
  <1> DEFINE l == s.lines
             a == Len(p)
             b == Len(l)
             q == SubSeq(l, a + 1, b)
             r == p \o q
  <1>1. p \in Seq(LineRecord) /\ l \in Seq(LineRecord) /\ a \in Nat /\ b \in Nat
    BY LenProperties DEF Merged
  <1>2. /\ \A k \in 1 .. a : \E i \in 1 .. n : <<secs[i].ctx, secs[i].exten>> = key
             /\ k \in 1 .. Len(secs[i].lines) /\ p[k] = secs[i].lines[k]
        /\ \A i \in 1 .. n : <<secs[i].ctx, secs[i].exten>> = key => Len(secs[i].lines) <= a
        /\ \A i \in 1 .. n : IsFirst(secs, i, key) =>
             \A k \in 1 .. Len(secs[i].lines) : p[k] = secs[i].lines[k]
    BY DEF Merged
  <1>7. IsFirst(secs, n + 1, key) => a = 0
    <2> SUFFICES ASSUME IsFirst(secs, n + 1, key), a # 0 PROVE FALSE BY <1>1
    <2>1. a \in 1 .. a BY <1>1
    <2>2. PICK i \in 1 .. n : <<secs[i].ctx, secs[i].exten>> = key BY <1>2, <2>1
    <2>3. \A j \in 1 .. n : <<secs[j].ctx, secs[j].exten>> # key
      <3>1. 1 .. n = 1 .. n + 1 - 1 OBVIOUS
      <3> QED BY <3>1 DEF IsFirst
    <2> QED BY <2>2, <2>3
  <1>3. \A i \in 1 .. n + 1 : i \in 1 .. n \/ i = n + 1 OBVIOUS
  <1>4. n + 1 \in 1 .. n + 1 /\ \A i \in 1 .. n : i \in 1 .. n + 1 OBVIOUS
  <1>5. CASE b <= a
    <2>1. q = << >>
      <3>1. a + 1 > b BY <1>1, <1>5
      <3> HIDE DEF l, a, b
      <3> QED BY <1>1, <3>1, SubSeqProperties, EmptySeq
    <2>2. r = p
      <3> HIDE DEF q
      <3> QED BY <1>1, <2>1, ConcatEmptySeq
    <2> HIDE DEF r
    <2>3. ASSUME NEW i \in 1 .. n + 1, <<secs[i].ctx, secs[i].exten>> = key
          PROVE  Len(secs[i].lines) <= a
      BY <1>2, <1>3, <1>5, <2>3
    <2>5. ASSUME NEW i \in 1 .. n + 1, IsFirst(secs, i, key), NEW k \in 1 .. Len(secs[i].lines)
          PROVE  p[k] = secs[i].lines[k]
      <3>1. CASE i \in 1 .. n BY <1>2, <2>5, <3>1
      <3>2. CASE i = n + 1
        <4>1. b = 0 BY <1>1, <1>5, <1>7, <2>5, <3>2
        <4>2. k \in 1 .. b BY <2>5, <3>2
        <4> QED BY <4>1, <4>2
      <3> QED BY <1>3, <3>1, <3>2
    <2>4. Merged(r, secs, n + 1, key) BY <1>1, <1>2, <1>4, <2>2, <2>3, <2>5 DEF Merged
    <2> QED BY <2>4 DEF r, q, l, a, b
  <1>6. CASE ~ b <= a
    <2>1. a + 1 \in 1 .. b /\ b \in 1 .. b /\ a + 1 <= b BY <1>1, <1>6
    <2>2. q \in Seq(LineRecord) /\ Len(q) = b - a /\ \A k \in 1 .. b - a : q[k] = l[a + k]
      <3> HIDE DEF l, a, b
      <3>1. /\ q \in Seq(LineRecord) /\ Len(q) = b - (a + 1) + 1
            /\ \A k \in 1 .. b - (a + 1) + 1 : q[k] = l[a + 1 + k - 1]
        <4>1. l \in Seq(LineRecord) /\ a + 1 \in Int /\ b \in Int /\ a + 1 <= b BY <1>1, <2>1
        <4>2. \A i \in a + 1 .. b : l[i] \in LineRecord
          <5>1. \A i \in a + 1 .. b : i \in 1 .. b BY <1>1
          <5> QED BY <1>1, <5>1, ElementOfSeq DEF b
        <4> QED BY <4>1, <4>2, SubSeqProperties
      <3>2. b - (a + 1) + 1 = b - a /\ \A k \in 1 .. b - a : a + 1 + k - 1 = a + k BY <1>1
      <3> QED BY <3>1, <3>2
    <2> HIDE DEF q
    <2>3. r \in Seq(LineRecord) /\ Len(r) = b
          /\ \A k \in 1 .. b : r[k] = IF k <= a THEN p[k] ELSE q[k - a]
      <3>1. /\ r \in Seq(LineRecord) /\ Len(r) = a + Len(q)
            /\ \A k \in 1 .. a + Len(q) : r[k] = IF k <= a THEN p[k] ELSE q[k - a]
        BY <1>1, <2>2, ConcatProperties
      <3>2. a + Len(q) = b BY <1>1, <2>2
      <3> QED BY <3>1, <3>2
    <2> HIDE DEF r, a, b
    <2>4. ASSUME NEW k \in 1 .. b
          PROVE  \E i \in 1 .. n + 1 : <<secs[i].ctx, secs[i].exten>> = key
                   /\ k \in 1 .. Len(secs[i].lines) /\ r[k] = secs[i].lines[k]
      <3>1. CASE k <= a
        <4>1. k \in 1 .. a /\ r[k] = p[k] BY <1>1, <2>3, <3>1
        <4> QED BY <1>2, <1>4, <4>1
      <3>2. CASE ~ k <= a
        <4>1. k - a \in 1 .. b - a /\ a + (k - a) = k BY <1>1, <3>2
        <4>2. r[k] = l[k] BY <2>2, <2>3, <3>2, <4>1
        <4> QED BY <1>4, <4>2 DEF b
      <3> QED BY <3>1, <3>2
    <2>5. ASSUME NEW i \in 1 .. n + 1, <<secs[i].ctx, secs[i].exten>> = key
          PROVE  Len(secs[i].lines) <= b
      <3>1. CASE i \in 1 .. n
        <4>1. Len(secs[i].lines) <= a BY <1>2, <2>5, <3>1
        <4> QED BY <1>1, <1>6, <4>1
      <3>2. CASE i = n + 1 BY <1>1, <3>2 DEF b
      <3> QED BY <1>3, <3>1, <3>2
    <2>7. ASSUME NEW i \in 1 .. n + 1, IsFirst(secs, i, key), NEW k \in 1 .. Len(secs[i].lines)
          PROVE  r[k] = secs[i].lines[k]
      <3>1. CASE i \in 1 .. n
        <4>1. <<secs[i].ctx, secs[i].exten>> = key BY <2>7 DEF IsFirst
        <4>2. Len(secs[i].lines) <= a /\ p[k] = secs[i].lines[k] BY <1>2, <2>7, <3>1, <4>1
        <4>3. k <= a /\ k \in 1 .. b
          <5> DEFINE m == Len(secs[i].lines)
          <5>1. k \in 1 .. m /\ m <= a /\ m \in Nat BY <2>7, <3>1, <4>2
          <5> HIDE DEF m
          <5> QED BY <1>1, <1>6, <5>1
        <4> QED BY <2>3, <4>2, <4>3
      <3>2. CASE i = n + 1
        <4>1. a = 0 /\ k \in 1 .. b BY <1>7, <2>7, <3>2 DEF b
        <4>2. k - a \in 1 .. b - a /\ a + (k - a) = k /\ ~ k <= a BY <1>1, <4>1
        <4>3. r[k] = l[k] BY <2>2, <2>3, <4>1, <4>2
        <4> QED BY <3>2, <4>3
      <3> QED BY <1>3, <3>1, <3>2
    <2>6. Merged(r, secs, n + 1, key) BY <2>3, <2>4, <2>5, <2>7 DEF Merged
    <2> QED BY <2>6 DEF r, q, l, a, b
  <1> QED BY <1>5, <1>6

LEMMA LoadedIs ==
  ASSUME NEW secs \in Seq(SectionRecord), NEW key \in DOMAIN Loaded(secs)
  PROVE  /\ Merged(Loaded(secs)[key], secs, Len(secs), key)
         /\ \E i \in 1 .. Len(secs) : <<secs[i].ctx, secs[i].exten>> = key
  <1> DEFINE n == Len(secs)
             K(i) == <<secs[i].ctx, secs[i].exten>>
             T == Seq(LineRecord)
             lines == CHOOSE f : f = [i \in 0 .. n |->
                        IF i = 0 THEN << >>
                        ELSE IF K(i) # key THEN f[i - 1]
                        ELSE f[i - 1] \o SubSeq(secs[i].lines, Len(f[i - 1]) + 1,
                                                Len(secs[i].lines))]
             F == [p \in (1 .. n) \X T |->
                     IF K(p[1]) # key THEN p[2]
                     ELSE p[2] \o SubSeq(secs[p[1]].lines, Len(p[2]) + 1, Len(secs[p[1]].lines))]
  <1>1. n \in Nat /\ \A i \in 1 .. n : secs[i] \in SectionRecord /\ secs[i].lines \in T
    <2>1. n \in Nat /\ \A i \in 1 .. n : secs[i] \in SectionRecord BY LenProperties, ElementOfSeq
    <2> QED BY <2>1 DEF SectionRecord
  <1>2. key \in {<<s.ctx, s.exten>> : s \in ToSet(secs)} BY DEF Loaded
  <1>3. Loaded(secs)[key] = lines[n] BY <1>2 DEF Loaded
  <1>4. \E i \in 1 .. n : K(i) = key BY <1>1, <1>2 DEF ToSet
  <1> HIDE DEF n, K
  <1>5. F \in [(1 .. n) \X T -> T] /\ << >> \in T
    <2>1. ASSUME NEW q \in T, NEW i \in 1 .. n
          PROVE  q \o SubSeq(secs[i].lines, Len(q) + 1, Len(secs[i].lines)) \in T
      <3> DEFINE l == secs[i].lines
                 a == Len(q) + 1
                 b == Len(l)
      <3>1. l \in T BY <1>1
      <3> HIDE DEF l
      <3>2. a \in Int /\ b \in Int /\ 1 <= a BY <3>1, LenProperties
      <3>3. \A k \in a .. b : k \in 1 .. b BY <3>2
      <3>4. \A k \in a .. b : l[k] \in LineRecord BY <3>1, <3>3, ElementOfSeq
      <3> HIDE DEF a, b
      <3>5. SubSeq(l, a, b) \in T BY <3>2, <3>4, SubSeqProperties
      <3>6. q \o SubSeq(l, a, b) \in T BY <3>5, Concat
      <3> QED BY <3>6 DEF l, a, b
    <2> QED BY <2>1
  <1>6. \A i \in 1 .. n, q \in T :
          F[<<i, q>>] = IF K(i) # key THEN q
                        ELSE q \o SubSeq(secs[i].lines, Len(q) + 1, Len(secs[i].lines))
    OBVIOUS
  <1> HIDE DEF F, T
  <1>7. PICK g \in [0 .. n -> T] : Steps(g, << >>, F, n) BY <1>1, <1>5, RecursionOn
  <1>8. g = [i \in 0 .. n |->
               IF i = 0 THEN << >>
               ELSE IF K(i) # key THEN g[i - 1]
               ELSE g[i - 1] \o SubSeq(secs[i].lines, Len(g[i - 1]) + 1, Len(secs[i].lines))]
    <2>1. ASSUME NEW i \in 0 .. n
          PROVE  g[i] = IF i = 0 THEN << >>
                        ELSE IF K(i) # key THEN g[i - 1]
                        ELSE g[i - 1] \o SubSeq(secs[i].lines, Len(g[i - 1]) + 1,
                                                Len(secs[i].lines))
      <3>1. CASE i = 0 BY <1>7, <3>1 DEF Steps
      <3>2. CASE i # 0
        <4>1. i \in 1 .. n /\ i - 1 \in 0 .. n BY <1>1, <3>2
        <4>2. g[i - 1] \in T BY <1>7, <4>1
        <4>3. g[i] = F[<<i, g[i - 1]>>] BY <1>7, <3>2 DEF Steps
        <4>4. F[<<i, g[i - 1]>>] =
                IF K(i) # key THEN g[i - 1]
                ELSE g[i - 1] \o SubSeq(secs[i].lines, Len(g[i - 1]) + 1, Len(secs[i].lines))
          BY <1>6, <4>1, <4>2
        <4> QED BY <3>2, <4>3, <4>4
      <3> QED BY <3>1, <3>2
    <2>2. g = [i \in 0 .. n |-> g[i]] BY <1>7
    <2> QED BY <2>1, <2>2, Zenon
  <1>9. lines = [i \in 0 .. n |->
               IF i = 0 THEN << >>
               ELSE IF K(i) # key THEN lines[i - 1]
               ELSE lines[i - 1] \o SubSeq(secs[i].lines, Len(lines[i - 1]) + 1,
                                           Len(secs[i].lines))]
    BY <1>8, Zenon
  <1> HIDE DEF lines
  <1> DEFINE Good == {i \in 0 .. n : Merged(lines[i], secs, i, key)}
  <1>10. 0 \in Good
    <2>1. 0 \in 0 .. n BY <1>1
    <2>2. lines[0] = << >> BY <1>9, <2>1
    <2>3. Len(<< >>) = 0 /\ 1 .. 0 = {} OBVIOUS
    <2>4. Merged(<< >>, secs, 0, key) BY <1>5, <2>3 DEF Merged, T
    <2> QED BY <2>1, <2>2, <2>4
  <1>11. ASSUME NEW i \in 1 .. n, i - 1 \in Good PROVE i \in Good
    <2>1. i \in 0 .. n /\ i # 0 /\ i - 1 \in Nat /\ i - 1 + 1 = i BY <1>1
    <2>2. Merged(lines[i - 1], secs, i - 1, key) BY <1>11
    <2>3. lines[i] = IF K(i) # key THEN lines[i - 1]
                     ELSE lines[i - 1] \o SubSeq(secs[i].lines, Len(lines[i - 1]) + 1,
                                                 Len(secs[i].lines))
      BY <1>9, <2>1
    <2> HIDE DEF Good
    <2>4. CASE K(i) # key
      <3>1. \A j \in 1 .. i : j \in 1 .. i - 1 \/ j = i BY <2>1
      <3>2. \A j \in 1 .. i - 1 : j \in 1 .. i BY <2>1
      <3>3. lines[i] = lines[i - 1] BY <2>3, <2>4
      <3>5. ~ IsFirst(secs, i, key) BY <2>4 DEF IsFirst, K
      <3>4. Merged(lines[i], secs, i, key) BY <2>2, <2>4, <3>1, <3>2, <3>3, <3>5 DEF Merged, K
      <3> QED BY <2>1, <3>4 DEF Good
    <2>5. CASE K(i) = key
      <3> DEFINE s == secs[i]
                 p == lines[i - 1]
      <3>1. s = secs[i - 1 + 1] /\ s.lines \in Seq(LineRecord) /\ <<s.ctx, s.exten>> = key
        BY <1>1, <2>1, <2>5 DEF K, T
      <3>2. lines[i] = p \o SubSeq(s.lines, Len(p) + 1, Len(s.lines)) BY <2>3, <2>5
      <3>3. Merged(p, secs, i - 1, key) BY <2>2
      <3>6. \A j \in 1 .. i - 1 : Len(secs[j].lines) \in Nat
        <4>1. \A j \in 1 .. i - 1 : j \in 1 .. n BY <1>1
        <4> QED BY <1>1, <4>1, LenProperties DEF T
      <3> HIDE DEF s, p
      <3>4. Merged(p \o SubSeq(s.lines, Len(p) + 1, Len(s.lines)), secs, i - 1 + 1, key)
        BY <2>1, <3>1, <3>3, <3>6, MergedMore
      <3>5. Merged(lines[i], secs, i, key) BY <2>1, <3>2, <3>4
      <3> QED BY <2>1, <3>5 DEF Good
    <2> QED BY <2>4, <2>5
  <1> HIDE DEF Good
  <1>12. n \in Good
    <2>1. \A i \in 0 .. n : i \in Good BY <1>1, <1>10, <1>11, UpTo
    <2> QED BY <1>1, <2>1
  <1>13. Merged(lines[n], secs, n, key) BY <1>12 DEF Good
  <1> QED BY <1>3, <1>4, <1>13 DEF n, K

LEMMA PlanIs ==
  ASSUME NEW c \in CompanyRecord, NEW ctx, NEW exten, <<ctx, exten>> \in DOMAIN Plan(c)
  PROVE  LET lines == Plan(c)[<<ctx, exten>>] IN
         /\ ctx \in Seq(Text) /\ exten \in Seq(Text)
         /\ Len(lines) \in Nat /\ DOMAIN lines = 1 .. Len(lines)
         /\ \A k \in 1 .. Len(lines) : lines[k] \in Fitting(ctx, exten) /\ lines[k] \in LineRecord
         /\ ctx = Outbound =>
              \/ \E q \in ToSet(c.queues) : q.name = "outbound"
              \/ \E i \in DOMAIN c.outbound :
                   /\ exten = <<c.outbound[i].pattern>>
                   /\ lines = ChainLines(Chain(c.outbound, c.outbound[i].pattern))
  <1> DEFINE secs == Sections(c)
             n == Len(secs)
             key == <<ctx, exten>>
             lines == Plan(c)[key]
  <1>1. secs \in Seq(Made(c)) /\ secs \in Seq(SectionRecord)
    <2>1. Made(c) \subseteq SectionRecord BY DEF Made
    <2> QED BY <2>1, SectionsAre, SeqMonotonic
  <1>2. \A i \in 1 .. n : secs[i] \in Made(c) BY <1>1, ElementOfSeq
  <1>3. Plan(c) = Loaded(secs) BY DEF Plan
  <1> HIDE DEF secs
  <1>4. Merged(lines, secs, n, key) /\ \E i \in 1 .. n : <<secs[i].ctx, secs[i].exten>> = key
    BY <1>1, <1>3, LoadedIs
  <1>5. \A i \in 1 .. n : <<secs[i].ctx, secs[i].exten>> = key => secs[i].ctx = ctx /\ secs[i].exten = exten
    OBVIOUS
  <1> HIDE DEF lines, key, n
  <1>6. /\ lines \in Seq(LineRecord) /\ Len(lines) \in Nat /\ DOMAIN lines = 1 .. Len(lines)
        /\ \A k \in 1 .. Len(lines) : lines[k] \in LineRecord
    BY <1>4, LenProperties, ElementOfSeq DEF Merged
  <1>7. ASSUME NEW i \in 1 .. n, <<secs[i].ctx, secs[i].exten>> = key
        PROVE  /\ ctx \in Seq(Text) /\ exten \in Seq(Text)
               /\ secs[i].lines \in Seq(Fitting(ctx, exten)) /\ Len(secs[i].lines) \in Nat
               /\ \A k \in 1 .. Len(secs[i].lines) : secs[i].lines[k] \in Fitting(ctx, exten)
               /\ OutboundIsChain(c, secs[i]) /\ secs[i].ctx = ctx /\ secs[i].exten = exten
    <2>1. secs[i].ctx = ctx /\ secs[i].exten = exten BY <1>5, <1>7
    <2>2. /\ secs[i].ctx \in Seq(Text) /\ secs[i].exten \in Seq(Text)
          /\ secs[i].lines \in Seq(Fitting(secs[i].ctx, secs[i].exten))
          /\ OutboundIsChain(c, secs[i])
      BY <1>2 DEF Made, SectionRecord
    <2>3. secs[i].lines \in Seq(Fitting(ctx, exten)) BY <2>1, <2>2
    <2> QED BY <2>1, <2>2, <2>3, LenProperties, ElementOfSeq
  <1>8. ctx \in Seq(Text) /\ exten \in Seq(Text) BY <1>4, <1>7
  <1>9. ASSUME NEW k \in 1 .. Len(lines) PROVE lines[k] \in Fitting(ctx, exten)
    <2>1. PICK i \in 1 .. n : /\ <<secs[i].ctx, secs[i].exten>> = key
                              /\ k \in 1 .. Len(secs[i].lines) /\ lines[k] = secs[i].lines[k]
      BY <1>4 DEF Merged
    <2> QED BY <1>7, <2>1
  <1>10. ASSUME ctx = Outbound, ~ \E q \in ToSet(c.queues) : q.name = "outbound"
         PROVE  \E i \in DOMAIN c.outbound :
                  /\ exten = <<c.outbound[i].pattern>>
                  /\ lines = ChainLines(Chain(c.outbound, c.outbound[i].pattern))
    <2>1. PICK m \in 1 .. n : <<secs[m].ctx, secs[m].exten>> = key BY <1>4
    <2>2. PICK i \in DOMAIN c.outbound :
            /\ exten = <<c.outbound[i].pattern>>
            /\ secs[m].lines = ChainLines(Chain(c.outbound, c.outbound[i].pattern))
      BY <1>7, <1>10, <2>1 DEF OutboundIsChain
    <2> DEFINE chain == ChainLines(Chain(c.outbound, c.outbound[i].pattern))
    <2>3. ASSUME NEW j \in 1 .. n, <<secs[j].ctx, secs[j].exten>> = key
          PROVE  secs[j].lines = chain
      <3>1. PICK o \in DOMAIN c.outbound :
              /\ exten = <<c.outbound[o].pattern>>
              /\ secs[j].lines = ChainLines(Chain(c.outbound, c.outbound[o].pattern))
        BY <1>7, <1>10, <2>3 DEF OutboundIsChain
      <3>2. c.outbound[o].pattern = c.outbound[i].pattern BY <2>2, <3>1
      <3> QED BY <3>1, <3>2
    <2>4. chain \in Seq(Fitting(ctx, exten)) /\ Len(chain) \in Nat BY <1>7, <2>1, <2>2
    <2> HIDE DEF chain
    <2>5. Len(lines) = Len(chain)
      <3>1. Len(chain) <= Len(lines) BY <1>4, <2>1, <2>3 DEF Merged
      <3>2. CASE Len(lines) = 0 BY <2>4, <3>1, <3>2
      <3>3. CASE Len(lines) # 0
        <4>1. Len(lines) \in 1 .. Len(lines) BY <1>6, <3>3
        <4>2. PICK j \in 1 .. n : /\ <<secs[j].ctx, secs[j].exten>> = key
                                  /\ Len(lines) \in 1 .. Len(secs[j].lines)
          BY <1>4, <4>1 DEF Merged
        <4>3. Len(lines) \in 1 .. Len(chain) BY <2>3, <4>2
        <4> QED BY <1>6, <2>4, <3>1, <4>3
      <3> QED BY <3>2, <3>3
    <2>6. \A k \in 1 .. Len(lines) : lines[k] = chain[k] BY <1>4, <2>3 DEF Merged
    <2>7. lines = chain
      <3>1. Fitting(ctx, exten) \subseteq LineRecord BY DEF Fitting
      <3>2. chain \in Seq(LineRecord) BY <2>4, <3>1, SeqMonotonic
      <3> QED BY <1>6, <2>5, <2>6, <3>2, SeqEqual
    <2> QED BY <2>2, <2>7 DEF chain
  <1> QED BY <1>6, <1>8, <1>9, <1>10 DEF lines, key

-----------------------------------------------------------------------------
(* A call and the lines it is at.                                          *)

Spot == [ctx : Seq(Text), exten : Seq(Text), line : Nat]
Ends == {"none", "answered", "voicemail", "assistant", "queue", "hangup", "lost", "gone"}
Statuses == {"none", "ANSWER", "BUSY", "NOANSWER", "CHANUNAVAIL"}
Tried == [who : SUBSET Text, seen : SUBSET Times]

CallRecord ==
  [entry : {"none", "inside", "click", "trunk"}, number : Text, cid : Text, at : Spot,
   status : Statuses, end : Ends, path : Seq(Seq(Text)), steady : BOOLEAN, rang : SUBSET Text,
   why : SUBSET Text, tried : Seq(Tried), seen : SUBSET Times]

\* What a line does not change.
SameCall(c, d) ==
  /\ d.entry = c.entry /\ d.number = c.number /\ d.cid = c.cid
  /\ d.steady = c.steady /\ d.seen = c.seen

\* There is no such exten, or no such label in it.
NoPlace(ctx, x, cid, label) ==
  LET found == Found(ctx, x, cid) IN
  found = {} \/ Positions(ctx, Candidates(x, cid)[Min(found)], label) = {}

SameMarks(c, d) == d.status = c.status /\ d.rang = c.rang /\ d.why = c.why

\* A call that is led to a label of a context is there, or lost.
Led(c, d, ctx, label) ==
  \/ d.at = Ended
  \/ /\ d.at # Ended /\ d.end = c.end
     /\ d.at.ctx = ctx /\ <<ctx, d.at.exten>> \in DOMAIN Plans[loaded]
     /\ d.at.line \in Positions(ctx, d.at.exten, label)

\* It is in the first exten there is of those that asterisk looks for.
IsFound(c, d, x) ==
  d.at # Ended =>
    LET found == Found(d.at.ctx, x, c.cid) IN
    /\ found # {} /\ Min(found) \in found
    /\ d.at.exten = Candidates(x, c.cid)[Min(found)]

LEMMA PlansAre ==
  ASSUME loaded \in DOMAIN Companies
  PROVE  /\ Company \in CompanyRecord /\ Plans[loaded] = Plan(Company)
         /\ \A ctx, exten : Lines(ctx, exten) = Plan(Company)[<<ctx, exten>>]
  BY DialplanAssumption DEF Company, Plans, Lines

LEMMA CandidatesAre ==
  ASSUME NEW x, NEW cid
  PROVE  /\ DOMAIN Candidates(x, cid) \subseteq Nat \ {0}
         /\ 1 \in DOMAIN Candidates(x, cid) /\ 2 \in DOMAIN Candidates(x, cid)
         /\ Candidates(x, cid)[1] = <<x, cid>> /\ Candidates(x, cid)[2] = <<x>>
  <1> DEFINE T == {x, cid} \union STRING
             more == IF x \in DOMAIN Patterns
                     THEN [i \in DOMAIN Patterns[x] |-> <<Patterns[x][i]>>] ELSE << >>
  <1>1. more \in Seq(Seq(T))
    <2>1. CASE x \in DOMAIN Patterns
      <3>1. Patterns[x] \in Seq(STRING) BY <2>1, DialplanAssumption
      <3>2. Len(Patterns[x]) \in Nat /\ DOMAIN Patterns[x] = 1 .. Len(Patterns[x]) BY <3>1
      <3>3. \A i \in DOMAIN Patterns[x] : Patterns[x][i] \in T BY <3>1
      <3>4. \A i \in DOMAIN Patterns[x] : <<Patterns[x][i]>> \in Seq(T) BY <3>3
      <3> HIDE DEF T
      <3>5. [i \in 1 .. Len(Patterns[x]) |-> <<Patterns[x][i]>>]
              \in [1 .. Len(Patterns[x]) -> Seq(T)]
        BY <3>2, <3>4
      <3> QED BY <2>1, <3>2, <3>5, SequenceOf
    <2>2. CASE x \notin DOMAIN Patterns BY <2>2
    <2> QED BY <2>1, <2>2
  <1>2. Candidates(x, cid) = <<<<x, cid>>, <<x>>>> \o more BY DEF Candidates
  <1>3. <<<<x, cid>>, <<x>>>> \in Seq(Seq(T)) OBVIOUS
  <1> HIDE DEF more
  <1> DEFINE two == <<<<x, cid>>, <<x>>>>
  <1>4. Len(two) = 2 /\ two[1] = <<x, cid>> /\ two[2] = <<x>> OBVIOUS
  <1> HIDE DEF two, T
  <1>5. two \in Seq(Seq(T)) BY <1>3 DEF two
  <1>6. /\ DOMAIN (two \o more) \subseteq Nat \ {0}
        /\ 1 \in DOMAIN (two \o more) /\ 2 \in DOMAIN (two \o more)
        /\ (two \o more)[1] = two[1] /\ (two \o more)[2] = two[2]
    <2> DEFINE S == Seq(T)
    <2> HIDE DEF S
    <2>0. two \in Seq(S) /\ more \in Seq(S) BY <1>1, <1>5 DEF S
    <2>1. Len(two) = 2 BY <1>4
    <2>2. Len(more) \in Nat BY <2>0
    <2>3. two \o more \in Seq(S) /\ Len(two \o more) = Len(two) + Len(more) BY <2>0
    <2>4. DOMAIN (two \o more) = 1 .. 2 + Len(more) BY <2>1, <2>3
    <2>5. \A i \in 1 .. Len(two) : (two \o more)[i] = two[i] BY <2>0
    <2> QED BY <2>1, <2>2, <2>4, <2>5
  <1> QED BY <1>2, <1>4, <1>6 DEF two

LEMMA FoundIs ==
  ASSUME NEW ctx, NEW x, NEW cid, Found(ctx, x, cid) # {}
  PROVE  /\ Min(Found(ctx, x, cid)) \in Found(ctx, x, cid)
         /\ <<ctx, Candidates(x, cid)[Min(Found(ctx, x, cid))]>> \in DOMAIN Plans[loaded]
  <1>1. Found(ctx, x, cid) \subseteq Nat BY CandidatesAre DEF Found
  <1>2. Min(Found(ctx, x, cid)) \in Found(ctx, x, cid) BY <1>1, MinIs
  <1> QED BY <1>2 DEF Found

\* A place in a key that was made.
LEMMA PositionsAre ==
  ASSUME loaded \in DOMAIN Companies, NEW ctx, NEW exten, NEW label,
         <<ctx, exten>> \in DOMAIN Plans[loaded]
  PROVE  /\ ctx \in Seq(Text) /\ exten \in Seq(Text)
         /\ Positions(ctx, exten, label) \subseteq 1 .. Len(Lines(ctx, exten)) + 1
         /\ Positions(ctx, exten, label) # {} =>
              Min(Positions(ctx, exten, label)) \in Positions(ctx, exten, label)
  <1>1. /\ ctx \in Seq(Text) /\ exten \in Seq(Text) /\ Len(Lines(ctx, exten)) \in Nat
        /\ DOMAIN Lines(ctx, exten) = 1 .. Len(Lines(ctx, exten))
    BY PlansAre, PlanIs
  <1>2. Positions(ctx, exten, label) \subseteq 1 .. Len(Lines(ctx, exten)) + 1
    BY <1>1 DEF Positions
  <1>3. 1 .. Len(Lines(ctx, exten)) + 1 \subseteq Nat BY <1>1
  <1>4. Positions(ctx, exten, label) \subseteq Nat BY <1>2, <1>3
  <1> QED BY <1>1, <1>2, <1>4, MinIs

\* A place with a line is not the end of a call.
LEMMA NotEnded ==
  ASSUME NEW ctx, NEW exten, NEW n \in Nat \ {0}
  PROVE  [ctx |-> ctx, exten |-> exten, line |-> n] # Ended
  BY DEF Ended

LEMMA LeaveIs ==
  ASSUME NEW c \in CallRecord, NEW end \in Ends
  PROVE  /\ Leave(c, end) \in CallRecord /\ SameCall(c, Leave(c, end))
         /\ Leave(c, end).tried = c.tried /\ Leave(c, end).at = Ended /\ Leave(c, end).end = end
         /\ SameMarks(c, Leave(c, end)) /\ Leave(c, end).path = c.path
  <1>1. Ended \in Spot BY DEF Ended, Spot
  <1> QED BY <1>1 DEF Leave, CallRecord, SameCall, SameMarks

LEMMA EntersIs ==
  ASSUME loaded \in DOMAIN Companies, NEW c \in CallRecord, NEW ctx \in Seq(Text), NEW x, NEW label
  PROVE  LET d == Enters(c, ctx, x, label) IN
         /\ d \in CallRecord /\ SameCall(c, d) /\ d.tried = c.tried
         /\ Led(c, d, ctx, label) /\ IsFound(c, d, x)
         /\ SameMarks(c, d) /\ d.path = Append(c.path, ctx)
         /\ d.at = Ended => d.end = "lost" /\ NoPlace(ctx, x, c.cid, label)
  <1> DEFINE found == Found(ctx, x, c.cid)
             exten == Candidates(x, c.cid)[Min(found)]
             places == Positions(ctx, exten, label)
             moved == [c EXCEPT !.path = Append(@, ctx)]
             spot == [ctx |-> ctx, exten |-> exten, line |-> Min(places)]
             d == Enters(c, ctx, x, label)
  <1>1. /\ moved \in CallRecord /\ SameCall(c, moved) /\ moved.tried = c.tried
        /\ moved.end = c.end /\ SameMarks(c, moved) /\ moved.path = Append(c.path, ctx)
    <2>1. c.path \in Seq(Seq(Text)) BY DEF CallRecord
    <2>2. Append(c.path, ctx) \in Seq(Seq(Text)) BY <2>1
    <2> QED BY <2>2 DEF CallRecord, SameCall, SameMarks
  <1>2. d = IF found = {} \/ places = {} THEN Leave(moved, "lost") ELSE [moved EXCEPT !.at = spot]
    BY Zenon DEF Enters
  <1> HIDE DEF moved
  <1>3. CASE found = {} \/ places = {}
    <2>1. d = Leave(moved, "lost") BY <1>2, <1>3
    <2>2. /\ d \in CallRecord /\ SameCall(moved, d) /\ d.tried = moved.tried /\ d.at = Ended
          /\ d.end = "lost" /\ SameMarks(moved, d) /\ d.path = moved.path
      BY <1>1, <2>1, LeaveIs DEF Ends
    <2> HIDE DEF d
    <2>3. SameCall(c, d) /\ SameMarks(c, d) BY <1>1, <2>2 DEF SameCall, SameMarks
    <2> QED BY <1>1, <1>3, <2>2, <2>3 DEF d, Led, IsFound, NoPlace
  <1>4. CASE found # {} /\ places # {}
    <2>1. Min(found) \in found /\ <<ctx, exten>> \in DOMAIN Plans[loaded] BY <1>4, FoundIs
    <2>2. exten \in Seq(Text) /\ Min(places) \in places /\ places \subseteq 1 .. Len(Lines(ctx, exten)) + 1
      BY <1>4, <2>1, PositionsAre
    <2>3. Min(places) \in Nat \ {0} BY <2>2
    <2> HIDE DEF exten, found, places
    <2>4. spot \in Spot BY <2>2, <2>3 DEF Spot
    <2>5. spot # Ended BY <2>3, NotEnded
    <2>6. spot.ctx = ctx /\ spot.exten = exten /\ spot.line = Min(places) OBVIOUS
    <2> HIDE DEF spot
    <2>7. d = [moved EXCEPT !.at = spot] BY <1>2, <1>4
    <2>8. /\ d \in CallRecord /\ SameCall(moved, d) /\ d.tried = moved.tried /\ d.at = spot /\ d.end = moved.end
          /\ SameMarks(moved, d) /\ d.path = moved.path
      BY <1>1, <2>4, <2>7 DEF CallRecord, SameCall, SameMarks
    <2> HIDE DEF d
    <2>9. SameCall(c, d) BY <1>1, <2>8 DEF SameCall
    <2>10. Led(c, d, ctx, label)
      BY <1>1, <2>1, <2>2, <2>5, <2>6, <2>8 DEF Led, places
    <2>11. IsFound(c, d, x)
      BY <1>4, <2>1, <2>6, <2>8 DEF IsFound, found, exten
    <2>12. SameMarks(c, d) /\ d.path = Append(c.path, ctx) /\ d.at # Ended
      BY <1>1, <2>5, <2>8 DEF SameMarks
    <2> QED BY <1>1, <2>8, <2>9, <2>10, <2>11, <2>12 DEF d
  <1> QED BY <1>3, <1>4

\* A jump: in the exten the call is in, or to an exten that is looked for.
Target(c, to) ==
  CASE to.exten = Dialled -> c.number
    [] to.exten = DialledE164 -> E164[c.number]
    [] OTHER -> to.exten[1]

\* The contexts a jump adds to those a call went to, and why it is lost.
Headed(c, d, to) ==
  /\ d.at = Ended => d.end = "lost"
  /\ IF to.ctx = c.at.ctx /\ to.exten = c.at.exten
     THEN d.path = c.path /\ (d.at = Ended => Positions(to.ctx, to.exten, to.label) = {})
     ELSE /\ d.path = Append(c.path, to.ctx)
          /\ d.at = Ended => NoPlace(to.ctx, Target(c, to), c.cid, to.label)

LEMMA JumpsIs ==
  ASSUME loaded \in DOMAIN Companies, NEW c \in CallRecord, NEW to \in Place,
         c.at # Ended, <<c.at.ctx, c.at.exten>> \in DOMAIN Plans[loaded]
  PROVE  LET d == Jumps(c, to) IN
         /\ d \in CallRecord /\ SameCall(c, d) /\ d.tried = c.tried
         /\ Led(c, d, to.ctx, to.label)
         /\ IF to.ctx = c.at.ctx /\ to.exten = c.at.exten
            THEN d.at # Ended => d.at.exten = c.at.exten
            ELSE IsFound(c, d, Target(c, to))
         /\ SameMarks(c, d) /\ Headed(c, d, to)
  <1> DEFINE d == Jumps(c, to)
             places == Positions(to.ctx, to.exten, to.label)
  <1>0. to.ctx \in Seq(Text) /\ to.exten \in Seq(Text) BY DEF Place
  <1>1. CASE to.ctx = c.at.ctx /\ to.exten = c.at.exten
    <2>1. d = IF places = {} THEN Leave(c, "lost") ELSE [c EXCEPT !.at.line = Min(places)]
      BY <1>1, Zenon DEF Jumps
    <2>2. CASE places = {}
      <3>1. d = Leave(c, "lost") BY <2>1, <2>2
      <3>2. /\ d \in CallRecord /\ SameCall(c, d) /\ d.tried = c.tried /\ d.at = Ended
            /\ d.end = "lost" /\ SameMarks(c, d) /\ d.path = c.path
        BY <3>1, LeaveIs DEF Ends
      <3> HIDE DEF d
      <3>3. Headed(c, d, to) BY <1>1, <2>2, <3>2 DEF Headed
      <3> QED BY <1>1, <3>2, <3>3 DEF d, Led
    <2>3. CASE places # {}
      <3>1. Min(places) \in places /\ places \subseteq 1 .. Len(Lines(to.ctx, to.exten)) + 1
        BY <1>1, <2>3, PositionsAre
      <3>2. Min(places) \in Nat \ {0} BY <3>1
      <3> DEFINE n == Min(places)
                 spot == [c.at EXCEPT !.line = n]
      <3> HIDE DEF places, n
      <3>3. n \in Nat \ {0} /\ n \in places BY <3>1, <3>2 DEF n
      <3>4. c.at \in Spot BY DEF CallRecord
      <3>5. /\ spot \in Spot /\ spot.ctx = c.at.ctx /\ spot.exten = c.at.exten /\ spot.line = n
        BY <3>3, <3>4 DEF Spot
      <3>6. spot # Ended BY <3>3, <3>5 DEF Ended
      <3>7. d = [c EXCEPT !.at = spot]
        <4>1. d = [c EXCEPT !.at.line = n] BY <2>1, <2>3 DEF n
        <4> QED BY <4>1
      <3> HIDE DEF spot
      <3>8. /\ d \in CallRecord /\ SameCall(c, d) /\ d.tried = c.tried /\ d.at = spot /\ d.end = c.end
            /\ SameMarks(c, d) /\ d.path = c.path
        BY <3>5, <3>7 DEF CallRecord, SameCall, SameMarks
      <3> HIDE DEF d
      <3>9. Led(c, d, to.ctx, to.label) BY <1>1, <3>3, <3>5, <3>6, <3>8 DEF Led, places
      <3>10. Headed(c, d, to) BY <1>1, <3>6, <3>8 DEF Headed
      <3> QED BY <1>1, <3>5, <3>8, <3>9, <3>10 DEF d
    <2> QED BY <2>2, <2>3
  <1>2. CASE ~ (to.ctx = c.at.ctx /\ to.exten = c.at.exten)
    <2>1. d = Enters(c, to.ctx, Target(c, to), to.label) BY <1>2, Zenon DEF Jumps, Target
    <2> DEFINE x == Target(c, to)
    <2> HIDE DEF x, d
    <2>2. /\ d \in CallRecord /\ SameCall(c, d) /\ d.tried = c.tried
          /\ Led(c, d, to.ctx, to.label) /\ IsFound(c, d, x)
          /\ SameMarks(c, d) /\ d.path = Append(c.path, to.ctx)
          /\ d.at = Ended => d.end = "lost" /\ NoPlace(to.ctx, x, c.cid, to.label)
      BY <1>0, <2>1, EntersIs DEF x
    <2>3. Headed(c, d, to) BY <1>2, <2>2 DEF Headed, x
    <2> QED BY <1>2, <2>2, <2>3 DEF x, d
  <1> QED BY <1>1, <1>2

-----------------------------------------------------------------------------
(* What holds of every call, by induction over its steps.                  *)

Typed ==
  /\ loaded \in DOMAIN Companies /\ now \in Times
  /\ ticks \in 0 .. MaxTicks /\ reloads \in 0 .. MaxReloads
  /\ call \in CallRecord
  /\ call.at # Ended => call.end = "none" /\ call.at.line > 0 /\ now \in call.seen
  /\ call.at # Ended /\ call.steady =>
       /\ <<call.at.ctx, call.at.exten>> \in DOMAIN Plans[loaded]
       /\ call.at.line <= Len(Lines(call.at.ctx, call.at.exten)) + 1

\* Where a line of the call leads it.
Jumped(c, d, to) ==
  /\ Led(c, d, to.ctx, to.label)
  /\ IF to.ctx = c.at.ctx /\ to.exten = c.at.exten
     THEN d.at # Ended => d.at.exten = c.at.exten
     ELSE IsFound(c, d, Target(c, to))

NextSpot(at) == [at EXCEPT !.line = @ + 1]

LEMMA NextLineIs ==
  ASSUME NEW c \in CallRecord
  PROVE  /\ NextLine(c) \in CallRecord /\ SameCall(c, NextLine(c))
         /\ NextLine(c).tried = c.tried /\ NextLine(c).end = c.end
         /\ NextLine(c).at = NextSpot(c.at)
         /\ SameMarks(c, NextLine(c)) /\ NextLine(c).path = c.path
  <1>1. c.at \in Spot BY DEF CallRecord
  <1>2. NextSpot(c.at) \in Spot BY <1>1 DEF Spot, NextSpot
  <1>3. NextLine(c) = [c EXCEPT !.at = NextSpot(c.at)] BY DEF NextLine, NextSpot
  <1> QED BY <1>2, <1>3 DEF CallRecord, SameCall, SameMarks

LEMMA HereIs ==
  ASSUME Typed, Present
  PROVE  /\ <<call.at.ctx, call.at.exten>> \in DOMAIN Plans[loaded]
         /\ call.at.line \in 1 .. Len(Lines(call.at.ctx, call.at.exten))
         /\ Here \in LineRecord /\ LineFits(call.at.ctx, call.at.exten, Here)
  <1>1. call.at.line \in Nat /\ call.at.line > 0 BY DEF Typed, CallRecord, Spot, Present
  <1>2. loaded \in DOMAIN Companies BY DEF Typed
  <1>3. <<call.at.ctx, call.at.exten>> \in DOMAIN Plan(Company) BY <1>2, PlansAre DEF Present
  <1>4. LET lines == Lines(call.at.ctx, call.at.exten) IN
        /\ Len(lines) \in Nat
        /\ \A k \in 1 .. Len(lines) : /\ lines[k] \in Fitting(call.at.ctx, call.at.exten)
                                      /\ lines[k] \in LineRecord
    BY <1>2, <1>3, PlansAre, PlanIs
  <1>5. call.at.line \in 1 .. Len(Lines(call.at.ctx, call.at.exten)) BY <1>1, <1>4 DEF Present
  <1> QED BY <1>4, <1>5 DEF Here, Fitting, Present

\* What a line may do to a call: it ends it, goes on, or leads it elsewhere.
Onward(c, d) ==
  \/ d.at = Ended
  \/ d.end = c.end /\ d.at = NextSpot(c.at) /\ Here.app # "Goto"
  \/ /\ d.end = c.end /\ Here.app \in Leads /\ Jumped(c, d, Here.to)
     /\ Here.app = "GotoIf" /\ Here.test = <<"TIME", "hours">> => now = "hours"

Tries(c, d) ==
  \/ d.tried = c.tried
  \/ /\ Here.app = "Dial" /\ c.at.ctx = Outbound
     /\ d.tried = Append(c.tried, [who |-> Here.who, seen |-> c.seen])

LEMMA EndsIs ==
  ASSUME Typed, NEW end \in Ends, call' = Leave(call, end)
  PROVE  /\ call' \in CallRecord /\ SameCall(call, call') /\ call'.at = Ended
         /\ call'.tried = call.tried
  BY LeaveIs DEF Typed

LEMMA PassesIs ==
  ASSUME Typed, Present, Here.app # "Goto", call' = NextLine(call)
  PROVE  /\ call' \in CallRecord /\ SameCall(call, call')
         /\ Onward(call, call') /\ Tries(call, call')
  BY NextLineIs DEF Typed, Onward, Tries

LEMMA JumpedIs ==
  ASSUME Typed, Present, NEW c \in CallRecord, NEW to \in Place, c.at = call.at,
         SameCall(call, c), c.tried = call.tried, c.end = call.end
  PROVE  /\ Jumps(c, to) \in CallRecord /\ SameCall(call, Jumps(c, to))
         /\ Jumped(call, Jumps(c, to), to) /\ Jumps(c, to).tried = call.tried
         /\ Jumps(c, to).at = Ended \/ Jumps(c, to).end = call.end
  <1>1. /\ loaded \in DOMAIN Companies /\ c.at # Ended
        /\ <<c.at.ctx, c.at.exten>> \in DOMAIN Plans[loaded]
    BY DEF Typed, Present
  <1> DEFINE d == Jumps(c, to)
  <1>2. /\ d \in CallRecord /\ SameCall(c, d) /\ d.tried = c.tried
        /\ Led(c, d, to.ctx, to.label)
        /\ IF to.ctx = c.at.ctx /\ to.exten = c.at.exten
           THEN d.at # Ended => d.at.exten = c.at.exten
           ELSE IsFound(c, d, Target(c, to))
    BY <1>1, JumpsIs
  <1> HIDE DEF d
  <1>3. SameCall(call, d) BY <1>2 DEF SameCall
  <1>4. Led(call, d, to.ctx, to.label) BY <1>2 DEF Led
  <1>5. c.number = call.number /\ c.cid = call.cid BY DEF SameCall
  <1>6. Target(c, to) = Target(call, to) BY <1>5, Zenon DEF Target
  <1>7. IF to.ctx = call.at.ctx /\ to.exten = call.at.exten
        THEN d.at # Ended => d.at.exten = call.at.exten
        ELSE IsFound(call, d, Target(call, to))
    BY <1>2, <1>5, <1>6 DEF IsFound
  <1>8. d.at = Ended \/ d.end = call.end BY <1>4 DEF Led
  <1> QED BY <1>2, <1>3, <1>4, <1>7, <1>8 DEF Jumped, d

LEMMA BranchIs ==
  ASSUME Typed, Branch
  PROVE  /\ call' \in CallRecord /\ SameCall(call, call')
         /\ Onward(call, call') /\ Tries(call, call')
  <1>1. Present /\ Here.app = "GotoIf" BY DEF Branch, Does
  <1>2. call \in CallRecord BY DEF Typed
  <1>3. Here \in LineRecord BY <1>1, HereIs
  <1> DEFINE c == [call EXCEPT !.why = IF Here.test[1] \in {"INUSE", "UNAVAILABLE"}
                                       THEN @ \union {Here.test[1]} ELSE @]
             d == Jumps(c, Here.to)
  <1>4. PICK yes \in Outcomes(Here.test) : call' = IF yes THEN d ELSE NextLine(call)
    BY Zenon DEF Branch
  <1>5. /\ c \in CallRecord /\ SameCall(call, c) /\ c.at = call.at /\ c.tried = call.tried
        /\ c.end = call.end
    <2>1. {"INUSE", "UNAVAILABLE"} \subseteq Text BY DEF Text
    <2>2. (IF Here.test[1] \in {"INUSE", "UNAVAILABLE"}
           THEN call.why \union {Here.test[1]} ELSE call.why) \in SUBSET Text
      BY <1>2, <2>1 DEF CallRecord
    <2> QED BY <1>2, <2>2 DEF CallRecord, SameCall
  <1> HIDE DEF c
  <1>6. Here.to \in Place BY <1>3 DEF LineRecord
  <1>7. /\ d \in CallRecord /\ SameCall(call, d) /\ Jumped(call, d, Here.to) /\ d.tried = call.tried
        /\ d.at = Ended \/ d.end = call.end
    BY <1>1, <1>5, <1>6, JumpedIs
  <1> HIDE DEF d
  <1>8. CASE yes
    <2>1. call' = d BY <1>4, <1>8
    <2>2. Here.test = <<"TIME", "hours">> => now = "hours"
      <3> SUFFICES ASSUME Here.test = <<"TIME", "hours">> PROVE now = "hours" OBVIOUS
      <3>1. Here.test[1] = "TIME" /\ Here.test[2] = "hours" OBVIOUS
      <3>2. Outcomes(Here.test) = {now \in Holds(Here.test[2])} BY <3>1 DEF Outcomes
      <3>3. Holds("hours") = {"hours"} BY DEF Holds
      <3> QED BY <1>4, <1>8, <3>1, <3>2, <3>3
    <2> QED BY <1>1, <1>7, <2>1, <2>2 DEF Onward, Tries, Leads
  <1>9. CASE ~ yes
    <2>1. call' = NextLine(call) BY <1>4, <1>9
    <2> QED BY <1>1, <2>1, PassesIs
  <1> QED BY <1>8, <1>9

LEMMA RingIs ==
  ASSUME Typed, Ring
  PROVE  /\ call' \in CallRecord /\ SameCall(call, call')
         /\ Onward(call, call') /\ Tries(call, call')
  <1>1. Present /\ Here.app = "Dial" BY DEF Ring, Does
  <1>2. call \in CallRecord BY DEF Typed
  <1>3. Here \in LineRecord BY <1>1, HereIs
  <1> DEFINE out == call.at.ctx = Outbound
             rung(status) ==
               [call EXCEPT !.status = status,
                  !.rang = IF out THEN @ ELSE @ \union Here.who,
                  !.tried = IF out THEN Append(@, [who |-> Here.who, seen |-> call.seen])
                            ELSE @,
                  !.why = IF status = "BUSY" /\ ~out THEN @ \union {status} ELSE @]
  <1>4. PICK status \in {"ANSWER", "BUSY", "NOANSWER", "CHANUNAVAIL"} :
          call' = IF status = "ANSWER" THEN Leave(rung(status), "answered")
                  ELSE NextLine(rung(status))
    BY Zenon DEF Ring
  <1> DEFINE c == rung(status)
  <1>5. /\ c \in CallRecord /\ SameCall(call, c) /\ c.at = call.at /\ c.end = call.end
        /\ Tries(call, c)
    <2>1. Here.who \in SUBSET Text BY <1>3 DEF LineRecord
    <2>2. [who |-> Here.who, seen |-> call.seen] \in Tried BY <1>2, <2>1 DEF CallRecord, Tried
    <2>3. Append(call.tried, [who |-> Here.who, seen |-> call.seen]) \in Seq(Tried)
      BY <1>2, <2>2 DEF CallRecord
    <2>4. "BUSY" \in Text BY DEF Text
    <2>5. (IF status = "BUSY" /\ ~out THEN call.why \union {status} ELSE call.why) \in SUBSET Text
      BY <1>2, <2>4 DEF CallRecord
    <2>6. (IF out THEN call.rang ELSE call.rang \union Here.who) \in SUBSET Text
      BY <1>2, <2>1 DEF CallRecord
    <2>7. c \in CallRecord BY <1>2, <2>3, <2>5, <2>6 DEF CallRecord, Statuses
    <2>8. /\ SameCall(call, c) /\ c.at = call.at /\ c.end = call.end BY <1>2 DEF CallRecord, SameCall
    <2>9. c.tried = IF out THEN Append(call.tried, [who |-> Here.who, seen |-> call.seen])
                    ELSE call.tried
      BY <1>2 DEF CallRecord
    <2>10. Tries(call, c) BY <1>1, <2>9 DEF Tries
    <2> QED BY <2>7, <2>8, <2>10
  <1> HIDE DEF c
  <1>6. CASE status = "ANSWER"
    <2>1. call' = Leave(c, "answered") BY <1>4, <1>6 DEF c
    <2>2. call' \in CallRecord /\ SameCall(c, call') /\ call'.tried = c.tried /\ call'.at = Ended
      BY <1>5, <2>1, LeaveIs DEF Ends
    <2> QED BY <1>5, <2>2 DEF SameCall, Onward, Tries
  <1>7. CASE status # "ANSWER"
    <2>1. call' = NextLine(c) BY <1>4, <1>7 DEF c
    <2>2. /\ call' \in CallRecord /\ SameCall(c, call') /\ call'.tried = c.tried
          /\ call'.at = NextSpot(c.at) /\ call'.end = c.end
      BY <1>5, <2>1, NextLineIs
    <2> QED BY <1>1, <1>5, <2>2 DEF SameCall, Onward, Tries
  <1> QED BY <1>6, <1>7

LEMMA StepIs ==
  ASSUME Typed, Step
  PROVE  /\ call.at # Ended /\ UNCHANGED <<loaded, now, ticks, reloads>>
         /\ call' \in CallRecord /\ SameCall(call, call')
         /\ call'.at = Ended \/ (Present /\ Onward(call, call'))
         /\ call'.tried = call.tried \/ (Present /\ Tries(call, call'))
  <1>1. CASE Pass BY <1>1, PassesIs DEF Pass, Does, Present
  <1>2. CASE Jump
    <2>1. Present /\ Here.app = "Goto" /\ call' = Jumps(call, Here.to) BY <1>2 DEF Jump, Does
    <2>2. Here.to \in Place /\ call \in CallRecord BY <2>1, HereIs DEF LineRecord, Typed
    <2>3. SameCall(call, call) BY DEF SameCall
    <2>4. /\ call' \in CallRecord /\ SameCall(call, call') /\ Jumped(call, call', Here.to)
          /\ call'.tried = call.tried /\ (call'.at = Ended \/ call'.end = call.end)
      BY <2>1, <2>2, <2>3, JumpedIs
    <2>5. UNCHANGED <<loaded, now, ticks, reloads>> /\ call.at # Ended
      BY <1>2 DEF Jump, Does, Present
    <2> QED BY <2>1, <2>4, <2>5 DEF Onward, Leads
  <1>3. CASE Branch BY <1>3, BranchIs DEF Branch, Does, Present
  <1>4. CASE Ring BY <1>4, RingIs DEF Ring, Does, Present
  <1>5. CASE Voicemail
    <2>1. /\ Present /\ Here.app = "Voicemail" /\ UNCHANGED <<loaded, now, ticks, reloads>>
          /\ call' = Leave(call, "voicemail") \/ call' = NextLine(call)
      BY <1>5 DEF Voicemail, Does
    <2>2. call.at # Ended BY <2>1 DEF Present
    <2>3. CASE call' = Leave(call, "voicemail") BY <2>1, <2>2, <2>3, EndsIs DEF Ends
    <2>4. CASE call' = NextLine(call) BY <2>1, <2>2, <2>4, PassesIs
    <2> QED BY <2>1, <2>3, <2>4
  <1>6. CASE Assist BY <1>6, EndsIs DEF Assist, Does, Present, Ends
  <1>7. CASE Queue BY <1>7, EndsIs DEF Queue, Does, Present, Ends
  <1>8. CASE Play BY <1>8, PassesIs DEF Play, Does, Present
  <1>9. CASE Drop BY <1>9, EndsIs DEF Drop, Does, Present, Ends
  <1>10. CASE RunOut BY <1>10, EndsIs DEF RunOut, Ends
  <1> QED
    BY <1>1, <1>2, <1>3, <1>4, <1>5, <1>6, <1>7, <1>8, <1>9, <1>10 DEF Step

-----------------------------------------------------------------------------
(* Type correctness.                                                       *)

LEMMA NoCallIs ==
  /\ NoCall \in CallRecord /\ NoCall.at = Ended /\ NoCall.end = "none" /\ NoCall.steady
  /\ NoCall.tried = << >> /\ NoCall.entry = "none" /\ NoCall.cid = None
  /\ NoCall.path = << >> /\ NoCall.rang = {} /\ NoCall.status = "none"
  <1>1. Ended \in Spot BY DEF Ended, Spot
  <1>2. None \in Text BY DEF Text
  <1>3. << >> \in Seq(Seq(Text)) /\ << >> \in Seq(Tried) OBVIOUS
  <1> QED BY <1>1, <1>2, <1>3 DEF NoCall, CallRecord, Statuses, Ends

LEMMA InitTyped == Init => Typed
  <1> SUFFICES ASSUME Init PROVE Typed OBVIOUS
  <1> QED BY NoCallIs, DialplanAssumption DEF Init, Typed

\* A new call.
LEMMA NewCallIs ==
  ASSUME now \in Times, NEW entry \in {"inside", "click", "trunk"}, NEW number \in Text, NEW cid \in Text
  PROVE  LET c == NewCall(entry, number, cid) IN
         /\ c \in CallRecord /\ c.entry = entry /\ c.number = number /\ c.cid = cid
         /\ c.end = "none" /\ c.steady /\ c.seen = {now} /\ c.tried = << >>
         /\ c.path = << >> /\ c.rang = {} /\ c.status = "none"
  BY NoCallIs DEF NewCall, CallRecord

LEMMA BeginIs ==
  ASSUME Typed, NEW entry \in {"inside", "click", "trunk"}, NEW number \in Text, NEW cid \in Text,
         NEW ctx \in Seq(Text), Begin(NewCall(entry, number, cid), ctx)
  PROVE  /\ UNCHANGED <<loaded, now, ticks, reloads>>
         /\ call' \in CallRecord /\ call'.entry = entry /\ call'.number = number
         /\ call'.cid = cid /\ call'.seen = {now} /\ call'.tried = << >> /\ call'.steady
         /\ call'.path = <<ctx>> /\ call'.rang = {} /\ call'.status = "none"
         /\ call'.at = Ended => call'.end = "lost" /\ NoPlace(ctx, number, cid, First)
         /\ call'.at # Ended =>
              /\ call'.end = "none" /\ call'.at.ctx = ctx
              /\ <<ctx, call'.at.exten>> \in DOMAIN Plans[loaded]
              /\ call'.at.line = 1
              /\ LET found == Found(ctx, number, cid) IN
                 /\ found # {} /\ Min(found) \in found
                 /\ call'.at.exten = Candidates(number, cid)[Min(found)]
  <1> DEFINE c == NewCall(entry, number, cid)
  <1>1. /\ c \in CallRecord /\ c.entry = entry /\ c.number = number /\ c.cid = cid
        /\ c.end = "none" /\ c.steady /\ c.seen = {now} /\ c.tried = << >>
        /\ c.path = << >> /\ c.rang = {} /\ c.status = "none"
    BY NewCallIs DEF Typed
  <1> HIDE DEF c
  <1>2. call' = Enters(c, ctx, c.number, First) /\ UNCHANGED <<loaded, now, ticks, reloads>>
    BY DEF Begin, c
  <1>3. loaded \in DOMAIN Companies BY DEF Typed
  <1>4. /\ call' \in CallRecord /\ SameCall(c, call') /\ call'.tried = c.tried
        /\ Led(c, call', ctx, First) /\ IsFound(c, call', c.number)
        /\ SameMarks(c, call') /\ call'.path = Append(c.path, ctx)
        /\ call'.at = Ended => call'.end = "lost" /\ NoPlace(ctx, c.number, c.cid, First)
    BY <1>1, <1>2, <1>3, EntersIs
  <1>7. call'.path = <<ctx>> BY <1>1, <1>4
  <1>5. Positions(ctx, call'.at.exten, First) = {1} BY DEF Positions
  <1>6. call'.at # Ended =>
          /\ call'.end = c.end /\ call'.at.ctx = ctx
          /\ <<ctx, call'.at.exten>> \in DOMAIN Plans[loaded] /\ call'.at.line = 1
    BY <1>4, <1>5 DEF Led
  <1> QED BY <1>1, <1>2, <1>4, <1>6, <1>7 DEF SameCall, IsFound, SameMarks

LEMMA NumbersAreText ==
  /\ Inside \subseteq Text /\ Outside \subseteq Text /\ Dids \subseteq Text /\ Cids \subseteq Text
  /\ None \in Text
  BY DialplanAssumption, StringsAreText DEF Text

LEMMA BeginsTyped ==
  ASSUME Typed, DialInside \/ ClickToCall \/ CallIn
  PROVE  Typed'
  <1>1. PICK entry \in {"inside", "click", "trunk"}, number \in Text, cid \in Text, ctx \in Seq(Text) :
          Begin(NewCall(entry, number, cid), ctx)
    BY NumbersAreText, StringsAreText DEF DialInside, ClickToCall, CallIn
  <1>2. /\ UNCHANGED <<loaded, now, ticks, reloads>>
        /\ call' \in CallRecord /\ call'.seen = {now}
        /\ call'.at # Ended =>
             /\ call'.end = "none" /\ call'.at.ctx = ctx
             /\ <<ctx, call'.at.exten>> \in DOMAIN Plans[loaded] /\ call'.at.line = 1
    BY <1>1, BeginIs
  <1>3. loaded \in DOMAIN Companies BY DEF Typed
  <1>4. call'.at # Ended => 1 <= Len(Lines(ctx, call'.at.exten)) + 1
    <2> SUFFICES ASSUME call'.at # Ended PROVE 1 <= Len(Lines(ctx, call'.at.exten)) + 1 OBVIOUS
    <2>1. Positions(ctx, call'.at.exten, First) \subseteq 1 .. Len(Lines(ctx, call'.at.exten)) + 1
      BY <1>2, <1>3, PositionsAre
    <2>2. 1 \in Positions(ctx, call'.at.exten, First) BY DEF Positions
    <2> QED BY <2>1, <2>2
  <1>5. Plans' = Plans BY DEF Plans
  <1>7. ASSUME call'.at # Ended
        PROVE  /\ <<call'.at.ctx, call'.at.exten>> \in DOMAIN Plans'[loaded']
               /\ call'.at.line <= Len(Plans'[loaded'][<<call'.at.ctx, call'.at.exten>>]) + 1
    BY <1>2, <1>4, <1>5, <1>7 DEF Lines
  <1> QED BY <1>2, <1>7 DEF Typed, Lines

\* Where a line leads there are lines, or it is the end of them.
LEMMA OnwardIs ==
  ASSUME Typed, Present, NEW d \in CallRecord, Onward(call, d), d.at # Ended
  PROVE  /\ d.end = "none" /\ d.at.line > 0
         /\ <<d.at.ctx, d.at.exten>> \in DOMAIN Plans[loaded]
         /\ d.at.line <= Len(Lines(d.at.ctx, d.at.exten)) + 1
  <1>1. /\ call.at # Ended /\ call.end = "none" /\ loaded \in DOMAIN Companies
        /\ call.at \in Spot
    BY DEF Present, Typed, CallRecord
  <1>2. /\ <<call.at.ctx, call.at.exten>> \in DOMAIN Plans[loaded]
        /\ call.at.line \in 1 .. Len(Lines(call.at.ctx, call.at.exten))
    BY HereIs
  <1>3. CASE d.end = call.end /\ d.at = NextSpot(call.at)
    <2>1. /\ d.at.ctx = call.at.ctx /\ d.at.exten = call.at.exten
          /\ d.at.line = call.at.line + 1
      BY <1>1, <1>3 DEF NextSpot, Spot
    <2>2. Len(Lines(call.at.ctx, call.at.exten)) \in Nat BY <1>1, <1>2, PlansAre, PlanIs
    <2> QED BY <1>1, <1>2, <1>3, <2>1, <2>2
  <1>4. CASE d.end = call.end /\ Jumped(call, d, Here.to)
    <2>1. /\ <<Here.to.ctx, d.at.exten>> \in DOMAIN Plans[loaded] /\ d.at.ctx = Here.to.ctx
          /\ d.at.line \in Positions(Here.to.ctx, d.at.exten, Here.to.label)
      BY <1>4 DEF Jumped, Led
    <2>2. Positions(Here.to.ctx, d.at.exten, Here.to.label)
            \subseteq 1 .. Len(Lines(Here.to.ctx, d.at.exten)) + 1
      BY <1>1, <2>1, PositionsAre
    <2>3. Len(Lines(Here.to.ctx, d.at.exten)) \in Nat BY <1>1, <2>1, PlansAre, PlanIs
    <2> QED BY <1>1, <1>4, <2>1, <2>2, <2>3
  <1> QED BY <1>3, <1>4 DEF Onward

LEMMA StepTyped ==
  ASSUME Typed, Step
  PROVE  Typed'
  <1>1. /\ call.at # Ended /\ UNCHANGED <<loaded, now, ticks, reloads>>
        /\ call' \in CallRecord /\ SameCall(call, call')
        /\ call'.at = Ended \/ (Present /\ Onward(call, call'))
    BY StepIs
  <1>2. now \in call'.seen BY <1>1 DEF Typed, SameCall
  <1>3. Plans' = Plans BY DEF Plans
  <1>4. ASSUME call'.at # Ended
        PROVE  /\ call'.end = "none" /\ call'.at.line > 0
               /\ <<call'.at.ctx, call'.at.exten>> \in DOMAIN Plans[loaded]
               /\ call'.at.line <= Len(Plans[loaded][<<call'.at.ctx, call'.at.exten>>]) + 1
    BY <1>1, <1>4, OnwardIs DEF Lines
  <1> QED BY <1>1, <1>2, <1>3, <1>4 DEF Typed, Lines

LEMMA HangUpIs ==
  ASSUME Typed, HangUp
  PROVE  /\ UNCHANGED <<loaded, now, ticks, reloads>>
         /\ call' \in CallRecord /\ SameCall(call, call') /\ call'.at = Ended
         /\ call'.tried = call.tried
  BY EndsIs DEF HangUp, Ends

LEMMA TickIs ==
  ASSUME Typed, Tick
  PROVE  /\ UNCHANGED <<loaded, reloads>> /\ now' \in Times /\ ticks' \in 0 .. MaxTicks
         /\ call' \in CallRecord /\ call'.seen = call.seen \union {now'}
         /\ call'.at = call.at /\ call'.end = call.end /\ call'.entry = call.entry
         /\ call'.number = call.number /\ call'.cid = call.cid /\ call'.steady = call.steady
         /\ call'.tried = call.tried
  <1>1. ticks' \in 0 .. MaxTicks BY DialplanAssumption DEF Tick, Typed
  <1>2. now' \in Times BY DEF Tick
  <1>3. call' = [call EXCEPT !.seen = @ \union {now'}] BY DEF Tick
  <1>4. call \in CallRecord BY DEF Typed
  <1>5. call.seen \union {now'} \in SUBSET Times BY <1>2, <1>4 DEF CallRecord
  <1> QED BY <1>1, <1>2, <1>3, <1>4, <1>5 DEF CallRecord, Tick

LEMMA ReloadIs ==
  ASSUME Typed, Reload
  PROVE  /\ UNCHANGED <<now, ticks>> /\ loaded' \in DOMAIN Companies /\ reloads' \in 0 .. MaxReloads
         /\ call' \in CallRecord /\ ~ call'.steady /\ call'.end = call.end
         /\ call'.at # Ended /\ call'.at.line = call.at.line /\ call'.seen = call.seen
  <1>1. reloads' \in 0 .. MaxReloads BY DialplanAssumption DEF Reload, Typed
  <1> DEFINE plan == Plans[loaded']
             entries == Candidates(OwnExten, call.cid)
             found == {i \in DOMAIN entries :
                         /\ <<call.at.ctx, entries[i]>> \in DOMAIN plan
                         /\ call.at.line <= Len(plan[<<call.at.ctx, entries[i]>>])}
             exten == FoundIn(plan)
  <1>2. call' = [call EXCEPT !.steady = FALSE, !.at.exten = exten] BY DEF Reload
  <1>3. call \in CallRecord /\ call.at \in Spot BY DEF Typed, CallRecord
  <1>4. loaded' \in DOMAIN Companies /\ call.at # Ended BY DEF Reload
  <1>5. exten \in Seq(Text)
    <2>1. exten = IF found = {} THEN call.at.exten ELSE entries[Min(found)] BY DEF FoundIn
    <2>2. CASE found = {} BY <1>3, <2>1, <2>2 DEF Spot
    <2>3. CASE found # {}
      <3>1. found \subseteq Nat BY CandidatesAre
      <3>2. Min(found) \in found BY <2>3, <3>1, MinIs
      <3>3. <<call.at.ctx, entries[Min(found)]>> \in DOMAIN plan BY <3>2
      <3>4. plan = Plan(Companies[loaded']) /\ Companies[loaded'] \in CompanyRecord
        BY <1>4, DialplanAssumption DEF Plans
      <3> HIDE DEF plan, entries, found
      <3>5. entries[Min(found)] \in Seq(Text) BY <3>3, <3>4, PlanIs
      <3> QED BY <2>1, <2>3, <3>5
    <2> QED BY <2>2, <2>3
  <1> HIDE DEF exten
  <1>6. call'.at = [call.at EXCEPT !.exten = exten] BY <1>2, <1>3 DEF CallRecord
  <1>7. call'.at \in Spot /\ call'.at.line = call.at.line BY <1>3, <1>5, <1>6 DEF Spot
  <1>8. call'.at # Ended BY <1>4, <1>7 DEF Typed, Ended
  <1>9. call' \in CallRecord /\ ~ call'.steady /\ call'.end = call.end /\ call'.seen = call.seen
    BY <1>2, <1>3, <1>6, <1>7 DEF CallRecord
  <1> QED BY <1>1, <1>7, <1>8, <1>9 DEF Reload

LEMMA NextTyped == Typed /\ [Next]_vars => Typed'
  <1> SUFFICES ASSUME Typed, [Next]_vars PROVE Typed' OBVIOUS
  <1>1. CASE DialInside \/ ClickToCall \/ CallIn BY <1>1, BeginsTyped
  <1>2. CASE Step BY <1>2, StepTyped
  <1>3. CASE HangUp
    <2>1. /\ UNCHANGED <<loaded, now, ticks, reloads>>
          /\ call' \in CallRecord /\ call'.at = Ended
      BY <1>3, HangUpIs
    <2> QED BY <2>1 DEF Typed
  <1>4. CASE Tick
    <2>1. /\ UNCHANGED <<loaded, reloads>> /\ now' \in Times /\ ticks' \in 0 .. MaxTicks
          /\ call' \in CallRecord /\ call'.seen = call.seen \union {now'}
          /\ call'.at = call.at /\ call'.end = call.end /\ call'.steady = call.steady
      BY <1>4, TickIs
    <2>2. Plans' = Plans BY DEF Plans
    <2> QED BY <2>1, <2>2 DEF Typed, Lines
  <1>5. CASE Reload
    <2>1. /\ UNCHANGED <<now, ticks>> /\ loaded' \in DOMAIN Companies /\ reloads' \in 0 .. MaxReloads
          /\ call' \in CallRecord /\ ~ call'.steady /\ call'.end = call.end
          /\ call'.at # Ended /\ call'.at.line = call.at.line /\ call'.seen = call.seen
      BY <1>5, ReloadIs
    <2>2. call.at # Ended BY <1>5 DEF Reload
    <2> QED BY <2>1, <2>2 DEF Typed
  <1>6. CASE UNCHANGED vars
    <2>1. Plans' = Plans BY DEF Plans
    <2> QED BY <1>6, <2>1 DEF vars, Typed, Lines
  <1> QED BY <1>1, <1>2, <1>3, <1>4, <1>5, <1>6 DEF Next

LEMMA TypedIsTypeOK == Typed => TypeOK
  <1> SUFFICES ASSUME Typed PROVE TypeOK OBVIOUS
  <1>1. Present /\ Here.app = "Dial" => Here.who # {} BY HereIs DEF LineFits
  <1>2. call.entry \in {"none", "inside", "click", "trunk"} /\ call.end \in Ends
    BY DEF Typed, CallRecord
  <1> QED BY <1>1, <1>2 DEF Typed, TypeOK, Ends

\* A call is always at a line of an exten that was made, or behind the last
\* one, as long as no other dialplan is loaded under it, and a Dial has somebody
\* to ring: for every company and all that can be dialled.
THEOREM TypeCorrect == Spec => []TypeOK
  <1>1. Spec => []Typed BY InitTyped, NextTyped, PTL DEF Spec
  <1> QED BY <1>1, TypedIsTypeOK, PTL

-----------------------------------------------------------------------------
(* The numbers of extensions and queues have an entry inside.              *)

LEMMA FlattenKeeps ==
  ASSUME NEW S, NEW seqs \in Seq(Seq(S)), NEW i \in 1 .. Len(seqs)
  PROVE  ToSet(seqs[i]) \subseteq ToSet(FlattenSeq(seqs))
  <1> DEFINE flat == FlattenSeq(seqs)
             m == Len(seqs)
  <1>1. flat \in Seq(S) /\ \E at \in [0 .. m -> Nat] : Begins(at, seqs, flat) BY FlattenIs
  <1>2. PICK at \in [0 .. m -> Nat] : Begins(at, seqs, flat) BY <1>1
  <1>3. m \in Nat /\ seqs[i] \in Seq(S) /\ Len(seqs[i]) \in Nat /\ DOMAIN seqs[i] = 1 .. Len(seqs[i])
    BY LenProperties, ElementOfSeq
  <1> HIDE DEF flat
  <1>4. ASSUME NEW j \in 1 .. Len(seqs[i])
        PROVE  at[i - 1] + j \in 1 .. Len(flat) /\ flat[at[i - 1] + j] = seqs[i][j]
    <2>1. at[i] = at[i - 1] + Len(seqs[i]) /\ flat[at[i - 1] + j] = seqs[i][j] BY <1>2 DEF Begins, m
    <2>2. at[i] <= at[m] /\ at[m] = Len(flat)
      <3>1. \A k \in 1 .. m : Len(seqs[k]) \in Nat BY LenProperties, ElementOfSeq
      <3>2. \A k, l \in 0 .. m : k <= l => at[k] <= at[l] BY <1>2, <1>3, <3>1, BeginsGrow
      <3>3. i \in 0 .. m /\ m \in 0 .. m /\ i <= m BY <1>3
      <3> QED BY <1>2, <3>2, <3>3 DEF Begins
    <2>3. i - 1 \in 0 .. m /\ i \in 0 .. m /\ m \in 0 .. m BY <1>3
    <2>4. at[i - 1] \in Nat /\ at[i] \in Nat /\ at[m] \in Nat BY <1>2, <2>3
    <2> QED BY <1>3, <2>1, <2>2, <2>4
  <1>5. DOMAIN flat = 1 .. Len(flat) BY <1>1, LenProperties
  <1> QED BY <1>3, <1>4, <1>5 DEF ToSet, flat

\* A number that the company serves inside.
Served(c, n) ==
  \/ \E e \in ToSet(c.exts) : e.number = n /\ (e.ai \/ e.devices # << >>)
  \/ \E q \in ToSet(c.queues) : q.number = n

\* A section of an exten.
HasExten(secs, ctx, exten) == \E s \in ToSet(secs) : s.ctx = ctx /\ s.exten = exten

LEMMA ServedHasEntry ==
  ASSUME NEW c \in CompanyRecord, NEW n, Served(c, n)
  PROVE  <<Internal, <<n>>>> \in DOMAIN Plan(c)
  <1> DEFINE M == Made(c)
             entries == [i \in DOMAIN c.exts |-> InternalEntry(c.exts[i])]
             numbers == [i \in DOMAIN c.queues |-> QueueEntry(c.queues[i])]
  <1>1. /\ HasExten(FlattenSeq(entries), Internal, <<n>>)
           \/ HasExten(FlattenSeq(numbers), Internal, <<n>>)
        /\ FlattenSeq(entries) \in Seq(M) /\ FlattenSeq(numbers) \in Seq(M)
    <2>1. /\ c.exts \in Seq(ExtRecord) /\ c.queues \in Seq(QueueRecord)
          /\ Len(c.exts) \in Nat /\ DOMAIN c.exts = 1 .. Len(c.exts)
          /\ Len(c.queues) \in Nat /\ DOMAIN c.queues = 1 .. Len(c.queues)
      BY LenProperties DEF CompanyRecord
    <2>2. /\ \A i \in DOMAIN c.exts : c.exts[i] \in ExtRecord
          /\ \A i \in DOMAIN c.queues : c.queues[i] \in QueueRecord /\ c.queues[i] \in ToSet(c.queues)
      BY <2>1, ElementOfSeq DEF ToSet
    <2> HIDE DEF M
    <2>3. /\ \A i \in DOMAIN c.exts : entries[i] \in Seq(M)
          /\ \A i \in DOMAIN c.queues : numbers[i] \in Seq(M)
      BY <2>2, ExtSectionsAre, QueueSectionsAre DEF M
    <2>4. entries \in Seq(Seq(M)) /\ Len(entries) = Len(c.exts)
      <3>1. entries \in [1 .. Len(c.exts) -> Seq(M)] BY <2>1, <2>3
      <3> HIDE DEF entries
      <3> QED BY <2>1, <3>1, SequenceOf
    <2>5. numbers \in Seq(Seq(M)) /\ Len(numbers) = Len(c.queues)
      <3>1. numbers \in [1 .. Len(c.queues) -> Seq(M)] BY <2>1, <2>3
      <3> HIDE DEF numbers
      <3> QED BY <2>1, <3>1, SequenceOf
    <2>6. CASE \E e \in ToSet(c.exts) : e.number = n /\ (e.ai \/ e.devices # << >>)
      <3>1. PICK i \in DOMAIN c.exts : c.exts[i].number = n /\ (c.exts[i].ai \/ c.exts[i].devices # << >>)
        BY <2>6 DEF ToSet
      <3>2. HasExten(entries[i], Internal, <<n>>)
        BY <3>1 DEF HasExten, InternalEntry, HasRingGroup, Section, ToSet
      <3>3. ToSet(entries[i]) \subseteq ToSet(FlattenSeq(entries))
        <4> HIDE DEF entries
        <4> QED BY <2>1, <2>4, FlattenKeeps
      <3>4. HasExten(FlattenSeq(entries), Internal, <<n>>) BY <3>2, <3>3 DEF HasExten
      <3> HIDE DEF entries, numbers
      <3> QED BY <2>4, <2>5, <3>4, FlattenIs
    <2>7. CASE \E q \in ToSet(c.queues) : q.number = n
      <3>1. PICK i \in DOMAIN c.queues : c.queues[i].number = n BY <2>7 DEF ToSet
      <3>2. HasExten(numbers[i], Internal, <<n>>)
        BY <3>1 DEF HasExten, QueueEntry, Section, ToSet
      <3>3. ToSet(numbers[i]) \subseteq ToSet(FlattenSeq(numbers))
        <4> HIDE DEF numbers
        <4> QED BY <2>1, <2>5, FlattenKeeps
      <3>4. HasExten(FlattenSeq(numbers), Internal, <<n>>) BY <3>2, <3>3 DEF HasExten
      <3> HIDE DEF entries, numbers
      <3> QED BY <2>4, <2>5, <3>4, FlattenIs
    <2> QED BY <2>6, <2>7 DEF Served
  <1> DEFINE first == FlattenSeq(entries) \o FlattenSeq(numbers)
  <1>2. /\ ToSet(first) \subseteq ToSet(Sections(c)) BY SectionsAre
  <1> HIDE DEF entries, numbers, M
  <1>3. HasExten(first, Internal, <<n>>) BY <1>1, ConcatKeeps DEF HasExten
  <1> HIDE DEF first
  <1>4. HasExten(Sections(c), Internal, <<n>>) BY <1>2, <1>3 DEF HasExten
  <1> QED BY <1>4 DEF HasExten, Plan, Loaded

-----------------------------------------------------------------------------
(* A number of the company stays inside.                                   *)

\* Where a call is that has not left: inside, and in no exten for a way out.
Inward ==
  call.steady /\ call.entry = "inside" /\ Served(Company, call.number) =>
    /\ call.tried = << >>
    /\ call.at # Ended => \/ Within(call.at.ctx)
                          \/ call.at.ctx = Internal /\ call.at.exten \notin WaysOut

LEMMA InsideIsNotOutbound ==
  ASSUME NEW ctx, Within(ctx) \/ ctx = Internal
  PROVE  ctx # Outbound
  BY DEF Within, Internal, Outbound

LEMMA DialInsideInward ==
  ASSUME Typed, DialInside
  PROVE  Inward'
  <1>1. PICK n \in Inside : Begin(NewCall("inside", n, None), Internal) BY DEF DialInside
  <1>2. n \in Text /\ None \in Text /\ Internal \in Seq(Text) BY NumbersAreText, StringsAreText
  <1>3. /\ UNCHANGED <<loaded, now, ticks, reloads>> /\ call'.number = n /\ call'.tried = << >>
        /\ call'.at # Ended =>
             /\ call'.at.ctx = Internal
             /\ LET found == Found(Internal, n, None) IN
                /\ found # {} /\ Min(found) \in found
                /\ call'.at.exten = Candidates(n, None)[Min(found)]
    <2>1. UNCHANGED <<loaded, now, ticks, reloads>> BY <1>1, <1>2, BeginIs
    <2>2. call'.number = n /\ call'.tried = << >> BY <1>1, <1>2, BeginIs
    <2>3. ASSUME call'.at # Ended
          PROVE  /\ call'.at.ctx = Internal
                 /\ LET found == Found(Internal, n, None) IN
                    /\ found # {} /\ Min(found) \in found
                    /\ call'.at.exten = Candidates(n, None)[Min(found)]
      <3>1. call'.at # Ended =>
              /\ call'.end = "none" /\ call'.at.ctx = Internal
              /\ <<Internal, call'.at.exten>> \in DOMAIN Plans[loaded]
              /\ call'.at.line = 1
              /\ LET found == Found(Internal, n, None) IN
                 /\ found # {} /\ Min(found) \in found
                 /\ call'.at.exten = Candidates(n, None)[Min(found)]
        BY <1>1, <1>2, BeginIs, Zenon
      <3> QED BY <2>3, <3>1
    <2> QED BY <2>1, <2>2, <2>3
  <1>4. Company' = Company BY <1>3 DEF Company
  <1>5. loaded \in DOMAIN Companies BY DEF Typed
  <1>6. ASSUME Served(Company, n), call'.at # Ended PROVE call'.at.exten \notin WaysOut
    <2> DEFINE found == Found(Internal, n, None)
    <2>1. <<Internal, <<n>>>> \in DOMAIN Plans[loaded]
      BY <1>5, <1>6, PlansAre, ServedHasEntry
    <2>2. 2 \in found BY <2>1, CandidatesAre DEF Found
    <2>3. found \subseteq Nat BY CandidatesAre DEF Found
    <2>4. Min(found) \in found /\ Min(found) <= 2 BY <2>2, <2>3, MinIs
    <2>5. Min(found) # 0
      <3>1. 0 \notin DOMAIN Candidates(n, None) BY CandidatesAre
      <3> QED BY <2>4, <3>1 DEF Found
    <2>6. Min(found) \in {1, 2} BY <2>3, <2>4, <2>5
    <2> HIDE DEF found
    <2>7. call'.at.exten = <<n, None>> \/ call'.at.exten = <<n>>
      BY <1>3, <1>6, <2>6, CandidatesAre DEF found
    <2>8. n \notin {"_0.", "_+.", "_46."} BY DialplanAssumption DEF PatternsOut
    <2> DEFINE zero == "_0."
               plus == "_+."
               sweden == "_46."
    <2> HIDE DEF zero, plus, sweden
    <2>9. n # zero /\ n # plus /\ n # sweden BY <2>8 DEF zero, plus, sweden
    <2>10. call'.at.exten # <<zero>> /\ call'.at.exten # <<plus>> /\ call'.at.exten # <<sweden>>
      BY <2>7, <2>9
    <2> QED BY <2>10 DEF WaysOut, zero, plus, sweden
  <1> QED BY <1>3, <1>4, <1>6 DEF Inward

LEMMA StepInward ==
  ASSUME Typed, Inward, Step
  PROVE  Inward'
  <1>1. /\ call.at # Ended /\ UNCHANGED <<loaded, now, ticks, reloads>>
        /\ call' \in CallRecord /\ SameCall(call, call')
        /\ call'.at = Ended \/ (Present /\ Onward(call, call'))
        /\ call'.tried = call.tried \/ (Present /\ Tries(call, call'))
    BY StepIs
  <1>2. Company' = Company BY <1>1 DEF Company
  <1> SUFFICES ASSUME call'.steady, call'.entry = "inside", Served(Company', call'.number)
               PROVE  /\ call'.tried = << >>
                      /\ call'.at # Ended =>
                           \/ Within(call'.at.ctx)
                           \/ call'.at.ctx = Internal /\ call'.at.exten \notin WaysOut
    BY DEF Inward
  <1>3. /\ call.tried = << >>
        /\ Within(call.at.ctx) \/ (call.at.ctx = Internal /\ call.at.exten \notin WaysOut)
    BY <1>1, <1>2 DEF Inward, SameCall
  <1>4. call.at.ctx # Outbound BY <1>3, InsideIsNotOutbound
  <1>5. call'.tried = << >> BY <1>1, <1>3, <1>4 DEF Tries
  <1>6. ASSUME call'.at # Ended
        PROVE  \/ Within(call'.at.ctx)
               \/ call'.at.ctx = Internal /\ call'.at.exten \notin WaysOut
    <2>1. Present /\ Onward(call, call') BY <1>1, <1>6
    <2>2. CASE call'.at = NextSpot(call.at)
      <3>1. call.at \in Spot BY DEF Typed, CallRecord
      <3>2. call'.at.ctx = call.at.ctx /\ call'.at.exten = call.at.exten
        BY <2>2, <3>1 DEF NextSpot, Spot
      <3> QED BY <1>3, <3>2
    <2>3. CASE Here.app \in Leads /\ Jumped(call, call', Here.to)
      <3>1. call'.at.ctx = Here.to.ctx BY <1>6, <2>3 DEF Jumped, Led
      <3>2. Within(Here.to.ctx) BY <1>3, <2>1, <2>3, HereIs DEF LineFits
      <3> QED BY <3>1, <3>2
    <2> QED BY <1>6, <2>1, <2>2, <2>3 DEF Onward
  <1> QED BY <1>5, <1>6

LEMMA NextInward == Typed /\ Inward /\ [Next]_vars => Inward'
  <1> SUFFICES ASSUME Typed, Inward, [Next]_vars PROVE Inward' OBVIOUS
  <1>1. CASE DialInside BY <1>1, DialInsideInward
  <1>2. CASE ClickToCall \/ CallIn
    <2>1. PICK entry \in {"click", "trunk"}, number \in Text, cid \in Text, ctx \in Seq(Text) :
            Begin(NewCall(entry, number, cid), ctx)
      BY <1>2, NumbersAreText, StringsAreText DEF ClickToCall, CallIn
    <2>2. call'.entry = entry BY <2>1, BeginIs
    <2> QED BY <2>2 DEF Inward
  <1>3. CASE Step BY <1>3, StepInward
  <1>4. CASE HangUp
    <2>1. /\ UNCHANGED <<loaded, now, ticks, reloads>> /\ SameCall(call, call')
          /\ call'.at = Ended /\ call'.tried = call.tried
      BY <1>4, HangUpIs
    <2> QED BY <2>1 DEF Inward, SameCall, Company
  <1>5. CASE Tick
    <2>1. /\ UNCHANGED <<loaded, reloads>> /\ call'.at = call.at /\ call'.entry = call.entry
          /\ call'.number = call.number /\ call'.steady = call.steady /\ call'.tried = call.tried
      BY <1>5, TickIs
    <2> QED BY <2>1 DEF Inward, Company
  <1>6. CASE Reload
    <2>1. ~ call'.steady BY <1>6, ReloadIs
    <2> QED BY <2>1 DEF Inward
  <1>7. CASE UNCHANGED vars BY <1>7 DEF vars, Inward, Company
  <1> QED BY <1>1, <1>2, <1>3, <1>4, <1>5, <1>6, <1>7 DEF Next

LEMMA InwardStaysInside == Inward /\ Typed => InsideStaysInside
  <1> SUFFICES ASSUME Inward, Typed, call.steady, call.entry = "inside", call.tried # << >>
               PROVE  /\ \A e \in ExtensionsOf({call.number}) : ~e.ai /\ e.devices = << >>
                      /\ \A q \in ToSet(Company.queues) : q.number # call.number
    BY DEF InsideStaysInside
  <1>1. ~ Served(Company, call.number) BY DEF Inward
  <1> QED BY <1>1 DEF Served, ExtensionsOf

\* A number that an extension or a queue of the company answers, dialled from a
\* phone, is never sent to a trunk: its entry is found before the patterns that
\* lead out, and no line of the inside leads out.
THEOREM InsideKept == Spec => []InsideStaysInside
  <1>1. Init => Inward
    <2> SUFFICES ASSUME Init PROVE Inward OBVIOUS
    <2> QED BY NoCallIs DEF Init, Inward
  <1>2. Spec => [](Typed /\ Inward)
    BY <1>1, InitTyped, NextTyped, NextInward, PTL DEF Spec
  <1> QED BY <1>2, InwardStaysInside, PTL

-----------------------------------------------------------------------------
(* Behind the gate of a route.                                             *)

\* Each line of a chain is one of a route, before its gate or behind it, where
\* no line before the gate goes on to.
Shaped(c, pattern, lines, route, behind) ==
  /\ behind \subseteq 1 .. Len(lines)
  /\ \A l \in 1 .. Len(lines) :
       /\ route[l] \in ToSet(c.outbound) /\ route[l].pattern = pattern
       /\ l \notin behind => lines[l] \in GateLines(route[l])
       /\ l \in behind => \/ lines[l].app = "NoOp" /\ lines[l].label = GoLabel(route[l])
                          \/ lines[l] \in TrunkPart(route[l])
  /\ \A l \in behind : l # 1 /\ \/ lines[l - 1].app = "Goto"
                                \/ l - 1 \in behind /\ route[l - 1] = route[l]

LEMMA ChainIsShaped ==
  ASSUME NEW c \in CompanyRecord, NEW pattern
  PROVE  \E route, behind :
           Shaped(c, pattern, ChainLines(Chain(c.outbound, pattern)), route, behind)
  <1> DEFINE chain == Chain(c.outbound, pattern)
             f == [k \in DOMAIN chain |-> OutboundLines(chain, k)]
             lines == FlattenSeq(f)
             G(k) == CHOOSE g : IsRoute(chain[k], f[k], g)
  <1>1. /\ chain \in Seq(OutboundRecord) /\ Len(chain) \in Nat /\ DOMAIN chain = 1 .. Len(chain)
        /\ \A k \in 1 .. Len(chain) : /\ chain[k].pattern = pattern
                                      /\ chain[k] \in ToSet(c.outbound)
    BY ChainIs
  <1> HIDE DEF chain
  <1>2. ASSUME NEW k \in 1 .. Len(chain) PROVE IsRoute(chain[k], f[k], G(k))
    <2>1. \E g : IsRoute(chain[k], OutboundLines(chain, k), g) BY <1>1, OutboundLinesAre
    <2> QED BY <1>1, <2>1
  <1>3. f \in Seq(Seq(LineRecord)) /\ Len(f) = Len(chain)
    <2>1. \A k \in 1 .. Len(chain) : f[k] \in Seq(LineRecord) BY <1>2 DEF IsRoute
    <2>2. f \in [1 .. Len(chain) -> Seq(LineRecord)] BY <1>1, <2>1
    <2> HIDE DEF f
    <2> QED BY <1>1, <2>2, SequenceOf
  <1>4. ChainLines(chain) = lines BY DEF ChainLines
  <1> HIDE DEF f, G
  <1>5. PICK of, off : Unflattened(lines, f, of, off) BY <1>3, FlattenFrom
  <1> HIDE DEF lines
  <1> DEFINE route == [l \in 1 .. Len(lines) |-> chain[of[l]]]
             behind == {l \in 1 .. Len(lines) : off[l] >= G(of[l])}
  <1>6. ASSUME NEW l \in 1 .. Len(lines)
        PROVE  /\ of[l] \in 1 .. Len(chain) /\ off[l] \in 1 .. Len(f[of[l]]) /\ off[l] \in Nat
               /\ lines[l] = f[of[l]][off[l]]
               /\ off[l] # 1 => l # 1 /\ of[l - 1] = of[l] /\ off[l - 1] = off[l] - 1
               /\ IsRoute(chain[of[l]], f[of[l]], G(of[l]))
               /\ Len(f[of[l]]) \in Nat
    <2>1. of[l] \in 1 .. Len(chain) /\ off[l] \in Nat BY <1>3, <1>5 DEF Unflattened
    <2>2. f[of[l]] \in Seq(LineRecord) BY <1>2, <2>1 DEF IsRoute
    <2> QED BY <1>2, <1>5, <2>1, <2>2, LenProperties DEF Unflattened
  <1>7. ASSUME NEW l \in 1 .. Len(lines)
        PROVE  /\ route[l] \in ToSet(c.outbound) /\ route[l].pattern = pattern
               /\ l \notin behind => lines[l] \in GateLines(route[l])
               /\ l \in behind => \/ lines[l].app = "NoOp" /\ lines[l].label = GoLabel(route[l])
                                  \/ lines[l] \in TrunkPart(route[l])
    <2> DEFINE g == G(of[l])
               o == off[l]
               block == f[of[l]]
               r == chain[of[l]]
    <2>1. /\ o \in 1 .. Len(block) /\ lines[l] = block[o] /\ IsRoute(r, block, g) /\ Len(block) \in Nat
          /\ r \in ToSet(c.outbound) /\ r.pattern = pattern
      BY <1>1, <1>6
    <2>2. route[l] = r /\ (l \in behind <=> o >= g) OBVIOUS
    <2> HIDE DEF g, o, block, r, route, behind
    <2>3. g \in 2 .. Len(block) BY <2>1 DEF IsRoute
    <2>4. CASE o < g
      <3>1. o \in 1 .. g - 1 /\ ~ o >= g BY <2>1, <2>3, <2>4
      <3> QED BY <2>1, <2>2, <3>1 DEF IsRoute
    <2>5. CASE o = g
      <3>1. o >= g BY <2>3, <2>5
      <3> QED BY <2>1, <2>2, <2>5, <3>1 DEF IsRoute
    <2>6. CASE o > g
      <3>1. o \in g + 1 .. Len(block) /\ o >= g BY <2>1, <2>3, <2>6
      <3> QED BY <2>1, <2>2, <3>1 DEF IsRoute
    <2>7. o < g \/ o = g \/ o > g BY <2>1, <2>3
    <2> QED BY <2>4, <2>5, <2>6, <2>7
  <1>8. ASSUME NEW l \in behind
        PROVE  l # 1 /\ \/ lines[l - 1].app = "Goto"
                        \/ l - 1 \in behind /\ route[l - 1] = route[l]
    <2> DEFINE g == G(of[l])
               o == off[l]
               block == f[of[l]]
    <2>0. l \in 1 .. Len(lines) OBVIOUS
    <2>1. /\ o \in 1 .. Len(block) /\ IsRoute(chain[of[l]], block, g) /\ Len(block) \in Nat
          /\ o # 1 => l # 1 /\ of[l - 1] = of[l] /\ off[l - 1] = o - 1
          /\ o >= g
      BY <1>6
    <2> HIDE DEF g, o, block
    <2>2. g \in 2 .. Len(block) /\ block[g - 1].app = "Goto" BY <2>1 DEF IsRoute
    <2>3. o # 1 BY <2>1, <2>2
    <2>4. l # 1 /\ of[l - 1] = of[l] /\ off[l - 1] = o - 1 BY <2>1, <2>3
    <2>5. Len(lines) \in Nat /\ l - 1 \in 1 .. Len(lines)
      <3>1. lines \in Seq(LineRecord) BY <1>3, FlattenIs DEF lines
      <3>2. Len(lines) \in Nat BY <3>1, LenProperties
      <3> QED BY <2>0, <2>4, <3>2
    <2>6. lines[l - 1] = block[o - 1] BY <1>6, <2>4, <2>5 DEF block
    <2>7. CASE o = g BY <2>2, <2>4, <2>6, <2>7
    <2>8. CASE o # g
      <3>1. o - 1 >= g BY <2>1, <2>2, <2>8
      <3>2. l - 1 \in behind BY <2>4, <2>5, <3>1 DEF g
      <3>3. route[l - 1] = route[l] BY <2>0, <2>4, <2>5
      <3> QED BY <2>4, <3>2, <3>3
    <2> QED BY <2>7, <2>8
  <1>9. behind \subseteq 1 .. Len(lines) OBVIOUS
  <1> HIDE DEF route, behind
  <1>10. Shaped(c, pattern, lines, route, behind) BY <1>7, <1>8, <1>9 DEF Shaped
  <1> QED BY <1>4, <1>10 DEF chain

\* No label is one of two routes, or of two kinds.
LEMMA LabelsDiffer ==
  ASSUME NEW r, NEW s, NEW label
  PROVE  /\ label = GoLabel(r) /\ label = GoLabel(s) => r.seq = s.seq
         /\ IsTrunkLabel(r, label) /\ IsTrunkLabel(s, label) => r.seq = s.seq
         /\ ~ (IsTrunkLabel(r, label) /\ label = GoLabel(s))
         /\ IsStartLabel(label) => label # GoLabel(r) /\ ~ IsTrunkLabel(r, label) /\ label # << >>
         /\ label = << >> => label # GoLabel(r) /\ ~ IsTrunkLabel(r, label)
  <1>1. label = GoLabel(r) => Len(label) = 2 /\ label[1] = "go" /\ label[2] = r.seq BY DEF GoLabel
  <1>2. label = GoLabel(s) => Len(label) = 2 /\ label[1] = "go" /\ label[2] = s.seq BY DEF GoLabel
  <1>3. IsTrunkLabel(r, label) => Len(label) = 3 /\ label[1] = "t" /\ label[2] = r.seq
    BY DEF IsTrunkLabel
  <1>4. IsTrunkLabel(s, label) => Len(label) = 3 /\ label[1] = "t" /\ label[2] = s.seq
    BY DEF IsTrunkLabel
  <1>5. IsStartLabel(label) => Len(label) = 2 /\ label[1] = "start" BY DEF IsStartLabel
  <1>6. label = << >> => Len(label) = 0 OBVIOUS
  <1> QED BY <1>1, <1>2, <1>3, <1>4, <1>5, <1>6

LEMMA SameRoute ==
  ASSUME NEW c, Apart(c), NEW r \in ToSet(c.outbound), NEW s \in ToSet(c.outbound),
         r.pattern = s.pattern, r.seq = s.seq
  PROVE  r = s
  <1>1. PICK i \in DOMAIN c.outbound : r = c.outbound[i] BY DEF ToSet
  <1>2. PICK j \in DOMAIN c.outbound : s = c.outbound[j] BY DEF ToSet
  <1>3. i = j BY <1>1, <1>2 DEF Apart
  <1> QED BY <1>1, <1>2, <1>3

\* Whatever leads behind a gate comes from behind the same gate, or passes it.
LEMMA LedBehind ==
  ASSUME NEW c, Apart(c), NEW pattern, NEW lines, NEW route, NEW behind,
         Shaped(c, pattern, lines, route, behind),
         NEW l \in 1 .. Len(lines), lines[l].app \in Leads, lines[l].to.ctx # Failover,
         NEW m \in behind, lines[m].label = lines[l].to.label
  PROVE  /\ route[m] = route[l]
         /\ l \notin behind => \/ route[l].gate = "none"
                               \/ lines[l].app = "GotoIf" /\ lines[l].test = <<"TIME", "hours">>
  <1> DEFINE r == route[l]
             s == route[m]
             label == lines[m].label
  <1>1. /\ m \in 1 .. Len(lines) /\ r \in ToSet(c.outbound) /\ s \in ToSet(c.outbound)
        /\ r.pattern = s.pattern
    BY DEF Shaped
  <1>2. label = GoLabel(s) \/ label = << >> \/ IsTrunkLabel(s, label)
    BY <1>1 DEF Shaped, TrunkPart, TrunkLine
  <1>3. CASE l \in behind
    <2>1. lines[l].app # "NoOp" BY DEF Leads
    <2>2. lines[l] \in TrunkPart(r) BY <1>3, <2>1 DEF Shaped
    <2>3. IsTrunkLabel(r, label) BY <2>2 DEF TrunkPart, TrunkLine
    <2> HIDE DEF label
    <2>4. r.seq = s.seq BY <1>2, <2>3, LabelsDiffer
    <2>5. r = s BY <1>1, <2>4, SameRoute
    <2> QED BY <1>3, <2>5
  <1>4. CASE l \notin behind
    <2>1. lines[l] \in GateLines(r) BY <1>4 DEF Shaped
    <2>2. \/ /\ label = GoLabel(r)
             /\ r.gate = "none" \/ (lines[l].app = "GotoIf" /\ lines[l].test = <<"TIME", "hours">>)
          \/ IsStartLabel(label)
      BY <2>1 DEF GateLines, GateLine
    <2> HIDE DEF label, r, s
    <2>3. ~ IsStartLabel(label) BY <1>2, LabelsDiffer
    <2>4. label = GoLabel(r) BY <2>2, <2>3
    <2>5. r.seq = s.seq BY <1>2, <2>4, LabelsDiffer
    <2>6. r = s BY <1>1, <2>5, SameRoute
    <2> QED BY <2>2, <2>3, <2>6 DEF r, s
  <1> QED BY <1>3, <1>4

\* A call that is behind the gate of a route was there in the hours of it.
PastGate(at, seen) ==
  \A pattern, route, behind :
    /\ at.exten = <<pattern>> /\ at.line \in behind
    /\ Shaped(Company, pattern, Lines(at.ctx, at.exten), route, behind)
    => route[at.line].gate = "none" \/ "hours" \in seen

Gated ==
  call.steady =>
    /\ call.at # Ended /\ call.at.ctx = Outbound => PastGate(call.at, call.seen)
    /\ \A i \in DOMAIN call.tried : \E r \in ToSet(Company.outbound) :
         /\ \E k \in DOMAIN r.trunks : call.tried[i].who = {r.trunks[k].name}
         /\ r.gate = "none" \/ "hours" \in call.tried[i].seen

LEMMA ChainOf ==
  ASSUME Typed, Apart(Company), NEW exten, <<Outbound, exten>> \in DOMAIN Plans[loaded]
  PROVE  \E pattern, route, behind :
           /\ exten = <<pattern>> /\ Shaped(Company, pattern, Lines(Outbound, exten), route, behind)
  <1>1. /\ Company \in CompanyRecord /\ Plans[loaded] = Plan(Company)
        /\ Lines(Outbound, exten) = Plan(Company)[<<Outbound, exten>>]
    BY PlansAre DEF Typed
  <1>2. PICK i \in DOMAIN Company.outbound :
          /\ exten = <<Company.outbound[i].pattern>>
          /\ Lines(Outbound, exten) = ChainLines(Chain(Company.outbound, Company.outbound[i].pattern))
    BY <1>1, PlanIs DEF Apart
  <1> DEFINE pattern == Company.outbound[i].pattern
  <1> HIDE DEF pattern
  <1>3. \E route, behind :
          Shaped(Company, pattern, ChainLines(Chain(Company.outbound, pattern)), route, behind)
    BY <1>1, ChainIsShaped
  <1> QED BY <1>2, <1>3 DEF pattern

LEMMA StepPastGate ==
  ASSUME Typed, Apart(Company), Gated, Step, call.steady, call'.at # Ended, call'.at.ctx = Outbound,
         NEW pattern, NEW route, NEW behind, call'.at.exten = <<pattern>>, call'.at.line \in behind,
         Shaped(Company, pattern, Lines(Outbound, call'.at.exten), route, behind)
  PROVE  route[call'.at.line].gate = "none" \/ "hours" \in call.seen
  <1> DEFINE lines == Lines(Outbound, call'.at.exten)
             l == call.at.line
             m == call'.at.line
  <1>1. /\ call.at # Ended /\ Present /\ Onward(call, call') /\ call \in CallRecord
    BY StepIs DEF Typed
  <1>2. /\ <<call.at.ctx, call.at.exten>> \in DOMAIN Plans[loaded]
        /\ l \in 1 .. Len(Lines(call.at.ctx, call.at.exten))
        /\ LineFits(call.at.ctx, call.at.exten, Here) /\ now \in call.seen
    BY <1>1, HereIs DEF Typed
  <1>3. m # 1 /\ m \in 1 .. Len(lines) BY DEF Shaped
  <1>4. CASE call'.at = NextSpot(call.at) /\ Here.app # "Goto"
    <2>1. /\ call'.at.ctx = call.at.ctx /\ call'.at.exten = call.at.exten /\ m = l + 1
      BY <1>1, <1>4 DEF NextSpot, CallRecord, Spot
    <2>2. l \in Nat BY <1>1 DEF CallRecord, Spot
    <2>3. m - 1 = l /\ lines[l] = Here BY <2>1, <2>2 DEF Here
    <2>4. l \in behind /\ route[l] = route[m]
      <3>1. lines[m - 1].app # "Goto" BY <1>4, <2>3
      <3> HIDE DEF lines, m
      <3>2. m \in behind /\ Shaped(Company, pattern, lines, route, behind) BY DEF lines, m
      <3>3. m - 1 \in behind /\ route[m - 1] = route[m] BY <3>1, <3>2 DEF Shaped
      <3> QED BY <2>3, <3>3
    <2>5. PastGate(call.at, call.seen) BY <1>1, <2>1 DEF Gated
    <2>6. Shaped(Company, pattern, Lines(call.at.ctx, call.at.exten), route, behind) BY <2>1
    <2>7. call.at.exten = <<pattern>> BY <2>1
    <2>8. route[l].gate = "none" \/ "hours" \in call.seen BY <2>4, <2>5, <2>6, <2>7 DEF PastGate
    <2> QED BY <2>4, <2>8
  <1>5. CASE /\ Here.app \in Leads /\ Jumped(call, call', Here.to)
             /\ Here.app = "GotoIf" /\ Here.test = <<"TIME", "hours">> => now = "hours"
    <2>1. /\ Here.to.ctx = Outbound /\ m \in Positions(Outbound, call'.at.exten, Here.to.label)
      BY <1>5 DEF Jumped, Led
    <2>2. Here.to.label # First BY <1>3, <2>1 DEF Positions
    <2>3. call.at.ctx = Outbound BY <1>2, <1>5, <2>1, <2>2 DEF LineFits
    <2>4. m \in DOMAIN lines /\ lines[m].label = Here.to.label BY <2>1, <2>2 DEF Positions
    <2>5. PICK other, way, far :
            /\ call.at.exten = <<other>>
            /\ Shaped(Company, other, Lines(Outbound, call.at.exten), way, far)
      BY <1>2, <2>3, ChainOf
    <2>6. Here \in GateLines(way[l]) \/ Here \in TrunkPart(way[l])
      <3>1. Here = Lines(Outbound, call.at.exten)[l] BY <2>3 DEF Here
      <3>2. Here.app # "NoOp" BY <1>5 DEF Leads
      <3> QED BY <1>2, <2>3, <2>5, <3>1, <3>2 DEF Shaped
    <2>7. way[l].pattern = other BY <1>2, <2>3, <2>5 DEF Shaped
    <2>8. Here.to.ctx # Failover BY <2>1 DEF Outbound, Failover
    <2>9. Here.to.exten = call.at.exten
      BY <1>5, <2>5, <2>6, <2>7, <2>8 DEF GateLines, TrunkPart, InChain
    <2>10. call'.at.exten = call.at.exten BY <1>5, <2>1, <2>3, <2>9 DEF Jumped
    <2>11. l \in 1 .. Len(lines) /\ lines[l] = Here BY <1>2, <2>3, <2>10 DEF Here
    <2> HIDE DEF lines, l, m
    <2>12. Shaped(Company, pattern, lines, route, behind) BY DEF lines
    <2>13. m \in behind BY DEF m
    <2>14. /\ route[m] = route[l]
           /\ l \notin behind => \/ route[l].gate = "none"
                                 \/ Here.app = "GotoIf" /\ Here.test = <<"TIME", "hours">>
      BY <1>5, <2>4, <2>8, <2>11, <2>12, <2>13, LedBehind
    <2>15. CASE l \in behind
      <3>1. PastGate(call.at, call.seen) BY <1>1, <2>3 DEF Gated
      <3>2. route[l].gate = "none" \/ "hours" \in call.seen
        BY <2>3, <2>10, <2>12, <2>15, <3>1 DEF PastGate, lines, l
      <3> QED BY <2>14, <3>2 DEF m
    <2>16. CASE l \notin behind
      <3>1. now = "hours" => "hours" \in call.seen BY <1>2
      <3> QED BY <1>5, <2>14, <2>16, <3>1 DEF m
    <2> QED BY <2>15, <2>16
  <1> QED BY <1>1, <1>4, <1>5 DEF Onward

LEMMA StepGated ==
  ASSUME Typed, Apart(Company), Gated, Step
  PROVE  Gated'
  <1>1. /\ call.at # Ended /\ UNCHANGED <<loaded, now, ticks, reloads>>
        /\ call' \in CallRecord /\ SameCall(call, call') /\ call \in CallRecord
        /\ call'.tried = call.tried \/ (Present /\ Tries(call, call'))
    BY StepIs DEF Typed
  <1>2. Company' = Company /\ Plans' = Plans BY <1>1 DEF Company, Plans
  <1> SUFFICES ASSUME call'.steady
               PROVE  /\ call'.at # Ended /\ call'.at.ctx = Outbound => PastGate(call.at, call.seen)'
                      /\ \A i \in DOMAIN call'.tried : \E r \in ToSet(Company.outbound) :
                           /\ \E k \in DOMAIN r.trunks : call'.tried[i].who = {r.trunks[k].name}
                           /\ r.gate = "none" \/ "hours" \in call'.tried[i].seen
    BY <1>2 DEF Gated
  <1>3. call.steady /\ call'.seen = call.seen BY <1>1 DEF SameCall
  <1>4. ASSUME call'.at # Ended, call'.at.ctx = Outbound PROVE PastGate(call.at, call.seen)'
    <2> SUFFICES ASSUME NEW pattern, NEW route, NEW behind,
                        call'.at.exten = <<pattern>>, call'.at.line \in behind,
                        Shaped(Company', pattern, Plans'[loaded'][<<call'.at.ctx, call'.at.exten>>],
                               route, behind)
                 PROVE  route[call'.at.line].gate = "none" \/ "hours" \in call'.seen
      BY DEF PastGate, Lines
    <2>1. Shaped(Company, pattern, Lines(Outbound, call'.at.exten), route, behind)
      BY <1>1, <1>2, <1>4 DEF Lines
    <2> QED BY <1>3, <1>4, <2>1, StepPastGate
  <1>5. ASSUME Present, Here.app = "Dial", call.at.ctx = Outbound
        PROVE  \E r \in ToSet(Company.outbound) :
                 /\ \E k \in DOMAIN r.trunks : Here.who = {r.trunks[k].name}
                 /\ r.gate = "none" \/ "hours" \in call.seen
    <2> DEFINE l == call.at.line
    <2>1. /\ <<Outbound, call.at.exten>> \in DOMAIN Plans[loaded]
          /\ l \in 1 .. Len(Lines(Outbound, call.at.exten))
      BY <1>5, HereIs
    <2>2. PICK pattern, route, behind :
            /\ call.at.exten = <<pattern>>
            /\ Shaped(Company, pattern, Lines(Outbound, call.at.exten), route, behind)
      BY <2>1, ChainOf
    <2>3. Here = Lines(Outbound, call.at.exten)[l] BY <1>5 DEF Here
    <2>4. l \in behind BY <1>5, <2>1, <2>2, <2>3 DEF Shaped, GateLines, GateLine
    <2>5. route[l] \in ToSet(Company.outbound) /\ Here \in TrunkPart(route[l])
      BY <1>5, <2>1, <2>2, <2>3, <2>4 DEF Shaped
    <2>6. \E k \in DOMAIN route[l].trunks : Here.who = {route[l].trunks[k].name}
      BY <1>5, <2>5 DEF TrunkPart, TrunkLine
    <2>7. PastGate(call.at, call.seen) BY <1>1, <1>3, <1>5 DEF Gated
    <2>8. route[l].gate = "none" \/ "hours" \in call.seen
      BY <1>5, <2>2, <2>4, <2>7 DEF PastGate
    <2> QED BY <2>5, <2>6, <2>8
  <1>6. ASSUME NEW i \in DOMAIN call'.tried
        PROVE  \E r \in ToSet(Company.outbound) :
                 /\ \E k \in DOMAIN r.trunks : call'.tried[i].who = {r.trunks[k].name}
                 /\ r.gate = "none" \/ "hours" \in call'.tried[i].seen
    <2>1. CASE call'.tried = call.tried BY <1>3, <2>1 DEF Gated
    <2>2. CASE call'.tried # call.tried
      <3> DEFINE more == [who |-> Here.who, seen |-> call.seen]
      <3>1. /\ Present /\ Here.app = "Dial" /\ call.at.ctx = Outbound
            /\ call'.tried = Append(call.tried, more)
        BY <1>1, <2>2 DEF Tries
      <3>2. call.tried \in Seq(Tried) BY <1>1 DEF CallRecord
      <3>3. more.who = Here.who /\ more.seen = call.seen OBVIOUS
      <3> HIDE DEF more
      <3>4. \/ i \in DOMAIN call.tried /\ call'.tried[i] = call.tried[i]
            \/ call'.tried[i] = more
        BY <3>1, <3>2
      <3>5. CASE i \in DOMAIN call.tried /\ call'.tried[i] = call.tried[i] BY <1>3, <3>5 DEF Gated
      <3>6. CASE call'.tried[i] = more BY <1>5, <3>1, <3>3, <3>6
      <3> QED BY <3>4, <3>5, <3>6
    <2> QED BY <2>1, <2>2
  <1> QED BY <1>4, <1>6

LEMMA BeginsGated ==
  ASSUME Typed, DialInside \/ ClickToCall \/ CallIn
  PROVE  Gated'
  <1>1. PICK entry \in {"inside", "click", "trunk"}, number \in Text, cid \in Text, ctx \in Seq(Text) :
          Begin(NewCall(entry, number, cid), ctx)
    BY NumbersAreText, StringsAreText DEF DialInside, ClickToCall, CallIn
  <1>2. call'.tried = << >> /\ (call'.at # Ended => call'.at.line = 1) BY <1>1, BeginIs
  <1>3. call'.at # Ended => PastGate(call.at, call.seen)' BY <1>2 DEF PastGate, Shaped
  <1> QED BY <1>2, <1>3 DEF Gated

LEMMA NextGated ==
  ASSUME \A c \in DOMAIN Companies : Apart(Companies[c]), Typed, Gated, [Next]_vars
  PROVE  Gated'
  <1>0. Apart(Company) BY DEF Typed, Company
  <1>1. CASE DialInside \/ ClickToCall \/ CallIn BY <1>1, BeginsGated
  <1>2. CASE Step BY <1>0, <1>2, StepGated
  <1>3. CASE HangUp
    <2>1. /\ UNCHANGED <<loaded, now, ticks, reloads>> /\ SameCall(call, call')
          /\ call'.at = Ended /\ call'.tried = call.tried
      BY <1>3, HangUpIs
    <2> QED BY <2>1 DEF Gated, SameCall, Company
  <1>4. CASE Tick
    <2>1. /\ UNCHANGED <<loaded, reloads>> /\ call'.at = call.at /\ call'.steady = call.steady
          /\ call'.tried = call.tried /\ call'.seen = call.seen \union {now'}
      BY <1>4, TickIs
    <2>2. Company' = Company /\ Plans' = Plans BY <2>1 DEF Company, Plans
    <2>3. PastGate(call.at, call.seen) => PastGate(call.at, call.seen)'
      BY <2>1, <2>2 DEF PastGate, Lines
    <2> QED BY <2>1, <2>2, <2>3 DEF Gated
  <1>5. CASE Reload
    <2>1. ~ call'.steady BY <1>5, ReloadIs
    <2> QED BY <2>1 DEF Gated
  <1>6. CASE UNCHANGED vars
    <2>1. UNCHANGED <<call, loaded>> BY <1>6 DEF vars
    <2>2. Company' = Company /\ Plans' = Plans BY <2>1 DEF Company, Plans
    <2> QED BY <2>1, <2>2 DEF Gated, PastGate, Lines
  <1> QED BY <1>1, <1>2, <1>3, <1>4, <1>5, <1>6 DEF Next

\* A trunk of a route with a gate is tried only by calls that were there in the
\* hours of the gate, as long as the routes of a pattern have sequence numbers of
\* their own: then no two of them share a label, and whatever leads behind a gate
\* passes it.  Routes left at the default number do not (the run dialplan_chain).
THEOREM GatesHold ==
  ASSUME \A c \in DOMAIN Companies : Apart(Companies[c])
  PROVE  Spec => []GateHolds
  <1>1. Init => Gated
    <2> SUFFICES ASSUME Init PROVE Gated OBVIOUS
    <2> QED BY NoCallIs DEF Init, Gated
  <1>2. Typed /\ Gated /\ [Next]_vars => Gated' BY NextGated
  <1>3. Gated => GateHolds BY DEF Gated, GateHolds
  <1>4. Spec => [](Typed /\ Gated) BY <1>1, <1>2, InitTyped, NextTyped, PTL DEF Spec
  <1> QED BY <1>3, <1>4, PTL

-----------------------------------------------------------------------------
(* Which sections a company has, and which lines a key of them.            *)

\* The sections of each kind.
Origin(c, s) ==
  \/ \E e \in ToSet(c.exts) : s \in ToSet(InternalEntry(e)) \union ToSet(ExtSections(e))
  \/ \E q \in ToSet(c.queues) : s \in ToSet(QueueEntry(q)) \union ToSet(QueueSections(q))
  \/ \E t \in ToSet(c.times) : s \in ToSet(TimeSections(t))
  \/ s \in ToSet(OperatorEntry(c)) \union ToSet(OutboundEntry(c))
  \/ s \in ToSet(Section(Internal, <<"_X.">>, NoService))
  \/ s \in ToSet(InboundSections(c)) \union ToSet(OutboundSections(c))

LEMMA ConcatHolds ==
  ASSUME NEW S, NEW p \in Seq(S), NEW q \in Seq(S)
  PROVE  ToSet(p \o q) = ToSet(p) \union ToSet(q)
  <1>1. /\ DOMAIN p = 1 .. Len(p) /\ DOMAIN q = 1 .. Len(q)
        /\ Len(p) \in Nat /\ Len(q) \in Nat
        /\ DOMAIN (p \o q) = 1 .. Len(p) + Len(q)
        /\ \A i \in 1 .. Len(p) + Len(q) :
             (p \o q)[i] = IF i <= Len(p) THEN p[i] ELSE q[i - Len(p)]
    BY ConcatProperties, LenProperties
  <1>2. ASSUME NEW i \in 1 .. Len(p) + Len(q)
        PROVE  (p \o q)[i] \in ToSet(p) \union ToSet(q)
    <2>1. CASE i <= Len(p)
      <3>1. i \in DOMAIN p BY <1>1, <2>1
      <3> QED BY <1>1, <2>1, <3>1 DEF ToSet
    <2>2. CASE ~ i <= Len(p)
      <3>1. i - Len(p) \in DOMAIN q BY <1>1, <2>2
      <3> QED BY <1>1, <2>2, <3>1 DEF ToSet
    <2> QED BY <2>1, <2>2
  <1>3. ToSet(p \o q) \subseteq ToSet(p) \union ToSet(q)
    <2>1. ToSet(p \o q) = {(p \o q)[i] : i \in 1 .. Len(p) + Len(q)} BY <1>1 DEF ToSet
    <2> QED BY <1>2, <2>1
  <1> QED BY <1>3, ConcatKeeps

LEMMA FlattenHolds ==
  ASSUME NEW S, NEW seqs \in Seq(Seq(S))
  PROVE  \A x : x \in ToSet(FlattenSeq(seqs)) <=> \E i \in DOMAIN seqs : x \in ToSet(seqs[i])
  <1> DEFINE flat == FlattenSeq(seqs)
  <1>1. DOMAIN seqs = 1 .. Len(seqs) /\ flat \in Seq(S) /\ DOMAIN flat = 1 .. Len(flat)
    BY FlattenIs, LenProperties
  <1>2. PICK of, off : Unflattened(flat, seqs, of, off) BY FlattenFrom
  <1> HIDE DEF flat
  <1>3. ASSUME NEW k \in 1 .. Len(flat)
        PROVE  of[k] \in DOMAIN seqs /\ flat[k] \in ToSet(seqs[of[k]])
    <2>1. /\ of[k] \in 1 .. Len(seqs) /\ off[k] \in 1 .. Len(seqs[of[k]])
          /\ flat[k] = seqs[of[k]][off[k]]
      BY <1>2 DEF Unflattened
    <2>2. seqs[of[k]] \in Seq(S) BY <2>1, ElementOfSeq
    <2>3. off[k] \in DOMAIN seqs[of[k]] BY <2>1, <2>2, LenProperties
    <2> QED BY <1>1, <2>1, <2>3 DEF ToSet
  <1>4. \A x \in ToSet(flat) : \E i \in DOMAIN seqs : x \in ToSet(seqs[i])
    BY <1>1, <1>3 DEF ToSet
  <1>5. \A i \in DOMAIN seqs : ToSet(seqs[i]) \subseteq ToSet(flat)
    BY <1>1, FlattenKeeps DEF flat
  <1> QED BY <1>4, <1>5 DEF flat

\* The sections that are made of the records of one kind.
LEMMA EachHolds ==
  ASSUME NEW S, NEW R, NEW s \in Seq(R), NEW f, f = [i \in DOMAIN s |-> f[i]],
         \A i \in DOMAIN s : f[i] \in Seq(S)
  PROVE  \A x : x \in ToSet(FlattenSeq(f)) <=> \E i \in DOMAIN s : x \in ToSet(f[i])
  <1>1. Len(s) \in Nat /\ DOMAIN s = 1 .. Len(s) BY LenProperties
  <1>2. f \in Seq(Seq(S)) /\ DOMAIN f = DOMAIN s
    <2>1. f \in [1 .. Len(s) -> Seq(S)] BY <1>1
    <2> QED BY <1>1, <2>1, SequenceOf
  <1> QED BY <1>2, FlattenHolds

LEMMA SectionFrom ==
  ASSUME NEW c \in CompanyRecord
  PROVE  \A s : s \in ToSet(Sections(c)) <=> Origin(c, s)
  <1> DEFINE M == Made(c)
             entries == [i \in DOMAIN c.exts |-> InternalEntry(c.exts[i])]
             numbers == [i \in DOMAIN c.queues |-> QueueEntry(c.queues[i])]
             groups == [i \in DOMAIN c.exts |-> ExtSections(c.exts[i])]
             queues == [i \in DOMAIN c.queues |-> QueueSections(c.queues[i])]
             times == [i \in DOMAIN c.times |-> TimeSections(c.times[i])]
             any == Section(Internal, <<"_X.">>, NoService)
  <1>1. PartsAre(c, Seq(M)) BY PartsAreMade DEF M
  <1>2. /\ FlattenSeq(entries) \in Seq(M) /\ FlattenSeq(numbers) \in Seq(M)
        /\ OperatorEntry(c) \in Seq(M) /\ OutboundEntry(c) \in Seq(M) /\ any \in Seq(M)
        /\ FlattenSeq(groups) \in Seq(M) /\ InboundSections(c) \in Seq(M)
        /\ OutboundSections(c) \in Seq(M) /\ FlattenSeq(queues) \in Seq(M)
        /\ FlattenSeq(times) \in Seq(M)
    BY <1>1 DEF PartsAre
  <1>4. /\ c.exts \in Seq(ExtRecord) /\ c.queues \in Seq(QueueRecord) /\ c.times \in Seq(TimeRecord)
        /\ \A i \in DOMAIN c.exts : c.exts[i] \in ExtRecord
        /\ \A i \in DOMAIN c.queues : c.queues[i] \in QueueRecord /\ c.queues[i] \in ToSet(c.queues)
        /\ \A i \in DOMAIN c.times : c.times[i] \in TimeRecord
    <2>1. c.exts \in Seq(ExtRecord) /\ c.queues \in Seq(QueueRecord) /\ c.times \in Seq(TimeRecord)
      BY DEF CompanyRecord
    <2> QED BY <2>1, LenProperties, ElementOfSeq DEF ToSet
  <1> HIDE DEF M
  <1>5. \A x : /\ x \in ToSet(FlattenSeq(entries)) <=>
                    \E i \in DOMAIN c.exts : x \in ToSet(InternalEntry(c.exts[i]))
               /\ x \in ToSet(FlattenSeq(groups)) <=>
                    \E i \in DOMAIN c.exts : x \in ToSet(ExtSections(c.exts[i]))
    <2>1. /\ entries = [i \in DOMAIN c.exts |-> entries[i]]
          /\ groups = [i \in DOMAIN c.exts |-> groups[i]]
      OBVIOUS
    <2>2. \A i \in DOMAIN c.exts : entries[i] \in Seq(M) /\ groups[i] \in Seq(M)
      BY <1>4, ExtSectionsAre DEF M
    <2>3. \A i \in DOMAIN c.exts : /\ entries[i] = InternalEntry(c.exts[i])
                                   /\ groups[i] = ExtSections(c.exts[i])
      OBVIOUS
    <2> HIDE DEF entries, groups
    <2>4. \A x : /\ x \in ToSet(FlattenSeq(entries)) <=> \E i \in DOMAIN c.exts : x \in ToSet(entries[i])
                 /\ x \in ToSet(FlattenSeq(groups)) <=> \E i \in DOMAIN c.exts : x \in ToSet(groups[i])
      BY <1>4, <2>1, <2>2, EachHolds
    <2> QED BY <2>3, <2>4
  <1>6. \A x : /\ x \in ToSet(FlattenSeq(numbers)) <=>
                    \E i \in DOMAIN c.queues : x \in ToSet(QueueEntry(c.queues[i]))
               /\ x \in ToSet(FlattenSeq(queues)) <=>
                    \E i \in DOMAIN c.queues : x \in ToSet(QueueSections(c.queues[i]))
    <2>1. /\ numbers = [i \in DOMAIN c.queues |-> numbers[i]]
          /\ queues = [i \in DOMAIN c.queues |-> queues[i]]
      OBVIOUS
    <2>2. \A i \in DOMAIN c.queues : numbers[i] \in Seq(M) /\ queues[i] \in Seq(M)
      BY <1>4, QueueSectionsAre DEF M
    <2>3. \A i \in DOMAIN c.queues : /\ numbers[i] = QueueEntry(c.queues[i])
                                     /\ queues[i] = QueueSections(c.queues[i])
      OBVIOUS
    <2> HIDE DEF numbers, queues
    <2>4. \A x : /\ x \in ToSet(FlattenSeq(numbers)) <=> \E i \in DOMAIN c.queues : x \in ToSet(numbers[i])
                 /\ x \in ToSet(FlattenSeq(queues)) <=> \E i \in DOMAIN c.queues : x \in ToSet(queues[i])
      BY <1>4, <2>1, <2>2, EachHolds
    <2> QED BY <2>3, <2>4
  <1>7. \A x : x \in ToSet(FlattenSeq(times)) <=>
                 \E i \in DOMAIN c.times : x \in ToSet(TimeSections(c.times[i]))
    <2>1. times = [i \in DOMAIN c.times |-> times[i]] OBVIOUS
    <2>2. \A i \in DOMAIN c.times : times[i] \in Seq(M) BY <1>4, TimeSectionsAre DEF M
    <2>3. \A i \in DOMAIN c.times : times[i] = TimeSections(c.times[i]) OBVIOUS
    <2> HIDE DEF times
    <2>4. \A x : x \in ToSet(FlattenSeq(times)) <=> \E i \in DOMAIN c.times : x \in ToSet(times[i])
      BY <1>4, <2>1, <2>2, EachHolds
    <2> QED BY <2>3, <2>4
  <1> DEFINE E == FlattenSeq(entries)
             N == FlattenSeq(numbers)
             G == FlattenSeq(groups)
             Q == FlattenSeq(queues)
             T == FlattenSeq(times)
             O == OperatorEntry(c)
             W == OutboundEntry(c)
             I == InboundSections(c)
             F == OutboundSections(c)
             p1 == E \o N
             p2 == p1 \o O
             p3 == p2 \o W
             p4 == p3 \o any
             p5 == p4 \o G
             p6 == p5 \o I
             p7 == p6 \o F
             p8 == p7 \o Q
             all == p8 \o T
  <1>8. /\ E \in Seq(M) /\ N \in Seq(M) /\ O \in Seq(M) /\ W \in Seq(M) /\ any \in Seq(M)
        /\ G \in Seq(M) /\ I \in Seq(M) /\ F \in Seq(M) /\ Q \in Seq(M) /\ T \in Seq(M)
    BY <1>2
  <1>3. Sections(c) = all BY DEF Sections, Each
  <1> HIDE DEF entries, numbers, groups, queues, times, any, E, N, G, Q, T, O, W, I, F
  <1>9. p1 \in Seq(M) /\ ToSet(p1) = ToSet(E) \union ToSet(N) BY <1>8, Concat, ConcatHolds
  <1> HIDE DEF p1
  <1>10. p2 \in Seq(M) /\ ToSet(p2) = ToSet(p1) \union ToSet(O) BY <1>8, <1>9, Concat, ConcatHolds
  <1> HIDE DEF p2
  <1>11. p3 \in Seq(M) /\ ToSet(p3) = ToSet(p2) \union ToSet(W) BY <1>8, <1>10, Concat, ConcatHolds
  <1> HIDE DEF p3
  <1>12. p4 \in Seq(M) /\ ToSet(p4) = ToSet(p3) \union ToSet(any) BY <1>8, <1>11, Concat, ConcatHolds
  <1> HIDE DEF p4
  <1>13. p5 \in Seq(M) /\ ToSet(p5) = ToSet(p4) \union ToSet(G) BY <1>8, <1>12, Concat, ConcatHolds
  <1> HIDE DEF p5
  <1>14. p6 \in Seq(M) /\ ToSet(p6) = ToSet(p5) \union ToSet(I) BY <1>8, <1>13, Concat, ConcatHolds
  <1> HIDE DEF p6
  <1>15. p7 \in Seq(M) /\ ToSet(p7) = ToSet(p6) \union ToSet(F) BY <1>8, <1>14, Concat, ConcatHolds
  <1> HIDE DEF p7
  <1>16. p8 \in Seq(M) /\ ToSet(p8) = ToSet(p7) \union ToSet(Q) BY <1>8, <1>15, Concat, ConcatHolds
  <1> HIDE DEF p8
  <1>17. ToSet(all) = ToSet(p8) \union ToSet(T) BY <1>8, <1>16, ConcatHolds
  <1>18. SUFFICES ASSUME NEW s PROVE s \in ToSet(all) <=> Origin(c, s) BY <1>3
  <1> HIDE DEF all
  <1>19. /\ \A x : x \in ToSet(c.exts) <=> \E i \in DOMAIN c.exts : x = c.exts[i]
         /\ \A x : x \in ToSet(c.queues) <=> \E i \in DOMAIN c.queues : x = c.queues[i]
         /\ \A x : x \in ToSet(c.times) <=> \E i \in DOMAIN c.times : x = c.times[i]
    BY DEF ToSet
  <1>20. (\E e \in ToSet(c.exts) : s \in ToSet(InternalEntry(e)) \union ToSet(ExtSections(e)))
           <=> s \in ToSet(E) \union ToSet(G)
    BY <1>5, <1>19 DEF E, G
  <1>21. (\E x \in ToSet(c.queues) : s \in ToSet(QueueEntry(x)) \union ToSet(QueueSections(x)))
           <=> s \in ToSet(N) \union ToSet(Q)
    BY <1>6, <1>19 DEF N, Q
  <1>22. (\E t \in ToSet(c.times) : s \in ToSet(TimeSections(t))) <=> s \in ToSet(T)
    BY <1>7, <1>19 DEF T
  <1>23. s \in ToSet(all) <=> \/ s \in ToSet(E) \union ToSet(G) \/ s \in ToSet(N) \union ToSet(Q)
                              \/ s \in ToSet(T) \/ s \in ToSet(O) \union ToSet(W)
                              \/ s \in ToSet(any) \/ s \in ToSet(I) \union ToSet(F)
    BY <1>9, <1>10, <1>11, <1>12, <1>13, <1>14, <1>15, <1>16, <1>17
  <1> QED BY <1>20, <1>21, <1>22, <1>23, Zenon DEF Origin, any, O, W, I, F

\* A key whose sections all have the same lines has those.
LEMMA PlanOfSame ==
  ASSUME NEW c \in CompanyRecord, NEW ctx, NEW exten, <<ctx, exten>> \in DOMAIN Plan(c),
         NEW lines \in Seq(LineRecord),
         \A s \in ToSet(Sections(c)) : s.ctx = ctx /\ s.exten = exten => s.lines = lines
  PROVE  Plan(c)[<<ctx, exten>>] = lines
  <1> DEFINE secs == Sections(c)
             n == Len(secs)
             key == <<ctx, exten>>
             made == Plan(c)[key]
  <1>1. secs \in Seq(SectionRecord) /\ DOMAIN secs = 1 .. n
    <2>1. Made(c) \subseteq SectionRecord BY DEF Made
    <2> QED BY <2>1, SectionsAre, SeqMonotonic, LenProperties
  <1>2. Plan(c) = Loaded(secs) BY DEF Plan
  <1>3. \A i \in 1 .. n : <<secs[i].ctx, secs[i].exten>> = key => secs[i].lines = lines
    BY <1>1 DEF ToSet
  <1> HIDE DEF secs
  <1>4. Merged(made, secs, n, key) /\ \E i \in 1 .. n : <<secs[i].ctx, secs[i].exten>> = key
    BY <1>1, <1>2, LoadedIs
  <1> HIDE DEF made, key, n
  <1>5. made \in Seq(LineRecord) /\ Len(made) \in Nat /\ Len(lines) \in Nat
    BY <1>4, LenProperties DEF Merged
  <1>6. Len(made) = Len(lines)
    <2>1. Len(lines) <= Len(made) BY <1>3, <1>4 DEF Merged
    <2>2. CASE Len(made) = 0 BY <1>5, <2>1, <2>2
    <2>3. CASE Len(made) # 0
      <3>1. Len(made) \in 1 .. Len(made) BY <1>5, <2>3
      <3>2. PICK j \in 1 .. n : /\ <<secs[j].ctx, secs[j].exten>> = key
                                /\ Len(made) \in 1 .. Len(secs[j].lines)
        BY <1>4, <3>1 DEF Merged
      <3> QED BY <1>3, <1>5, <2>1, <3>2
    <2> QED BY <2>2, <2>3
  <1>7. \A k \in 1 .. Len(made) : made[k] = lines[k] BY <1>3, <1>4 DEF Merged
  <1>8. made = lines BY <1>5, <1>6, <1>7, SeqEqual
  <1> QED BY <1>8 DEF made, key

\* A key comes from a section.
LEMMA KeyFrom ==
  ASSUME NEW c \in CompanyRecord, NEW ctx, NEW exten
  PROVE  <<ctx, exten>> \in DOMAIN Plan(c) <=>
           \E s \in ToSet(Sections(c)) : s.ctx = ctx /\ s.exten = exten
  BY DEF Plan, Loaded

LEMMA OneSection ==
  ASSUME NEW ctx, NEW exten, NEW lines
  PROVE  \A s : s \in ToSet(Section(ctx, exten, lines)) =>
                  s.ctx = ctx /\ s.exten = exten /\ s.lines = lines
  BY DEF Section, ToSet

LEMMA NoSection == ToSet(<< >>) = {}
  BY DEF ToSet

LEMMA InboundHolds ==
  ASSUME NEW c \in CompanyRecord
  PROVE  \A s : s \in ToSet(InboundSections(c)) <=>
           /\ c.inbound # << >>
           /\ \/ \E i \in DOMAIN c.inbound : s \in ToSet(InboundGroup(c.inbound, i))
              \/ s \in ToSet(InboundFallback(c.inbound))
              \/ \E a \in ToSet(c.accounts) : s \in ToSet(AccountEntry(a))
  <1> DEFINE M == Made(c)
             groups == [i \in DOMAIN c.inbound |-> InboundGroup(c.inbound, i)]
             accounts == [i \in DOMAIN c.accounts |-> AccountEntry(c.accounts[i])]
             G == FlattenSeq(groups)
             F == InboundFallback(c.inbound)
             A == FlattenSeq(accounts)
  <1>1. /\ c.inbound \in Seq(InboundRecord) /\ c.accounts \in Seq(AccountRecord)
        /\ \A i \in DOMAIN c.accounts : c.accounts[i] \in AccountRecord
        /\ Len(c.inbound) \in Nat /\ DOMAIN c.inbound = 1 .. Len(c.inbound)
        /\ Len(c.accounts) \in Nat /\ DOMAIN c.accounts = 1 .. Len(c.accounts)
    BY LenProperties, ElementOfSeq DEF CompanyRecord
  <1>2. F \in Seq(M) BY InboundSectionsAre
  <1>3. /\ G \in Seq(M)
        /\ \A x : x \in ToSet(G) <=> \E i \in DOMAIN c.inbound : x \in ToSet(InboundGroup(c.inbound, i))
    <2>1. groups = [i \in DOMAIN c.inbound |-> groups[i]] OBVIOUS
    <2>2. \A i \in DOMAIN c.inbound : groups[i] \in Seq(M) BY InboundSectionsAre
    <2>3. \A i \in DOMAIN c.inbound : groups[i] = InboundGroup(c.inbound, i) OBVIOUS
    <2> HIDE DEF groups, M
    <2>4. \A x : x \in ToSet(FlattenSeq(groups)) <=> \E i \in DOMAIN c.inbound : x \in ToSet(groups[i])
      BY <1>1, <2>1, <2>2, EachHolds
    <2>5. FlattenSeq(groups) \in Seq(M) BY <1>1, <2>1, <2>2, EachIs
    <2> QED BY <2>3, <2>4, <2>5
  <1>4. /\ A \in Seq(M)
        /\ \A x : x \in ToSet(A) <=> \E i \in DOMAIN c.accounts : x \in ToSet(AccountEntry(c.accounts[i]))
    <2>1. accounts = [i \in DOMAIN c.accounts |-> accounts[i]] OBVIOUS
    <2>2. \A i \in DOMAIN c.accounts : accounts[i] \in Seq(M) BY <1>1, InboundSectionsAre
    <2>3. \A i \in DOMAIN c.accounts : accounts[i] = AccountEntry(c.accounts[i]) OBVIOUS
    <2> HIDE DEF accounts, M
    <2>4. \A x : x \in ToSet(FlattenSeq(accounts)) <=> \E i \in DOMAIN c.accounts : x \in ToSet(accounts[i])
      BY <1>1, <2>1, <2>2, EachHolds
    <2>5. FlattenSeq(accounts) \in Seq(M) BY <1>1, <2>1, <2>2, EachIs
    <2> QED BY <2>3, <2>4, <2>5
  <1>5. InboundSections(c) = IF c.inbound = << >> THEN << >> ELSE G \o F \o A
    BY DEF InboundSections, Each
  <1>6. \A x : x \in ToSet(c.accounts) <=> \E i \in DOMAIN c.accounts : x = c.accounts[i]
    BY DEF ToSet
  <1> DEFINE p == G \o F
             all == p \o A
  <1>7. InboundSections(c) = IF c.inbound = << >> THEN << >> ELSE all BY <1>5
  <1> HIDE DEF M, groups, accounts, G, F, A
  <1>8. p \in Seq(M) /\ ToSet(p) = ToSet(G) \union ToSet(F) BY <1>2, <1>3, Concat, ConcatHolds
  <1> HIDE DEF p
  <1>9. ToSet(all) = ToSet(p) \union ToSet(A) BY <1>4, <1>8, ConcatHolds
  <1> HIDE DEF all
  <1>10. CASE c.inbound = << >> BY <1>7, <1>10, NoSection
  <1>11. CASE c.inbound # << >>
    <2>1. ToSet(InboundSections(c)) = ToSet(G) \union ToSet(F) \union ToSet(A)
      BY <1>7, <1>8, <1>9, <1>11
    <2> QED BY <1>3, <1>4, <1>6, <1>11, <2>1 DEF F
  <1> QED BY <1>10, <1>11

LEMMA OutboundHolds ==
  ASSUME NEW c \in CompanyRecord
  PROVE  \A s : s \in ToSet(OutboundSections(c)) <=>
           /\ c.outbound # << >>
           /\ \/ \E i \in DOMAIN c.outbound : s \in ToSet(OutboundChain(c.outbound, i))
              \/ s \in ToSet(Section(Failover, <<"failover">>, <<Line, OutboundFailover(c.outbound)>>))
              \/ s \in ToSet(Section(Failover, <<"hangup">>, <<Hangup>>))
  <1> DEFINE M == Made(c)
             chains == [i \in DOMAIN c.outbound |-> OutboundChain(c.outbound, i)]
             C == FlattenSeq(chains)
             F == Section(Failover, <<"failover">>, <<Line, OutboundFailover(c.outbound)>>)
             H == Section(Failover, <<"hangup">>, <<Hangup>>)
  <1>1. /\ c.outbound \in Seq(OutboundRecord)
        /\ Len(c.outbound) \in Nat /\ DOMAIN c.outbound = 1 .. Len(c.outbound)
    BY LenProperties DEF CompanyRecord
  <1>2. (c.outbound # << >> => F \in Seq(M)) /\ H \in Seq(M) BY OutboundSectionsAre
  <1>3. /\ C \in Seq(M)
        /\ \A x : x \in ToSet(C) <=> \E i \in DOMAIN c.outbound : x \in ToSet(OutboundChain(c.outbound, i))
    <2>1. chains = [i \in DOMAIN c.outbound |-> chains[i]] OBVIOUS
    <2>2. \A i \in DOMAIN c.outbound : chains[i] \in Seq(M) BY OutboundSectionsAre
    <2>3. \A i \in DOMAIN c.outbound : chains[i] = OutboundChain(c.outbound, i) OBVIOUS
    <2> HIDE DEF chains, M
    <2>4. \A x : x \in ToSet(FlattenSeq(chains)) <=> \E i \in DOMAIN c.outbound : x \in ToSet(chains[i])
      BY <1>1, <2>1, <2>2, EachHolds
    <2>5. FlattenSeq(chains) \in Seq(M) BY <1>1, <2>1, <2>2, EachIs
    <2> QED BY <2>3, <2>4, <2>5
  <1> DEFINE p == C \o F
             all == p \o H
  <1>4. OutboundSections(c) = IF c.outbound = << >> THEN << >> ELSE all
    BY DEF OutboundSections
  <1> HIDE DEF M, chains, C, F, H
  <1>5. CASE c.outbound = << >> BY <1>4, <1>5, NoSection
  <1>6. CASE c.outbound # << >>
    <2>1. p \in Seq(M) /\ ToSet(p) = ToSet(C) \union ToSet(F)
      BY <1>2, <1>3, <1>6, Concat, ConcatHolds
    <2> HIDE DEF p
    <2>2. ToSet(all) = ToSet(p) \union ToSet(H) BY <1>2, <2>1, ConcatHolds
    <2> HIDE DEF all
    <2>3. ToSet(OutboundSections(c)) = ToSet(C) \union ToSet(F) \union ToSet(H)
      BY <1>4, <1>6, <2>1, <2>2
    <2> QED BY <1>3, <1>6, <2>3, Zenon DEF F, H
  <1> QED BY <1>5, <1>6

\* The sections of an extension and of the others, by their contexts.
RingSection(c, s) ==
  \E e \in ToSet(c.exts) :
    /\ HasRingGroup(e) /\ s.exten = Start
    /\ \/ s.ctx = Ext(e) /\ s.lines = RingGroup(e)
       \/ e.mailbox /\ s.ctx = <<"vm", e.number>> /\ s.lines = <<Run("Voicemail", {e.number})>>

LEMMA Singletons ==
  ASSUME NEW x, NEW y
  PROVE  <<x>> \in Seq({x, y}) /\ <<y>> \in Seq({x, y}) /\ ToSet(<<x>>) = {x} /\ ToSet(<<y>>) = {y}
  <1>1. ToSet(<<x>>) = {x} BY DEF ToSet
  <1>2. ToSet(<<y>>) = {y} BY DEF ToSet
  <1> QED BY <1>1, <1>2

LEMMA ExtSectionsHold ==
  ASSUME NEW c, NEW e \in ToSet(c.exts), NEW s \in ToSet(ExtSections(e))
  PROVE  RingSection(c, s)
  <1> DEFINE ring == Section(Ext(e), Start, RingGroup(e))
             box == Section(<<"vm", e.number>>, Start, <<Run("Voicemail", {e.number})>>)
             ringing == [ctx |-> Ext(e), exten |-> Start, lines |-> RingGroup(e)]
             boxed == [ctx |-> <<"vm", e.number>>, exten |-> Start,
                       lines |-> <<Run("Voicemail", {e.number})>>]
  <1>1. HasRingGroup(e) BY DEF ExtSections, ToSet
  <1>2. ExtSections(e) = ring \o (IF e.mailbox THEN box ELSE << >>) BY <1>1 DEF ExtSections
  <1>3. ring = <<ringing>> /\ box = <<boxed>> BY DEF Section
  <1>4. s = ringing \/ (e.mailbox /\ s = boxed)
    <2> HIDE DEF ring, box, ringing, boxed
    <2>1. CASE e.mailbox
      <3>1. ExtSections(e) = <<ringing>> \o <<boxed>> BY <1>2, <1>3, <2>1
      <3>2. ToSet(ExtSections(e)) = ToSet(<<ringing>>) \union ToSet(<<boxed>>)
        <4> DEFINE S == {ringing, boxed}
        <4>1. <<ringing>> \in Seq(S) /\ <<boxed>> \in Seq(S) BY Singletons
        <4> HIDE DEF S
        <4>2. ToSet(<<ringing>> \o <<boxed>>) = ToSet(<<ringing>>) \union ToSet(<<boxed>>)
          BY <4>1, ConcatHolds
        <4> QED BY <3>1, <4>2
      <3>3. ToSet(<<ringing>>) = {ringing} /\ ToSet(<<boxed>>) = {boxed} BY Singletons
      <3> QED BY <2>1, <3>2, <3>3
    <2>2. CASE ~ e.mailbox
      <3>1. ExtSections(e) = <<ringing>> \o << >> BY <1>2, <1>3, <2>2
      <3>2. ExtSections(e) = <<ringing>> BY <3>1
      <3> QED BY <3>2 DEF ToSet
    <2> QED BY <2>1, <2>2
  <1>5. ringing.ctx = Ext(e) /\ ringing.exten = Start /\ ringing.lines = RingGroup(e) OBVIOUS
  <1>6. /\ boxed.ctx = <<"vm", e.number>> /\ boxed.exten = Start
        /\ boxed.lines = <<Run("Voicemail", {e.number})>>
    OBVIOUS
  <1> HIDE DEF ringing, boxed
  <1> QED BY <1>1, <1>4, <1>5, <1>6 DEF RingSection

\* Two sections in a row, and one that may be followed by another.
LEMMA TwoSections ==
  ASSUME NEW ctx, NEW exten, NEW lines, NEW ctx2, NEW exten2, NEW lines2
  PROVE  \A s \in ToSet(Section(ctx, exten, lines) \o Section(ctx2, exten2, lines2)) :
           \/ s.ctx = ctx /\ s.exten = exten /\ s.lines = lines
           \/ s.ctx = ctx2 /\ s.exten = exten2 /\ s.lines = lines2
  <1> DEFINE one == [ctx |-> ctx, exten |-> exten, lines |-> lines]
             two == [ctx |-> ctx2, exten |-> exten2, lines |-> lines2]
  <1>1. Section(ctx, exten, lines) = <<one>> /\ Section(ctx2, exten2, lines2) = <<two>>
    BY DEF Section
  <1>2. /\ one.ctx = ctx /\ one.exten = exten /\ one.lines = lines
        /\ two.ctx = ctx2 /\ two.exten = exten2 /\ two.lines = lines2
    OBVIOUS
  <1> HIDE DEF one, two
  <1>3. ToSet(<<one>> \o <<two>>) = {one} \union {two} BY Singletons, ConcatHolds
  <1> QED BY <1>1, <1>2, <1>3

LEMMA NoMoreSections ==
  ASSUME NEW ctx, NEW exten, NEW lines
  PROVE  \A s \in ToSet(Section(ctx, exten, lines) \o << >>) :
           s.ctx = ctx /\ s.exten = exten /\ s.lines = lines
  <1> DEFINE one == [ctx |-> ctx, exten |-> exten, lines |-> lines]
  <1>1. Section(ctx, exten, lines) \o << >> = <<one>> \o << >> BY DEF Section
  <1>2. one.ctx = ctx /\ one.exten = exten /\ one.lines = lines OBVIOUS
  <1> HIDE DEF one
  <1>3. << >> \in Seq({one}) OBVIOUS
  <1>4. ToSet(<<one>> \o << >>) = {one} \union {} BY <1>3, Singletons, ConcatHolds, NoSection
  <1> QED BY <1>1, <1>2, <1>4

\* The sections of the contexts that others than extensions have.
QueueSection(c, s) ==
  \E q \in ToSet(c.queues) :
    /\ s.ctx = <<q.name>>
    /\ \/ s.exten = Start /\ s.lines = <<Run("Queue", {q.name}), Hangup>>
       \/ s.exten = <<"t">> /\ s.lines = QueueTimeout(q)

TimeSection(c, s) ==
  \E t \in ToSet(c.times) : /\ s.ctx = <<"time", t.name>> /\ s.exten = Start
                            /\ s \in ToSet(TimeSections(t))

ChainSection(c, s) ==
  \E i \in DOMAIN c.outbound :
    /\ s.ctx = Outbound /\ s.exten = <<c.outbound[i].pattern>>
    /\ s.lines = ChainLines(Chain(c.outbound, c.outbound[i].pattern))

FailoverSection(c, s) ==
  /\ s.ctx = Failover /\ c.outbound # << >>
  /\ \/ s.exten = <<"failover">> /\ s.lines = <<Line, OutboundFailover(c.outbound)>>
     \/ s.exten = <<"hangup">> /\ s.lines = <<Hangup>>

LEMMA InternalEntriesHold ==
  ASSUME NEW c
  PROVE  \A s : \/ \E e \in ToSet(c.exts) : s \in ToSet(InternalEntry(e))
                \/ \E q \in ToSet(c.queues) : s \in ToSet(QueueEntry(q))
                \/ s \in ToSet(OperatorEntry(c)) \union ToSet(OutboundEntry(c))
                \/ s \in ToSet(Section(Internal, <<"_X.">>, NoService))
                => s.ctx = Internal
  <1> SUFFICES ASSUME NEW s,
                      \/ \E e \in ToSet(c.exts) : s \in ToSet(InternalEntry(e))
                      \/ \E q \in ToSet(c.queues) : s \in ToSet(QueueEntry(q))
                      \/ s \in ToSet(OperatorEntry(c)) \union ToSet(OutboundEntry(c))
                      \/ s \in ToSet(Section(Internal, <<"_X.">>, NoService))
               PROVE  s.ctx = Internal
    OBVIOUS
  <1>1. CASE \E e \in ToSet(c.exts) : s \in ToSet(InternalEntry(e))
    BY <1>1, OneSection, NoSection DEF InternalEntry
  <1>2. CASE \E q \in ToSet(c.queues) : s \in ToSet(QueueEntry(q))
    <2>1. PICK q \in ToSet(c.queues) : s \in ToSet(QueueEntry(q)) BY <1>2
    <2> DEFINE lines == <<Goto(At(<<"queue", q.name>>, Start, First))>>
    <2>2. QueueEntry(q) = Section(Internal, <<q.number>>, lines) BY DEF QueueEntry
    <2> HIDE DEF lines
    <2> QED BY <2>1, <2>2, OneSection
  <1>3. CASE s \in ToSet(OperatorEntry(c)) BY <1>3, OneSection, NoSection DEF OperatorEntry
  <1>4. CASE s \in ToSet(OutboundEntry(c))
    <2> DEFINE zero == [ctx |-> Internal, exten |-> <<"_0.">>,
                        lines |-> <<Goto(At(Outbound, Dialled, First))>>]
               plus == [ctx |-> Internal, exten |-> <<"_+.">>,
                        lines |-> <<Goto(At(Outbound, Dialled, First))>>]
               swede == [ctx |-> Internal, exten |-> <<"_46.">>,
                         lines |-> <<Line, Goto(At(Outbound, DialledE164, First))>>]
    <2>1. OutboundEntry(c) = IF c.outbound = << >> THEN << >> ELSE <<zero>> \o <<plus>> \o <<swede>>
      BY DEF OutboundEntry, Section
    <2>2. zero.ctx = Internal /\ plus.ctx = Internal /\ swede.ctx = Internal OBVIOUS
    <2> HIDE DEF zero, plus, swede
    <2> DEFINE S == {zero, plus, swede}
    <2>3. <<zero>> \in Seq(S) /\ <<plus>> \in Seq(S) /\ <<swede>> \in Seq(S) OBVIOUS
    <2>4. ToSet(<<zero>>) \subseteq S /\ ToSet(<<plus>>) \subseteq S /\ ToSet(<<swede>>) \subseteq S
      BY Singletons
    <2> HIDE DEF S
    <2> DEFINE p == <<zero>> \o <<plus>>
    <2>5. p \in Seq(S) /\ ToSet(p) \subseteq S
      <3>1. p \in Seq(S) BY <2>3, Concat
      <3>2. ToSet(p) = ToSet(<<zero>>) \union ToSet(<<plus>>) BY <2>3, ConcatHolds
      <3> QED BY <2>4, <3>1, <3>2
    <2> HIDE DEF p
    <2>6. ToSet(p \o <<swede>>) \subseteq S
      <3>1. ToSet(p \o <<swede>>) = ToSet(p) \union ToSet(<<swede>>) BY <2>3, <2>5, ConcatHolds
      <3> QED BY <2>4, <2>5, <3>1
    <2>7. s \in S BY <1>4, <2>1, <2>6, NoSection DEF p
    <2> QED BY <2>2, <2>7 DEF S
  <1>5. CASE s \in ToSet(Section(Internal, <<"_X.">>, NoService)) BY <1>5, OneSection
  <1> QED BY <1>1, <1>2, <1>3, <1>4, <1>5

LEMMA QueueSectionsHold ==
  ASSUME NEW c, NEW q \in ToSet(c.queues), NEW s \in ToSet(QueueSections(q))
  PROVE  QueueSection(c, s)
  <1> DEFINE lines == <<Run("Queue", {q.name}), Hangup>>
             name == <<q.name>>
             over == <<"t">>
             end == QueueTimeout(q)
  <1>1. \/ QueueSections(q) = Section(name, Start, lines) \o Section(name, over, end)
        \/ QueueSections(q) = Section(name, Start, lines) \o << >>
    BY DEF QueueSections
  <1> HIDE DEF lines, name, over, end
  <1>2. s.ctx = name /\ \/ s.exten = Start /\ s.lines = lines
                        \/ s.exten = over /\ s.lines = end
    <2>1. CASE QueueSections(q) = Section(name, Start, lines) \o Section(name, over, end)
      <3>1. s \in ToSet(Section(name, Start, lines) \o Section(name, over, end)) BY <2>1
      <3> QED BY <3>1, TwoSections
    <2>2. CASE QueueSections(q) = Section(name, Start, lines) \o << >>
      <3>1. s \in ToSet(Section(name, Start, lines) \o << >>) BY <2>2
      <3> QED BY <3>1, NoMoreSections
    <2> QED BY <1>1, <2>1, <2>2
  <1> QED BY <1>2 DEF QueueSection, lines, name, over, end

LEMMA TimeSectionsHold ==
  ASSUME NEW c, NEW t \in ToSet(c.times), NEW s \in ToSet(TimeSections(t))
  PROVE  TimeSection(c, s)
  <1>1. \E lines : TimeSections(t) = Section(<<"time", t.name>>, Start, lines) BY DEF TimeSections
  <1>2. s.ctx = <<"time", t.name>> /\ s.exten = Start BY <1>1, OneSection
  <1> QED BY <1>2 DEF TimeSection

LEMMA InboundSectionsHold ==
  ASSUME NEW c \in CompanyRecord, NEW s \in ToSet(InboundSections(c))
  PROVE  s.ctx = FromTrunk
  <1>1. CASE \E i \in DOMAIN c.inbound : s \in ToSet(InboundGroup(c.inbound, i))
    BY <1>1, OneSection, NoSection DEF InboundGroup
  <1>2. CASE s \in ToSet(InboundFallback(c.inbound))
    <2>1. \/ InboundFallback(c.inbound) = << >>
          \/ InboundFallback(c.inbound) = Section(FromTrunk, Start, NoService) \o << >>
          \/ InboundFallback(c.inbound) =
               Section(FromTrunk, Start, NoService) \o Section(FromTrunk, <<"_.">>, NoService)
      BY DEF InboundFallback
    <2> DEFINE all == <<"_.">>
    <2> HIDE DEF all
    <2>2. ASSUME s \in ToSet(Section(FromTrunk, Start, NoService) \o << >>) PROVE s.ctx = FromTrunk
      BY <2>2, NoMoreSections
    <2>3. ASSUME s \in ToSet(Section(FromTrunk, Start, NoService) \o Section(FromTrunk, all, NoService))
          PROVE  s.ctx = FromTrunk
      BY <2>3, TwoSections
    <2> QED BY <1>2, <2>1, <2>2, <2>3, NoSection DEF all
  <1>3. CASE \E a \in ToSet(c.accounts) : s \in ToSet(AccountEntry(a))
    BY <1>3, OneSection DEF AccountEntry
  <1> QED BY <1>1, <1>2, <1>3, InboundHolds

LEMMA OutboundSectionsHold ==
  ASSUME NEW c \in CompanyRecord, NEW s \in ToSet(OutboundSections(c))
  PROVE  ChainSection(c, s) \/ FailoverSection(c, s)
  <1>1. ASSUME NEW i \in DOMAIN c.outbound, s \in ToSet(OutboundChain(c.outbound, i))
        PROVE  ChainSection(c, s)
    <2> DEFINE r == c.outbound[i]
               chain == Chain(c.outbound, r.pattern)
               lines == FlattenSeq([k \in DOMAIN chain |-> OutboundLines(chain, k)])
    <2>1. \/ OutboundChain(c.outbound, i) = << >>
          \/ OutboundChain(c.outbound, i) = Section(Outbound, <<r.pattern>>, lines)
      BY DEF OutboundChain
    <2>2. lines = ChainLines(chain) BY DEF ChainLines
    <2> HIDE DEF lines
    <2>3. s.ctx = Outbound /\ s.exten = <<r.pattern>> /\ s.lines = lines
      BY <1>1, <2>1, OneSection, NoSection
    <2> QED BY <2>2, <2>3 DEF ChainSection
  <1>2. CASE s \in ToSet(Section(Failover, <<"failover">>, <<Line, OutboundFailover(c.outbound)>>))
    BY <1>2, OneSection, OutboundHolds DEF FailoverSection
  <1>3. CASE s \in ToSet(Section(Failover, <<"hangup">>, <<Hangup>>))
    <2>1. s.ctx = Failover /\ s.exten = <<"hangup">> /\ s.lines = <<Hangup>> BY <1>3, OneSection
    <2>2. c.outbound # << >> BY OutboundHolds
    <2> QED BY <2>1, <2>2 DEF FailoverSection
  <1> QED BY <1>1, <1>2, <1>3, OutboundHolds

\* What a section of a company is, told by its context.
Kinds(c, s) ==
  \/ s.ctx = Internal
  \/ RingSection(c, s) \/ QueueSection(c, s) \/ TimeSection(c, s)
  \/ s.ctx = FromTrunk /\ s \in ToSet(InboundSections(c))
  \/ ChainSection(c, s) \/ FailoverSection(c, s)

LEMMA SectionKinds ==
  ASSUME NEW c \in CompanyRecord, NEW s \in ToSet(Sections(c))
  PROVE  Kinds(c, s)
  <1>1. Origin(c, s) BY SectionFrom
  <1> QED
    BY <1>1, InternalEntriesHold, ExtSectionsHold, QueueSectionsHold, TimeSectionsHold,
       InboundSectionsHold, OutboundSectionsHold DEF Origin, Kinds

\* The context of an extension is of its ring group only.
LEMMA ExtPlan ==
  ASSUME NEW c \in CompanyRecord, Distinct(c.exts), NEW e \in ToSet(c.exts), NEW exten,
         <<Ext(e), exten>> \in DOMAIN Plan(c)
  PROVE  /\ e \in ExtRecord /\ HasRingGroup(e) /\ exten = Start
         /\ Plan(c)[<<Ext(e), exten>>] = RingGroup(e)
  <1>1. e \in ExtRecord BY DEF ToSet, CompanyRecord
  <1>2. ASSUME NEW s \in ToSet(Sections(c)), s.ctx = Ext(e)
        PROVE  HasRingGroup(e) /\ s.exten = Start /\ s.lines = RingGroup(e)
    <2>1. Kinds(c, s) BY SectionKinds
    <2>2. /\ Ext(e) # Internal /\ Ext(e) # FromTrunk /\ Ext(e) # Outbound /\ Ext(e) # Failover
          /\ \A x : Ext(e) # <<x>> /\ Ext(e) # <<"vm", x>> /\ Ext(e) # <<"time", x>>
      BY DEF Ext, Internal, FromTrunk, Outbound, Failover
    <2>3. RingSection(c, s) BY <1>2, <2>1, <2>2 DEF Kinds, QueueSection, TimeSection, ChainSection, FailoverSection
    <2>4. PICK f \in ToSet(c.exts) : /\ HasRingGroup(f) /\ s.exten = Start
                                     /\ s.ctx = Ext(f) /\ s.lines = RingGroup(f)
      BY <1>2, <2>2, <2>3 DEF RingSection
    <2>5. f.number = e.number BY <1>2, <2>4 DEF Ext
    <2>6. f = e BY <2>5 DEF Distinct, ToSet
    <2> QED BY <2>4, <2>6
  <1>3. PICK s \in ToSet(Sections(c)) : s.ctx = Ext(e) /\ s.exten = exten BY KeyFrom
  <1>4. HasRingGroup(e) /\ exten = Start BY <1>2, <1>3
  <1>5. RingGroup(e) \in Seq(LineRecord)
    <2>1. RingGroup(e) \in Seq(Fitting(Ext(e), Start)) BY <1>1, <1>4, RingGroupIs DEF HasRingGroup
    <2>2. Fitting(Ext(e), Start) \subseteq LineRecord BY DEF Fitting
    <2> QED BY <2>1, <2>2, SeqMonotonic
  <1>6. Plan(c)[<<Ext(e), exten>>] = RingGroup(e) BY <1>2, <1>5, PlanOfSame
  <1> QED BY <1>1, <1>4, <1>6

-----------------------------------------------------------------------------
(* A call at an extension: the lines of a ring group.                      *)

\* Before the first device rings, and while they do.
AskLine(e, l) ==
  /\ l \in LineRecord /\ l.label = << >>
  /\ \/ l.app = "NoOp"
     \/ l.app = "GotoIf" /\ l.test[1] = "INUSE" /\ l.to = InExt(e, "busy")
     \/ e.gated /\ l.app = "GotoIf" /\ l.test[1] = "UNAVAILABLE" /\ l.to = InExt(e, "unavailable")

RingLine(e, l) ==
  /\ l \in LineRecord /\ l.label = << >>
  /\ \/ l.app = "Dial"
     \/ l.app = "GotoIf" /\ l.test = <<"DIALSTATUS", "ANSWER">> /\ l.to = InExt(e, "done")
     \/ l.app = "GotoIf" /\ l.test = <<"DIALSTATUS", "BUSY">> /\ l.to = InExt(e, "busy")

AskLines(e) == {l \in LineRecord : AskLine(e, l)}
RingLines(e) == {l \in LineRecord : RingLine(e, l)}

TailLines(e) ==
  <<FollowMe(e), Hangup, Labelled(<<"done">>, Hangup),
    Labelled(<<"busy">>, Run("Voicemail", {e.number})), Hangup>>

\* What the lines of one sequence ring.
RingsAll(lines, e) ==
  \A x : x \in ToSet(e.devices) <=> \E l \in ToSet(lines) : l.app = "Dial" /\ x \in l.who

\* The first device is rung at f; b is where the call goes when none answers.
RingShape(e, lines, f, b) ==
  /\ lines \in Seq(LineRecord) /\ f \in Nat /\ b \in Nat /\ 1 < f /\ f < b
  /\ Len(lines) = IF e.gated THEN b + 7 ELSE b + 4
  /\ \A l \in 1 .. f - 1 : AskLine(e, lines[l])
  /\ \A l \in f .. b - 1 : RingLine(e, lines[l])
  /\ lines[f].app = "Dial"
  /\ \A x : x \in ToSet(e.devices) <=>
              \E l \in f .. b - 1 : lines[l].app = "Dial" /\ x \in lines[l].who
  /\ \A k \in 1 .. 5 : lines[b + k - 1] = TailLines(e)[k]
  /\ e.gated => \A k \in 1 .. 3 : lines[b + k + 4] = Announcement(e)[k]

LEMMA AskLinesAre ==
  ASSUME NEW e \in ExtRecord
  PROVE  LET head == <<Line>> \o BusyGates(e) \o AvailabilityGates(e) IN
         head \in Seq(AskLines(e)) /\ Len(head) \in Nat \ {0}
  <1> DEFINE S == AskLines(e)
             n == Len(e.devices)
             test(i) == <<"INUSE", e.devices[i]>>
             away == <<"UNAVAILABLE">>
             first == <<Line>> \o BusyGates(e)
             head == first \o AvailabilityGates(e)
  <1>1. {"busy", "unavailable", "INUSE", "UNAVAILABLE"} \subseteq Text BY DEF Text
  <1>2. n \in Nat /\ DOMAIN e.devices = 1 .. n /\ \A i \in 1 .. n : e.devices[i] \in Text BY ExtIs
  <1>3. InExt(e, "busy") \in Place /\ InExt(e, "unavailable") \in Place BY <1>1, InExtFits
  <1>4. \A i \in 1 .. n : test(i) \in Seq(Text) /\ test(i)[1] = "INUSE" BY <1>1, <1>2
  <1>5. away \in Seq(Text) /\ away[1] = "UNAVAILABLE" BY <1>1
  <1> HIDE DEF test, away
  <1>6. Line \in S BY LineIs DEF AskLines, AskLine
  <1>7. \A i \in 1 .. n : GotoIf(test(i), InExt(e, "busy")) \in S
    BY <1>3, <1>4, GotoIfIs DEF AskLines, AskLine
  <1>8. e.gated => GotoIf(away, InExt(e, "unavailable")) \in S
    BY <1>3, <1>5, GotoIfIs DEF AskLines, AskLine
  <1> HIDE DEF S
  <1>9. BusyGates(e) \in Seq(S)
    <2>1. BusyGates(e) = [i \in 1 .. n |-> GotoIf(test(i), InExt(e, "busy"))]
      BY <1>2 DEF BusyGates, test
    <2>2. BusyGates(e) \in [1 .. n -> S] BY <1>7, <2>1
    <2> QED BY <1>2, <2>2, SequenceOf
  <1>10. AvailabilityGates(e) \in Seq(S)
    <2>1. AvailabilityGates(e) = IF e.gated THEN <<GotoIf(away, InExt(e, "unavailable"))>> ELSE << >>
      BY DEF AvailabilityGates, away
    <2> QED BY <1>8, <2>1
  <1>11. <<Line>> \in Seq(S) /\ Len(<<Line>>) = 1 BY <1>6
  <1>12. first \in Seq(S) /\ Len(first) = 1 + Len(BusyGates(e)) BY <1>9, <1>11, ConcatProperties
  <1>13. head \in Seq(S) /\ Len(head) = Len(first) + Len(AvailabilityGates(e))
    BY <1>10, <1>12, ConcatProperties
  <1>14. Len(BusyGates(e)) \in Nat /\ Len(AvailabilityGates(e)) \in Nat
    BY <1>9, <1>10, LenProperties
  <1> HIDE DEF first
  <1> DEFINE h == first \o AvailabilityGates(e)
  <1>15. h \in Seq(S) /\ Len(h) \in Nat \ {0} BY <1>12, <1>13, <1>14
  <1> QED BY <1>15 DEF first, S

LEMMA DialLinesAre ==
  ASSUME NEW e \in ExtRecord, e.devices # << >>
  PROVE  /\ DialLines(e) \in Seq(RingLines(e)) /\ Len(DialLines(e)) \in Nat \ {0}
         /\ DialLines(e)[1].app = "Dial" /\ RingsAll(DialLines(e), e)
  <1> DEFINE S == RingLines(e)
             n == Len(e.devices)
             lines == DialLines(e)
             dial(who) == Run("Dial", who)
             done == <<"DIALSTATUS", "ANSWER">>
             busy == <<"DIALSTATUS", "BUSY">>
             settled == <<GotoIf(done, InExt(e, "done")), GotoIf(busy, InExt(e, "busy"))>>
  <1>1. {"busy", "done", "DIALSTATUS", "ANSWER", "BUSY"} \subseteq Text BY DEF Text
  <1>2. n \in Nat \ {0} /\ DOMAIN e.devices = 1 .. n /\ \A i \in 1 .. n : e.devices[i] \in Text
    <2>1. e.devices \in Seq(STRING) BY DEF ExtRecord
    <2> QED BY <2>1, ExtIs, EmptySeq
  <1>3. InExt(e, "busy") \in Place /\ InExt(e, "done") \in Place BY <1>1, InExtFits
  <1>4. done \in Seq(Text) /\ busy \in Seq(Text) BY <1>1
  <1>5. \A x : x \in ToSet(e.devices) <=> \E i \in 1 .. n : x = e.devices[i] BY <1>2 DEF ToSet
  <1>6. ASSUME NEW who \in SUBSET ToSet(e.devices)
        PROVE  dial(who) \in S /\ dial(who).app = "Dial" /\ dial(who).who = who
    <2>1. "Dial" \in Apps BY DEF Apps
    <2>2. who \in SUBSET Text BY <1>2, <1>5
    <2> QED BY <2>1, <2>2, RunIs DEF RingLines, RingLine
  <1>7. /\ GotoIf(done, InExt(e, "done")) \in S /\ GotoIf(busy, InExt(e, "busy")) \in S
        /\ GotoIf(done, InExt(e, "done")).app = "GotoIf" /\ GotoIf(busy, InExt(e, "busy")).app = "GotoIf"
    <2> DEFINE d == GotoIf(done, InExt(e, "done"))
               b == GotoIf(busy, InExt(e, "busy"))
    <2>1. /\ d \in LineRecord /\ d.app = "GotoIf" /\ d.to = InExt(e, "done") /\ d.label = << >>
          /\ d.test = done
      BY <1>3, <1>4, GotoIfIs
    <2>2. /\ b \in LineRecord /\ b.app = "GotoIf" /\ b.to = InExt(e, "busy") /\ b.label = << >>
          /\ b.test = busy
      BY <1>3, <1>4, GotoIfIs
    <2> HIDE DEF d, b
    <2>3. RingLine(e, d) /\ RingLine(e, b) BY <2>1, <2>2 DEF RingLine
    <2>4. d \in S /\ b \in S BY <2>1, <2>2, <2>3 DEF RingLines
    <2> QED BY <2>1, <2>2, <2>4 DEF d, b
  <1>8. Settled(e) = settled BY DEF Settled
  <1> HIDE DEF S, dial, done, busy
  <1>9. settled \in Seq(S) /\ \A l \in ToSet(settled) : l.app # "Dial" BY <1>7 DEF ToSet
  <1> HIDE DEF settled
  <1>10. CASE e.parallel
    <2> DEFINE all == dial(ToSet(e.devices))
    <2>1. lines = <<all>> BY <1>10 DEF DialLines, dial
    <2>2. all \in S /\ all.app = "Dial" /\ all.who = ToSet(e.devices) BY <1>6
    <2> HIDE DEF all, lines
    <2>3. lines \in Seq(S) /\ Len(lines) = 1 /\ lines[1] = all BY <2>1, <2>2
    <2>4. ToSet(lines) = {all} BY <2>1, Singletons
    <2>5. RingsAll(lines, e) BY <2>2, <2>4 DEF RingsAll
    <2> QED BY <2>2, <2>3, <2>5 DEF lines, S
  <1>11. CASE ~ e.parallel
    <2> DEFINE one(i) == <<dial({e.devices[i]})>>
               more(i) == IF i < Len(e.devices) THEN settled ELSE << >>
               part(i) == one(i) \o more(i)
               seqs == [i \in DOMAIN e.devices |-> part(i)]
    <2>1. lines = FlattenSeq(seqs) BY <1>8, <1>11, Zenon DEF DialLines, dial
    <2>2. ASSUME NEW i \in 1 .. n
          PROVE  /\ dial({e.devices[i]}) \in S /\ dial({e.devices[i]}).app = "Dial"
                 /\ dial({e.devices[i]}).who = {e.devices[i]}
      <3>1. {e.devices[i]} \in SUBSET ToSet(e.devices) BY <1>5
      <3> QED BY <1>6, <3>1
    <2>3. ASSUME NEW i \in 1 .. n
          PROVE  /\ part(i) \in Seq(S) /\ Len(part(i)) \in Nat \ {0} /\ part(i)[1] = dial({e.devices[i]})
                 /\ \A l \in ToSet(part(i)) : l = dial({e.devices[i]}) \/ l.app # "Dial"
                 /\ dial({e.devices[i]}) \in ToSet(part(i))
      <3> DEFINE d == dial({e.devices[i]})
                 m == more(i)
      <3>1. m \in Seq(S) /\ \A l \in ToSet(m) : l.app # "Dial" BY <1>9, EmptySeq, NoSection
      <3>2. d \in S BY <2>2
      <3> HIDE DEF d, m
      <3> DEFINE p == <<d>> \o m
      <3>3. <<d>> \in Seq(S) /\ Len(<<d>>) = 1 /\ <<d>>[1] = d BY <3>2
      <3>4. ToSet(<<d>>) = {d} BY Singletons
      <3>5. Len(m) \in Nat BY <3>1, LenProperties
      <3>6. p \in Seq(S) /\ Len(p) = 1 + Len(m) /\ p[1] = d BY <3>1, <3>3, <3>5, ConcatProperties
      <3>7. ToSet(p) = {d} \union ToSet(m)
        <4> DEFINE o == <<d>>
        <4>1. o \in Seq(S) /\ ToSet(o) = {d} BY <3>3, <3>4
        <4> HIDE DEF o
        <4>2. ToSet(o \o m) = ToSet(o) \union ToSet(m) BY <3>1, <4>1, ConcatHolds
        <4> QED BY <4>1, <4>2 DEF o
      <3>8. part(i) = p BY DEF d, m
      <3> HIDE DEF p, part
      <3>9. Len(p) \in Nat \ {0} BY <3>5, <3>6
      <3>10. d \in ToSet(p) /\ \A l \in ToSet(p) : l = d \/ l.app # "Dial" BY <3>1, <3>7
      <3> QED BY <3>6, <3>8, <3>9, <3>10 DEF d
    <2> HIDE DEF part
    <2>4. seqs \in Seq(Seq(S)) /\ Len(seqs) = n /\ \A i \in 1 .. n : seqs[i] = part(i)
      <3>1. \A i \in 1 .. n : seqs[i] = part(i) BY <1>2
      <3>2. seqs = [i \in 1 .. n |-> seqs[i]] BY <1>2
      <3> HIDE DEF seqs
      <3>3. seqs \in [1 .. n -> Seq(S)] BY <2>3, <3>1, <3>2
      <3> QED BY <1>2, <3>1, <3>3, SequenceOf
    <2> HIDE DEF seqs, lines
    <2>5. DOMAIN seqs = 1 .. n BY <2>4, LenProperties
    <2>6. lines \in Seq(S) /\ Len(lines) \in Nat BY <2>1, <2>4, FlattenIs, LenProperties
    <2>7. \A l : l \in ToSet(lines) <=> \E i \in 1 .. n : l \in ToSet(part(i))
      BY <2>1, <2>4, <2>5, FlattenHolds
    <2>8. Len(lines) # 0 /\ lines[1] = dial({e.devices[1]})
      <3>1. PICK at \in [0 .. n -> Nat] : Begins(at, seqs, lines) BY <2>1, <2>4, FlattenIs
      <3>2. 1 \in 1 .. n BY <1>2
      <3>3. lines[at[0] + 1] = part(1)[1] /\ at[0] = 0
        <4>1. 1 \in 1 .. Len(seqs) /\ seqs[1] = part(1) BY <2>4, <3>2
        <4>2. 1 \in 1 .. Len(part(1)) BY <2>3, <3>2
        <4>3. /\ at[0] = 0
              /\ \A i \in 1 .. Len(seqs) : \A j \in 1 .. Len(seqs[i]) : lines[at[i - 1] + j] = seqs[i][j]
          BY <3>1 DEF Begins
        <4>4. lines[at[1 - 1] + 1] = seqs[1][1] BY <4>1, <4>2, <4>3
        <4> QED BY <4>1, <4>3, <4>4
      <3>4. lines[1] = dial({e.devices[1]}) BY <2>3, <3>2, <3>3
      <3>5. dial({e.devices[1]}) \in ToSet(lines) BY <2>3, <2>7, <3>2
      <3>6. DOMAIN lines = 1 .. Len(lines) BY <2>6, LenProperties
      <3>7. 1 .. Len(lines) # {} BY <3>5, <3>6 DEF ToSet
      <3> QED BY <2>6, <3>4, <3>7
    <2>9. RingsAll(lines, e)
      <3>1. ASSUME NEW i \in 1 .. n
            PROVE  \E l \in ToSet(lines) : l.app = "Dial" /\ e.devices[i] \in l.who
        BY <2>2, <2>3, <2>7
      <3>2. ASSUME NEW l \in ToSet(lines), l.app = "Dial", NEW x \in l.who
            PROVE  \E i \in 1 .. n : x = e.devices[i]
        <4>1. PICK i \in 1 .. n : l \in ToSet(part(i)) BY <2>7
        <4>2. l = dial({e.devices[i]}) BY <2>3, <3>2, <4>1
        <4>3. l.who = {e.devices[i]} BY <2>2, <4>2
        <4> QED BY <4>3
      <3> QED BY <1>5, <3>1, <3>2 DEF RingsAll
    <2>10. 1 \in 1 .. n BY <1>2
    <2> QED BY <2>2, <2>6, <2>8, <2>9, <2>10 DEF lines, S
  <1> QED BY <1>10, <1>11

\* Where the elements of two sequences are in the one of both.
LEMMA JoinedAt ==
  ASSUME NEW S, NEW p \in Seq(S), NEW q \in Seq(S)
  PROVE  /\ p \o q \in Seq(S) /\ Len(p \o q) = Len(p) + Len(q)
         /\ \A i \in 1 .. Len(p) : (p \o q)[i] = p[i]
         /\ \A j \in 1 .. Len(q) : (p \o q)[Len(p) + j] = q[j]
  <1> DEFINE m == Len(p)
             n == Len(q)
  <1>1. /\ p \o q \in Seq(S) /\ Len(p \o q) = m + n
        /\ \A i \in 1 .. m + n : (p \o q)[i] = IF i <= m THEN p[i] ELSE q[i - m]
    BY ConcatProperties
  <1>2. m \in Nat /\ n \in Nat BY LenProperties
  <1> HIDE DEF m, n
  <1>3. \A i \in 1 .. m : i \in 1 .. m + n /\ i <= m BY <1>2
  <1>4. \A j \in 1 .. n : m + j \in 1 .. m + n /\ ~ m + j <= m /\ m + j - m = j BY <1>2
  <1>5. \A i \in 1 .. m : (p \o q)[i] = p[i] BY <1>1, <1>3
  <1>6. ASSUME NEW j \in 1 .. n PROVE (p \o q)[m + j] = q[j]
    <2> DEFINE k == m + j
    <2>1. k \in 1 .. m + n /\ ~ k <= m /\ k - m = j BY <1>2
    <2> HIDE DEF k
    <2>2. (p \o q)[k] = q[j] BY <1>1, <2>1
    <2> QED BY <2>2 DEF k
  <1> QED BY <1>1, <1>5, <1>6 DEF m, n

LEMMA RingGroupShape ==
  ASSUME NEW e \in ExtRecord, HasRingGroup(e)
  PROVE  \E f, b : RingShape(e, RingGroup(e), f, b)
  <1> DEFINE S == LineRecord
             head == <<Line>> \o BusyGates(e) \o AvailabilityGates(e)
             dials == DialLines(e)
             tail == TailLines(e)
             ann == Announcement(e)
             p == head \o dials
             q == p \o tail
             lines == q \o ann
             h == Len(head)
             d == Len(dials)
             f == h + 1
             b == h + d + 1
  <1>1. /\ head \in Seq(AskLines(e)) /\ h \in Nat \ {0}
    BY AskLinesAre
  <1>2. /\ dials \in Seq(RingLines(e)) /\ d \in Nat \ {0} /\ dials[1].app = "Dial"
        /\ RingsAll(dials, e)
    BY DialLinesAre DEF HasRingGroup
  <1>3. AskLines(e) \subseteq S /\ RingLines(e) \subseteq S BY DEF AskLines, RingLines
  <1>4. head \in Seq(S) /\ dials \in Seq(S) BY <1>1, <1>2, <1>3, SeqMonotonic
  <1>5. /\ \A i \in 1 .. h : head[i] \in AskLines(e)
        /\ \A i \in 1 .. d : dials[i] \in RingLines(e)
        /\ DOMAIN dials = 1 .. d
    BY <1>1, <1>2, ElementOfSeq, LenProperties
  <1>6. RingGroup(e) = lines BY DEF RingGroup, TailLines
  <1>7. /\ tail \in Seq(S) /\ Len(tail) = 5
        /\ ann \in Seq(S) /\ Len(ann) = IF e.gated THEN 3 ELSE 0
    <2>1. {"Voicemail", "Stasis", "Playback", "Hangup"} \subseteq Apps /\ e.number \in Text
          /\ {"busy", "unavailable", "done"} \subseteq Text
      BY ExtIs DEF Apps, Text
    <2>2. /\ Run("Voicemail", {e.number}) \in S /\ Run("Stasis", {e.number}) \in S
          /\ Run("Playback", {}) \in S /\ Hangup \in S
      BY <2>1, RunIs DEF Hangup
    <2>3. <<"unavailable">> \in Label /\ <<"done">> \in Label /\ <<"busy">> \in Label
      BY <2>1 DEF Label
    <2>4. /\ Labelled(<<"unavailable">>, Run("Playback", {})) \in S
          /\ Labelled(<<"done">>, Hangup) \in S
          /\ Labelled(<<"busy">>, Run("Voicemail", {e.number})) \in S
      BY <2>2, <2>3, LabelledIs
    <2>5. FollowMe(e) \in S BY <2>2 DEF FollowMe
    <2> HIDE DEF S
    <2> QED BY <2>2, <2>4, <2>5 DEF TailLines, Announcement
  <1> HIDE DEF S, head, dials, tail, ann
  <1>8. /\ p \in Seq(S) /\ Len(p) = h + d
        /\ \A i \in 1 .. h : p[i] = head[i]
        /\ \A j \in 1 .. d : p[h + j] = dials[j]
    BY <1>1, <1>2, <1>4, JoinedAt
  <1> HIDE DEF p, h, d
  <1>9. /\ q \in Seq(S) /\ Len(q) = h + d + 5
        /\ \A i \in 1 .. h + d : q[i] = p[i]
        /\ \A k \in 1 .. 5 : q[h + d + k] = tail[k]
    <2>1. /\ q \in Seq(S) /\ Len(q) = Len(p) + Len(tail)
          /\ \A i \in 1 .. Len(p) : q[i] = p[i]
          /\ \A k \in 1 .. Len(tail) : q[Len(p) + k] = tail[k]
      <3>1. p \in Seq(S) /\ tail \in Seq(S) BY <1>7, <1>8
      <3> QED BY <3>1, JoinedAt, SMTT(30)
    <2> HIDE DEF q
    <2> QED BY <1>7, <1>8, <2>1
  <1> HIDE DEF q
  <1>10. /\ lines \in Seq(S) /\ Len(lines) = h + d + 5 + Len(ann)
         /\ \A i \in 1 .. h + d + 5 : lines[i] = q[i]
         /\ \A k \in 1 .. Len(ann) : lines[h + d + 5 + k] = ann[k]
    <2>1. /\ lines \in Seq(S) /\ Len(lines) = Len(q) + Len(ann)
          /\ \A i \in 1 .. Len(q) : lines[i] = q[i]
          /\ \A k \in 1 .. Len(ann) : lines[Len(q) + k] = ann[k]
      <3>1. q \in Seq(S) /\ ann \in Seq(S) BY <1>7, <1>9
      <3> QED BY <3>1, JoinedAt, SMTT(30)
    <2> HIDE DEF lines
    <2> QED BY <1>9, <2>1
  <1> HIDE DEF lines
  <1>11. /\ f \in Nat /\ b \in Nat /\ 1 < f /\ f < b /\ b = h + d + 1 /\ f = h + 1
         /\ Len(lines) = IF e.gated THEN b + 7 ELSE b + 4
    BY <1>1, <1>2, <1>7, <1>10
  <1>12. \A l \in 1 .. h : lines[l] = head[l]
    <2>1. \A l \in 1 .. h : l \in 1 .. h + d /\ l \in 1 .. h + d + 5 BY <1>1, <1>2
    <2> QED BY <1>8, <1>9, <1>10, <2>1
  <1>13. \A l \in 1 .. d : lines[h + l] = dials[l]
    <2>1. \A l \in 1 .. d : h + l \in 1 .. h + d /\ h + l \in 1 .. h + d + 5 BY <1>1, <1>2
    <2> QED BY <1>8, <1>9, <1>10, <2>1
  <1>14. \A k \in 1 .. 5 : lines[b + k - 1] = tail[k]
    <2> SUFFICES ASSUME NEW k \in 1 .. 5 PROVE lines[b + k - 1] = tail[k] OBVIOUS
    <2>1. b + k - 1 = h + d + k /\ h + d + k \in 1 .. h + d + 5 BY <1>1, <1>2
    <2> HIDE DEF b
    <2> QED BY <1>9, <1>10, <2>1
  <1>15. e.gated => \A k \in 1 .. 3 : lines[b + k + 4] = ann[k]
    <2> SUFFICES ASSUME e.gated, NEW k \in 1 .. 3 PROVE lines[b + k + 4] = ann[k] OBVIOUS
    <2>1. b + k + 4 = h + d + 5 + k /\ k \in 1 .. Len(ann) BY <1>1, <1>2, <1>7
    <2> HIDE DEF b
    <2> QED BY <1>10, <2>1
  <1>16. \A l \in f .. b - 1 : l - h \in 1 .. d /\ lines[l] = dials[l - h]
    <2> SUFFICES ASSUME NEW l \in f .. b - 1 PROVE l - h \in 1 .. d /\ lines[l] = dials[l - h] OBVIOUS
    <2>1. l - h \in 1 .. d /\ h + (l - h) = l BY <1>1, <1>2
    <2> QED BY <1>13, <2>1
  <1>17. \A l \in 1 .. d : h + l \in f .. b - 1 BY <1>1, <1>2
  <1>18. \A x : x \in ToSet(e.devices) <=>
               \E l \in f .. b - 1 : lines[l].app = "Dial" /\ x \in lines[l].who
    <2>1. \A l : l \in ToSet(dials) <=> \E i \in 1 .. d : l = dials[i] BY <1>5 DEF ToSet
    <2>2. \A x : x \in ToSet(e.devices) <=>
                \E i \in 1 .. d : dials[i].app = "Dial" /\ x \in dials[i].who
      BY <1>2, <2>1 DEF RingsAll
    <2> QED BY <1>13, <1>16, <1>17, <2>2
  <1>19. \A l \in 1 .. f - 1 : AskLine(e, lines[l])
    BY <1>1, <1>5, <1>12 DEF AskLines
  <1>20. \A l \in f .. b - 1 : RingLine(e, lines[l]) BY <1>5, <1>16 DEF RingLines
  <1>21. lines[f].app = "Dial"
    <2>1. 1 \in 1 .. d BY <1>2
    <2> QED BY <1>2, <1>13, <2>1
  <1> HIDE DEF f, b
  <1> USE DEF S, tail, ann
  <1>22. RingShape(e, lines, f, b)
    BY <1>10, <1>11, <1>14, <1>15, <1>18, <1>19, <1>20, <1>21 DEF RingShape
  <1> QED BY <1>6, <1>22 DEF lines, q, p, head, dials

\* The lines after those that ring.
LEMMA GroupTail ==
  ASSUME NEW e \in ExtRecord, NEW lines, NEW f, NEW b, RingShape(e, lines, f, b)
  PROVE  /\ lines[b].app \in {"Stasis", "Voicemail"} /\ lines[b].who = {e.number}
         /\ lines[b].label = << >>
         /\ lines[b + 1].app = "Hangup" /\ lines[b + 1].label = << >>
         /\ lines[b + 2].app = "Hangup" /\ lines[b + 2].label = <<"done">>
         /\ lines[b + 3].app = "Voicemail" /\ lines[b + 3].who = {e.number}
         /\ lines[b + 3].label = <<"busy">>
         /\ lines[b + 4].app = "Hangup" /\ lines[b + 4].label = << >>
         /\ e.gated =>
              /\ lines[b + 5].app = "Playback" /\ lines[b + 5].label = <<"unavailable">>
              /\ lines[b + 6].app = "Voicemail" /\ lines[b + 6].who = {e.number}
              /\ lines[b + 6].label = << >>
              /\ lines[b + 7].app = "Hangup" /\ lines[b + 7].label = << >>
  <1> DEFINE T == TailLines(e)
             A == Announcement(e)
  <1>1. {"Voicemail", "Stasis", "Playback", "Hangup"} \subseteq Apps /\ e.number \in Text
        /\ {"busy", "unavailable", "done"} \subseteq Text
    BY ExtIs DEF Apps, Text
  <1>2. {e.number} \in SUBSET Text /\ {} \in SUBSET Text BY <1>1
  <1>3. <<"unavailable">> \in Label /\ <<"done">> \in Label /\ <<"busy">> \in Label
    BY <1>1 DEF Label
  <1> DEFINE vm == Run("Voicemail", {e.number})
             ai == Run("Stasis", {e.number})
             play == Run("Playback", {})
  <1>4. /\ vm \in LineRecord /\ vm.app = "Voicemail" /\ vm.who = {e.number} /\ vm.label = << >>
        /\ ai.app = "Stasis" /\ ai.who = {e.number} /\ ai.label = << >>
        /\ play \in LineRecord /\ play.app = "Playback"
        /\ Hangup \in LineRecord /\ Hangup.app = "Hangup" /\ Hangup.label = << >>
    BY <1>1, <1>2, RunIs DEF Hangup
  <1> DEFINE done == Labelled(<<"done">>, Hangup)
             busy == Labelled(<<"busy">>, vm)
             away == Labelled(<<"unavailable">>, play)
  <1> HIDE DEF vm, ai, play
  <1>5. /\ done.app = "Hangup" /\ done.label = <<"done">>
        /\ busy.app = "Voicemail" /\ busy.who = {e.number} /\ busy.label = <<"busy">>
        /\ away.app = "Playback" /\ away.label = <<"unavailable">>
    BY <1>3, <1>4, LabelledIs
  <1> HIDE DEF done, busy, away
  <1>6. FollowMe(e) \in {vm, ai} BY DEF FollowMe, vm, ai
  <1>7. T = <<FollowMe(e), Hangup, done, busy, Hangup>> BY DEF TailLines, done, busy, vm
  <1>8. e.gated => A = <<away, vm, Hangup>> BY DEF Announcement, away, vm, play
  <1>9. T[1] = FollowMe(e) /\ T[2] = Hangup /\ T[3] = done /\ T[4] = busy /\ T[5] = Hangup BY <1>7
  <1>10. e.gated => A[1] = away /\ A[2] = vm /\ A[3] = Hangup BY <1>8
  <1> HIDE DEF T, A
  <1>11. /\ b \in Nat /\ \A k \in 1 .. 5 : lines[b + k - 1] = T[k]
         /\ e.gated => \A k \in 1 .. 3 : lines[b + k + 4] = A[k]
    BY DEF RingShape, T, A
  <1>12. /\ lines[b] = T[1] /\ lines[b + 1] = T[2] /\ lines[b + 2] = T[3]
         /\ lines[b + 3] = T[4] /\ lines[b + 4] = T[5]
    <2>1. /\ b + 1 - 1 = b /\ b + 2 - 1 = b + 1 /\ b + 3 - 1 = b + 2 /\ b + 4 - 1 = b + 3
          /\ b + 5 - 1 = b + 4
      BY <1>11
    <2>2. /\ lines[b + 1 - 1] = T[1] /\ lines[b + 2 - 1] = T[2] /\ lines[b + 3 - 1] = T[3]
          /\ lines[b + 4 - 1] = T[4] /\ lines[b + 5 - 1] = T[5]
      BY <1>11
    <2> QED BY <2>1, <2>2
  <1>13. e.gated => lines[b + 5] = A[1] /\ lines[b + 6] = A[2] /\ lines[b + 7] = A[3]
    <2>1. b + 1 + 4 = b + 5 /\ b + 2 + 4 = b + 6 /\ b + 3 + 4 = b + 7 BY <1>11
    <2>2. e.gated => lines[b + 1 + 4] = A[1] /\ lines[b + 2 + 4] = A[2] /\ lines[b + 3 + 4] = A[3]
      BY <1>11
    <2> QED BY <2>1, <2>2
  <1> QED BY <1>4, <1>5, <1>6, <1>9, <1>10, <1>12, <1>13

\* Where a line is, by what it does.
LEMMA GroupLine ==
  ASSUME NEW e \in ExtRecord, NEW lines, NEW f, NEW b, RingShape(e, lines, f, b),
         NEW l \in 1 .. Len(lines), l # b + 2
  PROVE  \/ l \in 1 .. f - 1 /\ AskLine(e, lines[l])
         \/ l \in f .. b - 1 /\ RingLine(e, lines[l])
         \/ l = b /\ lines[l].app \in {"Stasis", "Voicemail"} /\ lines[l].who = {e.number}
         \/ l \in {b + 1, b + 4, b + 7} /\ lines[l].app = "Hangup"
         \/ l \in {b + 3, b + 6} /\ lines[l].app = "Voicemail" /\ lines[l].who = {e.number}
         \/ l = b + 5 /\ e.gated /\ lines[l].app = "Playback"
  <1>1. /\ f \in Nat /\ b \in Nat /\ 1 < f /\ f < b
        /\ Len(lines) = IF e.gated THEN b + 7 ELSE b + 4
        /\ \A k \in 1 .. f - 1 : AskLine(e, lines[k])
        /\ \A k \in f .. b - 1 : RingLine(e, lines[k])
    BY DEF RingShape
  <1>2. \/ l \in 1 .. f - 1 \/ l \in f .. b - 1 \/ l = b \/ l = b + 1 \/ l = b + 3 \/ l = b + 4
        \/ e.gated /\ (l = b + 5 \/ l = b + 6 \/ l = b + 7)
    BY <1>1
  <1>3. l = b \/ l = b + 1 \/ l = b + 3 \/ l = b + 4 =>
          \/ l = b /\ lines[l].app \in {"Stasis", "Voicemail"} /\ lines[l].who = {e.number}
          \/ l \in {b + 1, b + 4} /\ lines[l].app = "Hangup"
          \/ l = b + 3 /\ lines[l].app = "Voicemail" /\ lines[l].who = {e.number}
    BY GroupTail
  <1>4. e.gated /\ (l = b + 5 \/ l = b + 6 \/ l = b + 7) =>
          \/ l = b + 7 /\ lines[l].app = "Hangup"
          \/ l = b + 6 /\ lines[l].app = "Voicemail" /\ lines[l].who = {e.number}
          \/ l = b + 5 /\ e.gated /\ lines[l].app = "Playback"
    BY GroupTail
  <1>5. l \in 1 .. f - 1 => AskLine(e, lines[l]) BY <1>1
  <1>6. l \in f .. b - 1 => RingLine(e, lines[l]) BY <1>1
  <1> QED BY <1>2, <1>3, <1>4, <1>5, <1>6

LEMMA GroupLabels ==
  ASSUME NEW e \in ExtRecord, NEW lines, NEW f, NEW b, RingShape(e, lines, f, b)
  PROVE  /\ {l \in 1 .. Len(lines) : lines[l].label = <<"busy">>} = {b + 3}
         /\ {l \in 1 .. Len(lines) : lines[l].label = <<"done">>} = {b + 2}
         /\ e.gated => {l \in 1 .. Len(lines) : lines[l].label = <<"unavailable">>} = {b + 5}
  <1>1. /\ f \in Nat /\ b \in Nat /\ 1 < f /\ f < b
        /\ Len(lines) = IF e.gated THEN b + 7 ELSE b + 4
        /\ \A k \in 1 .. f - 1 : lines[k].label = << >>
        /\ \A k \in f .. b - 1 : lines[k].label = << >>
    BY DEF RingShape, AskLine, RingLine
  <1>2. ASSUME NEW l \in 1 .. Len(lines)
        PROVE  \/ l \in 1 .. f - 1 \/ l \in f .. b - 1 \/ l = b \/ l = b + 1 \/ l = b + 2
               \/ l = b + 3 \/ l = b + 4
               \/ e.gated /\ (l = b + 5 \/ l = b + 6 \/ l = b + 7)
    <2>1. CASE e.gated
      <3>1. l \in 1 .. f - 1 \/ l \in f .. b - 1 \/ l \in b .. b + 7 BY <1>1, <2>1
      <3>2. l \in b .. b + 7 => \/ l = b \/ l = b + 1 \/ l = b + 2 \/ l = b + 3 \/ l = b + 4
                               \/ l = b + 5 \/ l = b + 6 \/ l = b + 7
        BY <1>1
      <3> QED BY <2>1, <3>1, <3>2
    <2>2. CASE ~ e.gated
      <3>1. l \in 1 .. f - 1 \/ l \in f .. b - 1 \/ l \in b .. b + 4 BY <1>1, <2>2
      <3>2. l \in b .. b + 4 => l = b \/ l = b + 1 \/ l = b + 2 \/ l = b + 3 \/ l = b + 4 BY <1>1
      <3> QED BY <3>1, <3>2
    <2> QED BY <2>1, <2>2
  <1> DEFINE none == << >>
             busy == <<"busy">>
             done == <<"done">>
             away == <<"unavailable">>
  <1>3. /\ none # busy /\ none # done /\ none # away /\ busy # done /\ busy # away /\ done # away
    OBVIOUS
  <1>4. /\ lines[b].label = none /\ lines[b + 1].label = none /\ lines[b + 2].label = done
        /\ lines[b + 3].label = busy /\ lines[b + 4].label = none
        /\ e.gated => /\ lines[b + 5].label = away /\ lines[b + 6].label = none
                      /\ lines[b + 7].label = none
    BY GroupTail
  <1>5. \A l \in 1 .. Len(lines) : l \in 1 .. f - 1 \/ l \in f .. b - 1 => lines[l].label = none
    BY <1>1
  <1>6. b + 3 \in 1 .. Len(lines) /\ b + 2 \in 1 .. Len(lines) /\ (e.gated => b + 5 \in 1 .. Len(lines))
    BY <1>1
  <1> HIDE DEF none, busy, done, away
  <1>7. ASSUME NEW l \in 1 .. Len(lines)
        PROVE  /\ lines[l].label = busy <=> l = b + 3
               /\ lines[l].label = done <=> l = b + 2
               /\ e.gated => (lines[l].label = away <=> l = b + 5)
    BY <1>2, <1>3, <1>4, <1>5
  <1> QED BY <1>6, <1>7 DEF busy, done, away

LEMMA LeastOfOne ==
  ASSUME NEW n \in Nat
  PROVE  Min({n}) = n
  <1>1. Min({n}) \in {n} BY MinIs
  <1> QED BY <1>1

\* A jump in the exten of an extension.
AtLine(c, n) == [c EXCEPT !.at.line = n]

LEMMA JumpsInGroup ==
  ASSUME NEW e \in ExtRecord, NEW f, NEW b, RingShape(e, RingGroup(e), f, b), NEW c \in CallRecord,
         c.at.ctx = Ext(e), c.at.exten = Start, Lines(Ext(e), Start) = RingGroup(e)
  PROVE  /\ Jumps(c, InExt(e, "busy")) = AtLine(c, b + 3)
         /\ Jumps(c, InExt(e, "done")) = AtLine(c, b + 2)
         /\ e.gated => Jumps(c, InExt(e, "unavailable")) = AtLine(c, b + 5)
  <1> DEFINE lines == RingGroup(e)
  <1>1. b \in Nat /\ DOMAIN lines = 1 .. Len(lines) BY LenProperties DEF RingShape
  <1>2. ASSUME NEW label, label # First, NEW n \in Nat,
               {l \in 1 .. Len(lines) : lines[l].label = label} = {n}
        PROVE  Jumps(c, At(Ext(e), Start, label)) = AtLine(c, n)
    <2> DEFINE to == At(Ext(e), Start, label)
               places == Positions(Ext(e), Start, label)
    <2>1. to.ctx = Ext(e) /\ to.exten = Start /\ to.label = label BY DEF At
    <2>2. places = {n} BY <1>1, <1>2 DEF Positions
    <2>3. Min(places) = n BY <2>2, LeastOfOne
    <2> HIDE DEF to, places
    <2>4. Positions(to.ctx, to.exten, to.label) = places BY <2>1 DEF places
    <2>5. Jumps(c, to) = AtLine(c, Min(places))
      BY <2>1, <2>2, <2>4 DEF Jumps, AtLine
    <2> QED BY <2>3, <2>5 DEF to
  <1> HIDE DEF lines
  <1>3. /\ {l \in 1 .. Len(lines) : lines[l].label = <<"busy">>} = {b + 3}
        /\ {l \in 1 .. Len(lines) : lines[l].label = <<"done">>} = {b + 2}
        /\ e.gated => {l \in 1 .. Len(lines) : lines[l].label = <<"unavailable">>} = {b + 5}
    BY GroupLabels DEF lines
  <1> DEFINE busy == <<"busy">>
             done == <<"done">>
             away == <<"unavailable">>
  <1>4. b + 3 \in Nat /\ b + 2 \in Nat /\ b + 5 \in Nat BY <1>1
  <1>5. busy # First /\ done # First /\ away # First BY DEF First
  <1>6. /\ InExt(e, "busy") = At(Ext(e), Start, busy) /\ InExt(e, "done") = At(Ext(e), Start, done)
        /\ InExt(e, "unavailable") = At(Ext(e), Start, away)
    BY DEF InExt
  <1>10. /\ {l \in 1 .. Len(lines) : lines[l].label = busy} = {b + 3}
         /\ {l \in 1 .. Len(lines) : lines[l].label = done} = {b + 2}
         /\ e.gated => {l \in 1 .. Len(lines) : lines[l].label = away} = {b + 5}
    BY <1>3
  <1> HIDE DEF busy, done, away
  <1>7. Jumps(c, At(Ext(e), Start, busy)) = AtLine(c, b + 3)
    BY <1>2, <1>10, <1>4, <1>5
  <1>8. Jumps(c, At(Ext(e), Start, done)) = AtLine(c, b + 2)
    BY <1>2, <1>10, <1>4, <1>5
  <1>9. e.gated => Jumps(c, At(Ext(e), Start, away)) = AtLine(c, b + 5)
    BY <1>2, <1>10, <1>4, <1>5
  <1> QED BY <1>6, <1>7, <1>8, <1>9

\* A call at line l of a ring group: who rang so far, and why somebody did not.
InGroup(c, e, f, b) ==
  LET l == c.at.line
      lines == RingGroup(e) IN
  /\ l \in 1 .. Len(lines) /\ l # b + 2
  /\ l <= b + 1 /\ c.why = {} =>
       \A x : x \in c.rang <=>
                \E k \in f .. b - 1 : k < l /\ lines[k].app = "Dial" /\ x \in lines[k].who
  /\ l > f /\ c.status = "BUSY" => c.why # {}
  /\ l >= b + 3 => c.why # {}
  /\ l \in {b + 1, b + 4, b + 7} => ~ e.mailbox

\* It stays in the group or ends as it should.
GroupMove(c, d, e, f, b) ==
  /\ d.at.ctx = c.at.ctx /\ d.at.exten = c.at.exten /\ d.at # Ended
  /\ d.path = c.path /\ d.status # "ANSWER" /\ InGroup(d, e, f, b)

GroupEnd(c, d, e) ==
  /\ d.at = Ended /\ d.path = c.path
  /\ d.end = "hangup" => ~ e.mailbox
  /\ d.end \in {"voicemail", "assistant"} /\ d.why = {} =>
       \A x : x \in d.rang <=> x \in ToSet(e.devices)

LEMMA MovesTo ==
  ASSUME NEW c \in CallRecord, NEW n \in Nat \ {0}, NEW d, d = AtLine(c, n)
  PROVE  /\ d.at.ctx = c.at.ctx /\ d.at.exten = c.at.exten /\ d.at.line = n /\ d.at # Ended
         /\ d.path = c.path /\ d.rang = c.rang /\ d.why = c.why /\ d.status = c.status
  <1> DEFINE spot == [c.at EXCEPT !.line = n]
  <1>1. c.at \in Spot BY DEF CallRecord
  <1>2. spot.ctx = c.at.ctx /\ spot.exten = c.at.exten /\ spot.line = n BY <1>1 DEF Spot
  <1>3. spot # Ended BY <1>2 DEF Ended
  <1>4. d = [c EXCEPT !.at = spot] BY DEF AtLine
  <1> HIDE DEF spot
  <1>5. d.at = spot BY <1>4 DEF CallRecord
  <1>6. d.path = c.path /\ d.rang = c.rang /\ d.why = c.why /\ d.status = c.status
    BY <1>4 DEF CallRecord
  <1> QED BY <1>2, <1>3, <1>5, <1>6

LEMMA WhichStep ==
  ASSUME Step, Present
  PROVE  /\ Here.app = "NoOp" => Pass
         /\ Here.app = "GotoIf" => Branch
         /\ Here.app = "Dial" => Ring
         /\ Here.app = "Voicemail" => Voicemail
         /\ Here.app = "Stasis" => Assist
         /\ Here.app = "Playback" => Play
         /\ Here.app = "Hangup" => Drop
  BY DEF Step, Pass, Jump, Branch, Ring, Voicemail, Assist, Queue, Play, Drop, RunOut, Does

\* On to the next line, when the line rang nobody.
LEMMA NextInGroup ==
  ASSUME NEW e \in ExtRecord, NEW f, NEW b, RingShape(e, RingGroup(e), f, b),
         NEW c \in CallRecord, c.status # "ANSWER", InGroup(c, e, f, b),
         c.at.line <= b, RingGroup(e)[c.at.line].app # "Dial", c.at.line = b => ~ e.mailbox
  PROVE  GroupMove(c, NextLine(c), e, f, b)
  <1> DEFINE l == c.at.line
             d == NextLine(c)
             lines == RingGroup(e)
  <1>1. /\ f \in Nat /\ b \in Nat /\ 1 < f /\ f < b /\ lines[f].app = "Dial"
        /\ Len(lines) = IF e.gated THEN b + 7 ELSE b + 4
    BY DEF RingShape
  <1>2. /\ l \in 1 .. Len(lines) /\ l # b + 2
        /\ l <= b + 1 /\ c.why = {} =>
             \A x : x \in c.rang <=>
                      \E k \in f .. b - 1 : k < l /\ lines[k].app = "Dial" /\ x \in lines[k].who
        /\ l > f /\ c.status = "BUSY" => c.why # {}
    BY DEF InGroup
  <1>3. l \in Nat /\ l + 1 \in Nat \ {0} BY <1>1, <1>2
  <1>4. d = AtLine(c, l + 1) BY DEF NextLine, AtLine
  <1> HIDE DEF d
  <1>5. /\ d.at.ctx = c.at.ctx /\ d.at.exten = c.at.exten /\ d.at.line = l + 1 /\ d.at # Ended
        /\ d.path = c.path /\ d.rang = c.rang /\ d.why = c.why /\ d.status = c.status
    BY <1>3, <1>4, MovesTo
  <1> HIDE DEF l, lines
  <1>6. l <= b /\ (l = b => ~ e.mailbox) /\ lines[l].app # "Dial" BY DEF l, lines
  <1>7. l # f BY <1>1, <1>6
  <1>8. l + 1 \in 1 .. Len(lines) /\ l + 1 # b + 2 /\ ~ l + 1 >= b + 3 BY <1>1, <1>3, <1>6
  <1>9. l + 1 \in {b + 1, b + 4, b + 7} => l = b BY <1>1, <1>3, <1>6
  <1>10. l + 1 > f => l > f BY <1>1, <1>3, <1>7
  <1>11. ASSUME c.why = {}, NEW x
         PROVE  x \in c.rang <=>
                  \E k \in f .. b - 1 : k < l + 1 /\ lines[k].app = "Dial" /\ x \in lines[k].who
    <2>1. l <= b + 1 BY <1>1, <1>3, <1>6
    <2>2. x \in c.rang <=>
            \E k \in f .. b - 1 : k < l /\ lines[k].app = "Dial" /\ x \in lines[k].who
      BY <1>2, <1>11, <2>1
    <2>3. \A k \in f .. b - 1 : lines[k].app = "Dial" => (k < l + 1 <=> k < l)
      BY <1>1, <1>3, <1>6
    <2> QED BY <2>2, <2>3
  <1>12. InGroup(d, e, f, b)
    BY <1>2, <1>5, <1>6, <1>8, <1>9, <1>10, <1>11 DEF InGroup, lines
  <1> QED BY <1>5, <1>12 DEF GroupMove, d

\* To where a message is taken for one that is busy or away.
LEMMA SkipInGroup ==
  ASSUME NEW e \in ExtRecord, NEW f, NEW b, RingShape(e, RingGroup(e), f, b),
         NEW c \in CallRecord, c.status # "ANSWER", c.why # {},
         NEW n, n = b + 3 \/ (e.gated /\ (n = b + 5 \/ n = b + 6)),
         NEW d, d = AtLine(c, n)
  PROVE  GroupMove(c, d, e, f, b)
  <1>1. /\ f \in Nat /\ b \in Nat /\ 1 < f /\ f < b
        /\ Len(RingGroup(e)) = IF e.gated THEN b + 7 ELSE b + 4
    BY DEF RingShape
  <1>2. /\ n \in Nat \ {0} /\ n \in 1 .. Len(RingGroup(e)) /\ n # b + 2 /\ ~ n <= b + 1
        /\ n \notin {b + 1, b + 4, b + 7}
    BY <1>1
  <1>3. /\ d.at.ctx = c.at.ctx /\ d.at.exten = c.at.exten /\ d.at.line = n /\ d.at # Ended
        /\ d.path = c.path /\ d.rang = c.rang /\ d.why = c.why /\ d.status = c.status
    BY <1>2, MovesTo
  <1>4. InGroup(d, e, f, b) BY <1>2, <1>3 DEF InGroup
  <1> QED BY <1>3, <1>4 DEF GroupMove

\* What a branch does, and what it notes of a device in use or a person away.
Blamed(c) == [c EXCEPT !.why = IF Here.test[1] \in {"INUSE", "UNAVAILABLE"}
                               THEN @ \union {Here.test[1]} ELSE @]

LEMMA BlamedIs ==
  ASSUME NEW c \in CallRecord
  PROVE  /\ Blamed(c) \in CallRecord /\ SameCall(c, Blamed(c)) /\ Blamed(c).at = c.at
         /\ Blamed(c).path = c.path /\ Blamed(c).rang = c.rang /\ Blamed(c).status = c.status
         /\ Blamed(c).end = c.end /\ Blamed(c).tried = c.tried
         /\ Blamed(c).why = IF Here.test[1] \in {"INUSE", "UNAVAILABLE"}
                            THEN c.why \union {Here.test[1]} ELSE c.why
  <1> DEFINE why == IF Here.test[1] \in {"INUSE", "UNAVAILABLE"}
                    THEN c.why \union {Here.test[1]} ELSE c.why
  <1>1. {"INUSE", "UNAVAILABLE"} \subseteq Text BY DEF Text
  <1>2. why \in SUBSET Text BY <1>1 DEF CallRecord
  <1>3. Blamed(c) = [c EXCEPT !.why = why] BY DEF Blamed
  <1> HIDE DEF why
  <1>4. /\ Blamed(c) \in CallRecord /\ SameCall(c, Blamed(c)) /\ Blamed(c).at = c.at
        /\ Blamed(c).path = c.path /\ Blamed(c).rang = c.rang /\ Blamed(c).status = c.status
        /\ Blamed(c).end = c.end /\ Blamed(c).tried = c.tried /\ Blamed(c).why = why
    BY <1>2, <1>3 DEF CallRecord, SameCall
  <1> QED BY <1>4 DEF why

LEMMA BranchTo ==
  ASSUME Branch
  PROVE  \E yes \in Outcomes(Here.test) :
           call' = IF yes THEN Jumps(Blamed(call), Here.to) ELSE NextLine(call)
  BY Zenon DEF Branch, Blamed

\* The calls an extension rings, as they go on or end.
LEMMA RingTo ==
  ASSUME Typed, Ring, call.at.ctx # Outbound
  PROVE  \E c \in CallRecord :
           /\ c.at = call.at /\ c.path = call.path /\ c.rang = call.rang \union Here.who
           /\ c.why = IF c.status = "BUSY" THEN call.why \union {"BUSY"} ELSE call.why
           /\ IF c.status = "ANSWER" THEN call' = Leave(c, "answered") ELSE call' = NextLine(c)
  <1>1. Present /\ Here.app = "Dial" BY DEF Ring, Does
  <1>2. call \in CallRecord /\ Here \in LineRecord BY <1>1, HereIs DEF Typed
  <1> DEFINE rung(status) ==
               [call EXCEPT !.status = status,
                  !.rang = IF call.at.ctx = Outbound THEN @ ELSE @ \union Here.who,
                  !.tried = IF call.at.ctx = Outbound
                            THEN Append(@, [who |-> Here.who, seen |-> call.seen]) ELSE @,
                  !.why = IF status = "BUSY" /\ ~ call.at.ctx = Outbound
                          THEN @ \union {status} ELSE @]
  <1>3. PICK status \in {"ANSWER", "BUSY", "NOANSWER", "CHANUNAVAIL"} :
          call' = IF status = "ANSWER" THEN Leave(rung(status), "answered")
                  ELSE NextLine(rung(status))
    BY Zenon DEF Ring
  <1> DEFINE c == rung(status)
             rang == call.rang \union Here.who
             why == IF status = "BUSY" THEN call.why \union {"BUSY"} ELSE call.why
  <1>4. rang \in SUBSET Text BY <1>2 DEF CallRecord, LineRecord
  <1>5. why \in SUBSET Text
    <2>1. "BUSY" \in Text BY DEF Text
    <2> QED BY <1>2, <2>1 DEF CallRecord
  <1>6. c = [call EXCEPT !.status = status, !.rang = rang, !.tried = call.tried, !.why = why]
    OBVIOUS
  <1>7. call' = IF status = "ANSWER" THEN Leave(c, "answered") ELSE NextLine(c) BY <1>3
  <1> HIDE DEF c, rang, why
  <1>8. /\ c \in CallRecord /\ c.at = call.at /\ c.path = call.path /\ c.rang = rang
        /\ c.why = why /\ c.status = status
    BY <1>2, <1>4, <1>5, <1>6 DEF CallRecord, Statuses
  <1> QED BY <1>7, <1>8 DEF rang, why

LEMMA StepAsking ==
  ASSUME Typed, Present, Step, NEW e \in ExtRecord, NEW f, NEW b,
         RingShape(e, RingGroup(e), f, b), Lines(Ext(e), Start) = RingGroup(e),
         call.at.ctx = Ext(e), call.at.exten = Start, call.status # "ANSWER",
         InGroup(call, e, f, b), call.at.line \in 1 .. f - 1, AskLine(e, Here),
         Here = RingGroup(e)[call.at.line]
  PROVE  GroupMove(call, call', e, f, b)
  <1>1. call \in CallRecord /\ f \in Nat /\ b \in Nat /\ f < b BY DEF Typed, RingShape
  <1>2. call.at.line <= b /\ call.at.line # b BY <1>1
  <1>3. Here.app # "Dial" => GroupMove(call, NextLine(call), e, f, b) BY <1>1, <1>2, NextInGroup
  <1>4. CASE Here.app = "NoOp"
    <2>1. call' = NextLine(call) BY <1>4, WhichStep DEF Pass
    <2> QED BY <1>3, <1>4, <2>1
  <1>5. ASSUME Here.app = "GotoIf", Here.test[1] \in {"INUSE", "UNAVAILABLE"},
               NEW n, n = b + 3 \/ (e.gated /\ (n = b + 5 \/ n = b + 6)),
               Jumps(Blamed(call), Here.to) = AtLine(Blamed(call), n)
        PROVE  GroupMove(call, call', e, f, b)
    <2>1. PICK yes \in Outcomes(Here.test) :
            call' = IF yes THEN Jumps(Blamed(call), Here.to) ELSE NextLine(call)
      BY <1>5, WhichStep, BranchTo
    <2> DEFINE c == Blamed(call)
    <2>2. /\ c \in CallRecord /\ c.at = call.at /\ c.path = call.path /\ c.status = call.status
          /\ c.why # {}
      BY <1>1, <1>5, BlamedIs
    <2> HIDE DEF c
    <2>3. CASE yes
      <3>1. call' = AtLine(c, n) BY <1>5, <2>1, <2>3 DEF c
      <3>2. GroupMove(c, call', e, f, b) BY <1>5, <2>2, <3>1, SkipInGroup
      <3> QED BY <2>2, <3>2 DEF GroupMove
    <2>4. CASE ~ yes BY <1>3, <1>5, <2>1, <2>4
    <2> QED BY <2>3, <2>4
  <1>6. /\ Blamed(call) \in CallRecord /\ Blamed(call).at.ctx = Ext(e)
        /\ Blamed(call).at.exten = Start
    BY <1>1, BlamedIs
  <1>7. CASE Here.app = "GotoIf" /\ Here.test[1] = "INUSE" /\ Here.to = InExt(e, "busy")
    <2>1. Jumps(Blamed(call), Here.to) = AtLine(Blamed(call), b + 3) BY <1>6, <1>7, JumpsInGroup
    <2> QED BY <1>5, <1>7, <2>1
  <1>8. CASE e.gated /\ Here.app = "GotoIf" /\ Here.test[1] = "UNAVAILABLE"
             /\ Here.to = InExt(e, "unavailable")
    <2>1. Jumps(Blamed(call), Here.to) = AtLine(Blamed(call), b + 5) BY <1>6, <1>8, JumpsInGroup
    <2> QED BY <1>5, <1>8, <2>1
  <1> QED BY <1>4, <1>7, <1>8 DEF AskLine

LEMMA StepRinging ==
  ASSUME Typed, Present, Step, NEW e \in ExtRecord, NEW f, NEW b,
         RingShape(e, RingGroup(e), f, b), Lines(Ext(e), Start) = RingGroup(e),
         call.at.ctx = Ext(e), call.at.exten = Start, call.status # "ANSWER",
         InGroup(call, e, f, b), call.at.line \in f .. b - 1, RingLine(e, Here),
         Here = RingGroup(e)[call.at.line]
  PROVE  GroupMove(call, call', e, f, b) \/ GroupEnd(call, call', e)
  <1> DEFINE l == call.at.line
             lines == RingGroup(e)
  <1>1. /\ call \in CallRecord /\ f \in Nat /\ b \in Nat /\ 1 < f /\ f < b /\ lines[f].app = "Dial"
        /\ Len(lines) = IF e.gated THEN b + 7 ELSE b + 4
    BY DEF Typed, RingShape
  <1>2. /\ l \in Nat /\ l <= b /\ l # b /\ l + 1 \in 1 .. Len(lines) /\ l + 1 <= b /\ f <= l
    BY <1>1
  <1>3. Here.app # "Dial" => GroupMove(call, NextLine(call), e, f, b) BY <1>1, <1>2, NextInGroup
  <1>4. CASE Here.app = "Dial"
    <2>1. call.at.ctx # Outbound BY ExtIs
    <2>2. PICK c \in CallRecord :
            /\ c.at = call.at /\ c.path = call.path /\ c.rang = call.rang \union Here.who
            /\ c.why = IF c.status = "BUSY" THEN call.why \union {"BUSY"} ELSE call.why
            /\ IF c.status = "ANSWER" THEN call' = Leave(c, "answered") ELSE call' = NextLine(c)
      BY <1>4, <2>1, WhichStep, RingTo
    <2>3. CASE c.status = "ANSWER"
      <3>1. call' = Leave(c, "answered") BY <2>2, <2>3
      <3>2. call'.at = Ended /\ call'.path = c.path /\ call'.end = "answered"
        BY <3>1, LeaveIs DEF Ends
      <3> QED BY <2>2, <3>2 DEF GroupEnd
    <2>4. CASE c.status # "ANSWER"
      <3> DEFINE d == AtLine(c, l + 1)
      <3>1. call' = d BY <2>2, <2>4 DEF NextLine, AtLine
      <3> HIDE DEF d, l, lines
      <3>2. l + 1 \in Nat \ {0} BY <1>2
      <3>3. /\ d.at.ctx = c.at.ctx /\ d.at.exten = c.at.exten /\ d.at.line = l + 1 /\ d.at # Ended
            /\ d.path = c.path /\ d.rang = c.rang /\ d.why = c.why /\ d.status = c.status
        BY <3>2, MovesTo DEF d
      <3>4. ASSUME c.why = {}, NEW x
            PROVE  x \in c.rang <=>
                     \E k \in f .. b - 1 : k < l + 1 /\ lines[k].app = "Dial" /\ x \in lines[k].who
        <4>1. call.why = {} BY <2>2, <3>4
        <4>2. x \in call.rang <=>
                \E k \in f .. b - 1 : k < l /\ lines[k].app = "Dial" /\ x \in lines[k].who
          <5>1. l <= b + 1 BY <1>1, <1>2
          <5> QED BY <4>1, <5>1 DEF InGroup, l, lines
        <4>3. l \in f .. b - 1 /\ lines[l] = Here BY DEF l, lines
        <4>4. \A k \in f .. b - 1 : k < l + 1 <=> k < l \/ k = l BY <1>1, <1>2
        <4> QED BY <1>4, <2>2, <4>2, <4>3, <4>4
      <3>5. c.status = "BUSY" => c.why # {} BY <2>2
      <3>6. /\ l + 1 # b + 2 /\ ~ l + 1 >= b + 3
            /\ l + 1 \notin {b + 1, b + 4, b + 7}
        BY <1>1, <1>2
      <3>7. InGroup(d, e, f, b) BY <1>2, <3>3, <3>4, <3>5, <3>6 DEF InGroup, lines
      <3> QED BY <2>2, <2>4, <3>1, <3>3, <3>7 DEF GroupMove
    <2> QED BY <2>3, <2>4
  <1>5. ASSUME Here.app = "GotoIf", NEW status, Here.test = <<"DIALSTATUS", status>>
        PROVE  \/ call.status = status /\ call' = Jumps(Blamed(call), Here.to) /\ Blamed(call).why = call.why
               \/ GroupMove(call, call', e, f, b)
    <2>1. PICK yes \in Outcomes(Here.test) :
            call' = IF yes THEN Jumps(Blamed(call), Here.to) ELSE NextLine(call)
      BY <1>5, WhichStep, BranchTo
    <2>2. Here.test[1] = "DIALSTATUS" /\ Here.test[2] = status BY <1>5
    <2>3. Outcomes(Here.test) = {call.status = status} BY <2>2 DEF Outcomes
    <2>4. Blamed(call).why = call.why BY <1>1, <2>2, BlamedIs
    <2> QED BY <1>3, <1>5, <2>1, <2>3, <2>4
  <1>6. CASE Here.app = "GotoIf" /\ Here.test = <<"DIALSTATUS", "ANSWER">> BY <1>5, <1>6
  <1>7. CASE Here.app = "GotoIf" /\ Here.test = <<"DIALSTATUS", "BUSY">> /\ Here.to = InExt(e, "busy")
    <2>1. CASE call.status = "BUSY" /\ call' = Jumps(Blamed(call), Here.to) /\ Blamed(call).why = call.why
      <3> DEFINE c == Blamed(call)
      <3>1. /\ c \in CallRecord /\ c.at = call.at /\ c.path = call.path /\ c.status = call.status
        BY <1>1, BlamedIs
      <3>2. c.why # {}
        <4>1. l # f BY <1>1, <1>7
        <4>2. l > f BY <1>1, <1>2, <4>1
        <4> QED BY <2>1, <4>2 DEF InGroup
      <3>3. call' = AtLine(c, b + 3) BY <1>7, <2>1, <3>1, JumpsInGroup
      <3> HIDE DEF c
      <3>4. GroupMove(c, call', e, f, b) BY <3>1, <3>2, <3>3, SkipInGroup
      <3> QED BY <3>1, <3>4 DEF GroupMove
    <2> QED BY <1>5, <1>7, <2>1
  <1> QED BY <1>4, <1>6, <1>7 DEF RingLine

\* Behind the lines that ring: a message is taken, or the call ends.
LEMMA VoicemailTo ==
  ASSUME Typed, Voicemail, NEW e \in ToSet(Company.exts), Here.who = {e.number}
  PROVE  \/ call' = Leave(call, "voicemail")
         \/ call' = NextLine(call) /\ ~ e.mailbox
  <1>1. e.mailbox => Here.who \subseteq Mailboxes BY DEF Mailboxes, ToSet
  <1> QED BY <1>1 DEF Voicemail

\* The last lines: a call is there only for a reason.
LEMMA GoOnBehind ==
  ASSUME NEW e \in ExtRecord, NEW f, NEW b, RingShape(e, RingGroup(e), f, b),
         NEW c \in CallRecord, c.status # "ANSWER", c.why # {}, ~ e.mailbox,
         c.at.line = b + 3 \/ (e.gated /\ c.at.line = b + 6)
  PROVE  GroupMove(c, NextLine(c), e, f, b)
  <1> DEFINE l == c.at.line
             d == NextLine(c)
  <1>1. /\ f \in Nat /\ b \in Nat /\ 1 < f /\ f < b
        /\ Len(RingGroup(e)) = IF e.gated THEN b + 7 ELSE b + 4
    BY DEF RingShape
  <1>2. /\ l + 1 \in Nat \ {0} /\ l + 1 \in 1 .. Len(RingGroup(e)) /\ l + 1 # b + 2
        /\ ~ l + 1 <= b + 1
    BY <1>1
  <1>3. d = AtLine(c, l + 1) BY DEF NextLine, AtLine
  <1> HIDE DEF d
  <1>4. /\ d.at.ctx = c.at.ctx /\ d.at.exten = c.at.exten /\ d.at.line = l + 1 /\ d.at # Ended
        /\ d.path = c.path /\ d.rang = c.rang /\ d.why = c.why /\ d.status = c.status
    BY <1>2, <1>3, MovesTo
  <1>5. InGroup(d, e, f, b) BY <1>2, <1>4 DEF InGroup
  <1> QED BY <1>4, <1>5 DEF GroupMove, d

LEMMA StepInTail ==
  ASSUME Typed, Present, Step, NEW e \in ExtRecord, e \in ToSet(Company.exts), NEW f, NEW b,
         RingShape(e, RingGroup(e), f, b), call.status # "ANSWER", InGroup(call, e, f, b),
         Here = RingGroup(e)[call.at.line],
         \/ call.at.line = b /\ Here.app \in {"Stasis", "Voicemail"} /\ Here.who = {e.number}
         \/ call.at.line \in {b + 1, b + 4, b + 7} /\ Here.app = "Hangup"
         \/ call.at.line \in {b + 3, b + 6} /\ Here.app = "Voicemail" /\ Here.who = {e.number}
         \/ call.at.line = b + 5 /\ e.gated /\ Here.app = "Playback"
  PROVE  GroupMove(call, call', e, f, b) \/ GroupEnd(call, call', e)
  <1> DEFINE l == call.at.line
             lines == RingGroup(e)
  <1>1. /\ call \in CallRecord /\ f \in Nat /\ b \in Nat /\ 1 < f /\ f < b
        /\ Len(lines) = IF e.gated THEN b + 7 ELSE b + 4
        /\ \A x : x \in ToSet(e.devices) <=>
                    \E k \in f .. b - 1 : lines[k].app = "Dial" /\ x \in lines[k].who
    BY DEF Typed, RingShape
  <1>2. ASSUME NEW end \in Ends, call' = Leave(call, end)
        PROVE  /\ call'.at = Ended /\ call'.path = call.path /\ call'.end = end
               /\ call'.rang = call.rang /\ call'.why = call.why
    BY <1>1, <1>2, LeaveIs DEF SameMarks
  <1>3. {"voicemail", "assistant", "hangup"} \subseteq Ends /\ "hangup" # "voicemail"
        /\ "hangup" # "assistant"
    BY DEF Ends
  <1>4. CASE l = b /\ Here.app \in {"Stasis", "Voicemail"} /\ Here.who = {e.number}
    <2>1. ASSUME call.why = {}, NEW x PROVE x \in call.rang <=> x \in ToSet(e.devices)
      <3>1. l <= b + 1 BY <1>1, <1>4
      <3>2. x \in call.rang <=>
              \E k \in f .. b - 1 : k < l /\ lines[k].app = "Dial" /\ x \in lines[k].who
        BY <2>1, <3>1 DEF InGroup
      <3>3. \A k \in f .. b - 1 : k < l BY <1>1, <1>4
      <3> QED BY <1>1, <3>2, <3>3
    <2>2. ASSUME NEW end \in {"voicemail", "assistant"}, call' = Leave(call, end)
          PROVE  GroupEnd(call, call', e)
      BY <1>2, <1>3, <2>1, <2>2 DEF GroupEnd
    <2>3. CASE Here.app = "Stasis"
      <3>1. call' = Leave(call, "assistant") BY <2>3, WhichStep DEF Assist
      <3> QED BY <2>2, <3>1
    <2>4. CASE Here.app = "Voicemail"
      <3>1. call' = Leave(call, "voicemail") \/ (call' = NextLine(call) /\ ~ e.mailbox)
        BY <1>4, <2>4, WhichStep, VoicemailTo
      <3>2. l <= b /\ lines[l].app # "Dial" BY <1>1, <1>4, <2>4
      <3>3. ~ e.mailbox => GroupMove(call, NextLine(call), e, f, b) BY <1>1, <3>2, NextInGroup
      <3> QED BY <2>2, <3>1, <3>3
    <2> QED BY <1>4, <2>3, <2>4
  <1>5. CASE l \in {b + 1, b + 4, b + 7} /\ Here.app = "Hangup"
    <2>1. call' = Leave(call, "hangup") BY <1>5, WhichStep DEF Drop
    <2>2. ~ e.mailbox BY <1>5 DEF InGroup
    <2> QED BY <1>2, <1>3, <2>1, <2>2 DEF GroupEnd
  <1>6. CASE l \in {b + 3, b + 6} /\ Here.app = "Voicemail" /\ Here.who = {e.number}
    <2>1. call.why # {}
      <3>1. l >= b + 3 BY <1>1, <1>6
      <3> QED BY <3>1 DEF InGroup
    <2>2. call' = Leave(call, "voicemail") \/ (call' = NextLine(call) /\ ~ e.mailbox)
      BY <1>6, WhichStep, VoicemailTo
    <2>3. CASE call' = Leave(call, "voicemail") BY <1>2, <1>3, <2>1, <2>3 DEF GroupEnd
    <2>4. CASE call' = NextLine(call) /\ ~ e.mailbox
      <3>1. l \in 1 .. Len(lines) BY DEF InGroup
      <3>2. l = b + 3 \/ (e.gated /\ l = b + 6) BY <1>1, <1>6, <3>1
      <3>3. GroupMove(call, NextLine(call), e, f, b) BY <1>1, <2>1, <2>4, <3>2, GoOnBehind
      <3> QED BY <2>4, <3>3
    <2> QED BY <2>2, <2>3, <2>4
  <1>7. CASE l = b + 5 /\ e.gated /\ Here.app = "Playback"
    <2>1. call' = NextLine(call) BY <1>7, WhichStep DEF Play
    <2>2. call.why # {}
      <3>1. l >= b + 3 BY <1>1, <1>7
      <3> QED BY <3>1 DEF InGroup
    <2> DEFINE n == b + 6
    <2>3. call' = AtLine(call, n)
      <3>1. l + 1 = n BY <1>1, <1>7
      <3> QED BY <2>1, <3>1 DEF NextLine, AtLine
    <2> QED BY <1>1, <1>7, <2>2, <2>3, SkipInGroup
  <1> QED BY <1>4, <1>5, <1>6, <1>7

\* A call at an extension stays at it until it ends as it should.
LEMMA StepInGroup ==
  ASSUME Typed, Step, call.steady, NEW e \in ToSet(Company.exts), NEW f, NEW b,
         RingShape(e, RingGroup(e), f, b), call.at.ctx = Ext(e), call.status # "ANSWER",
         InGroup(call, e, f, b)
  PROVE  GroupMove(call, call', e, f, b) \/ GroupEnd(call, call', e)
  <1> DEFINE l == call.at.line
             lines == RingGroup(e)
  <1>1. /\ Company \in CompanyRecord /\ Distinct(Company.exts)
        /\ Plans[loaded] = Plan(Company) /\ Lines(Ext(e), Start) = Plan(Company)[<<Ext(e), Start>>]
    BY PlansAre, DialplanAssumption DEF Typed, Company
  <1>2. call.at # Ended /\ <<Ext(e), call.at.exten>> \in DOMAIN Plan(Company)
    BY <1>1, StepIs DEF Typed
  <1>3. e \in ExtRecord /\ call.at.exten = Start /\ Lines(Ext(e), Start) = lines
    BY <1>1, <1>2, ExtPlan
  <1>4. l \in 1 .. Len(lines) /\ l # b + 2 BY DEF InGroup
  <1>5. Present /\ Here = lines[l] BY <1>1, <1>2, <1>3, <1>4 DEF Present, Here
  <1> HIDE DEF l, lines
  <1>6. \/ l \in 1 .. f - 1 /\ AskLine(e, lines[l])
        \/ l \in f .. b - 1 /\ RingLine(e, lines[l])
        \/ l = b /\ lines[l].app \in {"Stasis", "Voicemail"} /\ lines[l].who = {e.number}
        \/ l \in {b + 1, b + 4, b + 7} /\ lines[l].app = "Hangup"
        \/ l \in {b + 3, b + 6} /\ lines[l].app = "Voicemail" /\ lines[l].who = {e.number}
        \/ l = b + 5 /\ e.gated /\ lines[l].app = "Playback"
    BY <1>3, <1>4, GroupLine DEF lines
  <1>7. l \in 1 .. f - 1 /\ AskLine(e, lines[l]) => GroupMove(call, call', e, f, b)
    BY <1>3, <1>5, StepAsking DEF l, lines
  <1>8. l \in f .. b - 1 /\ RingLine(e, lines[l]) =>
          GroupMove(call, call', e, f, b) \/ GroupEnd(call, call', e)
    BY <1>3, <1>5, StepRinging DEF l, lines
  <1>9. l \notin 1 .. b - 1 => GroupMove(call, call', e, f, b) \/ GroupEnd(call, call', e)
    <2> SUFFICES ASSUME l \notin 1 .. b - 1
                 PROVE  GroupMove(call, call', e, f, b) \/ GroupEnd(call, call', e)
      OBVIOUS
    <2>1. f \in Nat /\ b \in Nat /\ 1 < f /\ f < b BY DEF RingShape
    <2>2. l \notin 1 .. f - 1 /\ l \notin f .. b - 1 BY <2>1
    <2> QED BY <1>3, <1>5, <1>6, <2>2, StepInTail DEF l, lines
  <1>10. l \in 1 .. b - 1 => l \in 1 .. f - 1 \/ l \in f .. b - 1 BY DEF RingShape
  <1>11. f \in Nat /\ b \in Nat /\ f < b BY DEF RingShape
  <1>12. l \in 1 .. b - 1 => l \notin {b, b + 1, b + 3, b + 4, b + 5, b + 6, b + 7}
    BY <1>11
  <1> QED BY <1>6, <1>7, <1>8, <1>9, <1>12

-----------------------------------------------------------------------------
(* A call elsewhere.                                                       *)

\* Only the contexts of extensions ring devices.
LEMMA RingsAreExts ==
  ASSUME NEW c \in CompanyRecord, NEW ctx, NEW exten, <<ctx, exten>> \in DOMAIN Plan(c),
         Rings(ctx), ctx # Outbound
  PROVE  \E e \in ToSet(c.exts) : ctx = Ext(e)
  <1>1. PICK s \in ToSet(Sections(c)) : s.ctx = ctx /\ s.exten = exten BY KeyFrom
  <1>2. Kinds(c, s) BY SectionKinds
  <1>3. Len(ctx) = 2 /\ ctx[1] = "ext" BY DEF Rings
  <1>4. ctx # Internal /\ ctx # FromTrunk /\ ctx # Failover
    <2>1. Len(Internal) = 1 /\ Len(FromTrunk) = 1 /\ Len(Failover) = 1
      BY DEF Internal, FromTrunk, Failover
    <2> QED BY <1>3, <2>1
  <1>5. ASSUME NEW x PROVE ctx # <<x>> /\ ctx # <<"vm", x>> /\ ctx # <<"time", x>>
    <2>1. Len(<<x>>) = 1 /\ <<"vm", x>>[1] = "vm" /\ <<"time", x>>[1] = "time" OBVIOUS
    <2>2. "vm" # "ext" /\ "time" # "ext" OBVIOUS
    <2> QED BY <1>3, <2>1, <2>2
  <1>6. RingSection(c, s)
    BY <1>1, <1>2, <1>4, <1>5 DEF Kinds, QueueSection, TimeSection, ChainSection, FailoverSection
  <1> QED BY <1>1, <1>5, <1>6 DEF RingSection

\* A trunk that is tried, as the call goes on or is answered.
LEMMA RingOutTo ==
  ASSUME Typed, Ring, call.at.ctx = Outbound
  PROVE  \E c \in CallRecord :
           /\ SameCall(call, c) /\ c.at = call.at /\ c.path = call.path /\ c.rang = call.rang
           /\ c.end = call.end
           /\ c.tried = Append(call.tried, [who |-> Here.who, seen |-> call.seen])
           /\ IF c.status = "ANSWER" THEN call' = Leave(c, "answered") ELSE call' = NextLine(c)
  <1>1. Present /\ Here.app = "Dial" BY DEF Ring, Does
  <1>2. call \in CallRecord /\ Here \in LineRecord BY <1>1, HereIs DEF Typed
  <1> DEFINE rung(status) ==
               [call EXCEPT !.status = status,
                  !.rang = IF call.at.ctx = Outbound THEN @ ELSE @ \union Here.who,
                  !.tried = IF call.at.ctx = Outbound
                            THEN Append(@, [who |-> Here.who, seen |-> call.seen]) ELSE @,
                  !.why = IF status = "BUSY" /\ ~ call.at.ctx = Outbound
                          THEN @ \union {status} ELSE @]
  <1>3. PICK status \in {"ANSWER", "BUSY", "NOANSWER", "CHANUNAVAIL"} :
          call' = IF status = "ANSWER" THEN Leave(rung(status), "answered")
                  ELSE NextLine(rung(status))
    BY Zenon DEF Ring
  <1> DEFINE c == rung(status)
             tried == Append(call.tried, [who |-> Here.who, seen |-> call.seen])
  <1>4. tried \in Seq(Tried)
    <2>1. [who |-> Here.who, seen |-> call.seen] \in Tried BY <1>2 DEF CallRecord, LineRecord, Tried
    <2> QED BY <1>2, <2>1 DEF CallRecord
  <1>5. c = [call EXCEPT !.status = status, !.rang = call.rang, !.tried = tried, !.why = call.why]
    OBVIOUS
  <1>6. call' = IF status = "ANSWER" THEN Leave(c, "answered") ELSE NextLine(c) BY <1>3
  <1> HIDE DEF c, tried
  <1>7. /\ c \in CallRecord /\ c.at = call.at /\ c.path = call.path /\ c.rang = call.rang
        /\ c.status = status /\ SameCall(call, c) /\ c.end = call.end /\ c.tried = tried
    BY <1>2, <1>4, <1>5 DEF CallRecord, Statuses, SameCall
  <1> QED BY <1>6, <1>7 DEF tried

\* Where a step takes a call and what it adds to its path.
Travels(c, d) ==
  /\ d.at # Ended =>
       /\ d.status # "ANSWER"
       /\ \/ d.path = c.path /\ d.at.ctx = c.at.ctx
          \/ d.path = Append(c.path, d.at.ctx) /\ (d.at.ctx = c.at.ctx \/ d.at.line = 1)
  /\ d.at = Ended => d.path = c.path \/ d.end = "lost"

LEMMA LeavesTravel ==
  ASSUME NEW c \in CallRecord, NEW end \in Ends
  PROVE  Travels(c, Leave(c, end)) /\ Leave(c, end).rang = c.rang
  BY LeaveIs DEF Travels, SameMarks

LEMMA NextLineTravels ==
  ASSUME NEW c \in CallRecord, c.at # Ended, c.status # "ANSWER"
  PROVE  Travels(c, NextLine(c)) /\ NextLine(c).rang = c.rang
  <1>1. /\ NextLine(c).at = NextSpot(c.at) /\ SameMarks(c, NextLine(c))
        /\ NextLine(c).path = c.path
    BY NextLineIs
  <1>2. c.at \in Spot BY DEF CallRecord
  <1>3. NextSpot(c.at).ctx = c.at.ctx /\ NextSpot(c.at).line = c.at.line + 1 /\ c.at.line \in Nat
    BY <1>2 DEF Spot, NextSpot
  <1>4. NextLine(c).at # Ended BY <1>1, <1>3 DEF Ended
  <1> QED BY <1>1, <1>3, <1>4 DEF Travels, SameMarks

LEMMA JumpsTravel ==
  ASSUME Typed, Present, Here.app \in Leads, NEW c \in CallRecord, c.at = call.at,
         c.status # "ANSWER"
  PROVE  Travels(c, Jumps(c, Here.to)) /\ Jumps(c, Here.to).rang = c.rang
  <1> DEFINE d == Jumps(c, Here.to)
             to == Here.to
  <1>1. /\ loaded \in DOMAIN Companies /\ c.at # Ended
        /\ <<c.at.ctx, c.at.exten>> \in DOMAIN Plans[loaded] /\ to \in Place
        /\ to.ctx # c.at.ctx => to.label = First
    BY HereIs DEF Typed, Present, LineFits, LineRecord
  <1>2. /\ Led(c, d, to.ctx, to.label) /\ SameMarks(c, d) /\ Headed(c, d, to)
    BY <1>1, JumpsIs
  <1> HIDE DEF d, to
  <1>3. d.status # "ANSWER" /\ d.rang = c.rang BY <1>2 DEF SameMarks
  <1>4. ASSUME d.at # Ended
        PROVE  /\ d.at.ctx = to.ctx
               /\ to.ctx # c.at.ctx => d.at.line = 1
    <2>1. d.at.ctx = to.ctx /\ d.at.line \in Positions(to.ctx, d.at.exten, to.label)
      BY <1>2, <1>4 DEF Led
    <2>2. to.ctx # c.at.ctx => Positions(to.ctx, d.at.exten, to.label) = {1} BY <1>1 DEF Positions
    <2> QED BY <2>1, <2>2
  <1>5. (d.path = c.path /\ to.ctx = c.at.ctx) \/ d.path = Append(c.path, to.ctx)
    BY <1>2 DEF Headed
  <1>6. d.at = Ended => d.end = "lost" BY <1>2 DEF Headed
  <1> QED BY <1>3, <1>4, <1>5, <1>6 DEF Travels, d, to

LEMMA StepElsewhere ==
  ASSUME Typed, Step, call.status # "ANSWER",
         Present => ~ (Here.app = "Dial" /\ call.at.ctx # Outbound)
  PROVE  Travels(call, call') /\ call'.rang = call.rang
  <1>1. call \in CallRecord /\ call.at # Ended BY StepIs DEF Typed
  <1>2. ASSUME call' = NextLine(call) PROVE Travels(call, call') /\ call'.rang = call.rang
    BY <1>1, <1>2, NextLineTravels
  <1>3. ASSUME NEW end \in Ends, call' = Leave(call, end)
        PROVE  Travels(call, call') /\ call'.rang = call.rang
    BY <1>1, <1>3, LeavesTravel
  <1>4. CASE Pass BY <1>2, <1>4 DEF Pass
  <1>5. CASE Jump
    BY <1>1, <1>5, JumpsTravel DEF Jump, Does, Leads
  <1>6. CASE Branch
    <2>1. Present /\ Here.app = "GotoIf" BY <1>6 DEF Branch, Does
    <2>2. call' = Jumps(Blamed(call), Here.to) \/ call' = NextLine(call) BY <1>6, BranchTo
    <2> DEFINE c == Blamed(call)
    <2>3. /\ c \in CallRecord /\ c.at = call.at /\ c.path = call.path /\ c.status = call.status
          /\ c.rang = call.rang
      BY <1>1, BlamedIs
    <2> HIDE DEF c
    <2>4. Travels(c, Jumps(c, Here.to)) /\ Jumps(c, Here.to).rang = c.rang
      BY <2>1, <2>3, JumpsTravel DEF Leads
    <2>5. call' = Jumps(c, Here.to) => Travels(call, call') /\ call'.rang = call.rang
      BY <2>3, <2>4 DEF Travels
    <2> QED BY <1>2, <2>2, <2>5 DEF c
  <1>7. CASE Ring
    <2>1. call.at.ctx = Outbound BY <1>7 DEF Ring, Does
    <2>2. PICK c \in CallRecord :
            /\ c.at = call.at /\ c.path = call.path /\ c.rang = call.rang
            /\ IF c.status = "ANSWER" THEN call' = Leave(c, "answered") ELSE call' = NextLine(c)
      BY <1>7, <2>1, RingOutTo
    <2>3. Travels(c, call') /\ call'.rang = c.rang
      BY <1>1, <2>2, LeavesTravel, NextLineTravels DEF Ends
    <2> QED BY <2>2, <2>3 DEF Travels
  <1>8. CASE Voicemail
    <2>1. call' = Leave(call, "voicemail") \/ call' = NextLine(call) BY <1>8 DEF Voicemail
    <2> QED BY <1>2, <1>3, <2>1 DEF Ends
  <1>9. CASE Assist BY <1>3, <1>9 DEF Assist, Ends
  <1>10. CASE Queue BY <1>3, <1>10 DEF Queue, Ends
  <1>11. CASE Play BY <1>2, <1>11 DEF Play
  <1>12. CASE Drop BY <1>3, <1>12 DEF Drop, Ends
  <1>13. CASE RunOut BY <1>3, <1>13 DEF RunOut, Ends
  <1> QED BY <1>4, <1>5, <1>6, <1>7, <1>8, <1>9, <1>10, <1>11, <1>12, <1>13 DEF Step

-----------------------------------------------------------------------------
(* A call that an extension does not answer.                               *)

\* A call at an extension is where InGroup says; elsewhere nobody rang.
AtExt(c) ==
  /\ \A e \in ToSet(Company.exts) : Ext(e) = c.at.ctx =>
       \A f, b : RingShape(e, RingGroup(e), f, b) => InGroup(c, e, f, b)
  /\ (\A e \in ToSet(Company.exts) : Ext(e) # c.at.ctx) => c.rang = {}

Held(c) ==
  /\ c.path # << >> /\ Last(c.path) = c.at.ctx /\ c.status # "ANSWER"
  /\ AtExt(c)

Caught ==
  /\ call.steady /\ call.at # Ended => Held(call)
  /\ UnansweredIsCaught

\* Nobody rang before the first line.
LEMMA AtFirstLine ==
  ASSUME NEW c, c.rang = {}, c.at.line = 1
  PROVE  AtExt(c)
  <1>1. ASSUME NEW e, NEW f, NEW b, RingShape(e, RingGroup(e), f, b) PROVE InGroup(c, e, f, b)
    <2> DEFINE lines == RingGroup(e)
    <2>1. /\ f \in Nat /\ b \in Nat /\ 1 < f /\ f < b
          /\ Len(lines) = IF e.gated THEN b + 7 ELSE b + 4
      BY <1>1 DEF RingShape
    <2>2. 1 \in 1 .. Len(lines) /\ 1 # b + 2 /\ ~ 1 > f /\ ~ 1 >= b + 3
          /\ 1 \notin {b + 1, b + 4, b + 7}
      BY <2>1
    <2>3. \A k \in f .. b - 1 : ~ k < 1 BY <2>1
    <2> QED BY <2>2, <2>3 DEF InGroup
  <1> QED BY <1>1 DEF AtExt

LEMMA CallAtFirstLine == call.rang = {} /\ call.at.line = 1 => AtExt(call)
  BY AtFirstLine

LEMMA LastOfMore ==
  ASSUME NEW S, NEW s \in Seq(S), NEW x \in S
  PROVE  Append(s, x) # << >> /\ Last(Append(s, x)) = x
  BY DEF Last

\* A call that has not ended has not been caught, and needs not be.
LEMMA NotYetCaught == Typed /\ call.at # Ended => UnansweredIsCaught
  <1>1. Typed /\ call.at # Ended => call.end = "none" BY DEF Typed
  <1> QED BY <1>1 DEF UnansweredIsCaught, Over

LEMMA NotSteady == ~ call.steady => UnansweredIsCaught
  BY DEF UnansweredIsCaught, Over

LEMMA LostIsNotCaught ==
  call.end \notin {"hangup", "voicemail", "assistant"} => UnansweredIsCaught
  BY DEF UnansweredIsCaught, Over

LEMMA BeginsCaught ==
  ASSUME Typed, DialInside \/ ClickToCall \/ CallIn
  PROVE  Caught'
  <1>1. PICK entry \in {"inside", "click", "trunk"}, number \in Text, cid \in Text, ctx \in Seq(Text) :
          Begin(NewCall(entry, number, cid), ctx)
    BY NumbersAreText, StringsAreText DEF DialInside, ClickToCall, CallIn
  <1>2. /\ call'.path = <<ctx>> /\ call'.rang = {} /\ call'.status = "none"
        /\ call'.at = Ended => call'.end = "lost"
        /\ call'.at # Ended => call'.at.ctx = ctx /\ call'.at.line = 1
    <2> DEFINE path == <<ctx>>
    <2>1. /\ call'.path = path /\ call'.rang = {} /\ call'.status = "none"
          /\ call'.at = Ended => call'.end = "lost"
          /\ call'.at # Ended => call'.at.ctx = ctx /\ call'.at.line = 1
      <3> HIDE DEF path
      <3>1. call'.path = path BY <1>1, BeginIs DEF path
      <3>2. call'.rang = {} /\ call'.status = "none" BY <1>1, BeginIs
      <3>3. call'.at = Ended => call'.end = "lost" BY <1>1, BeginIs
      <3>4. ASSUME call'.at # Ended PROVE call'.at.ctx = ctx /\ call'.at.line = 1
        <4>1. call'.at.ctx = ctx
          <5>1. /\ call' \in CallRecord /\ call'.seen = {now}
                /\ call'.at # Ended =>
                     /\ call'.end = "none" /\ call'.at.ctx = ctx
                     /\ <<ctx, call'.at.exten>> \in DOMAIN Plans[loaded] /\ call'.at.line = 1
            BY <1>1, BeginIs
          <5> QED BY <3>4, <5>1
        <4>2. call'.at.line = 1 BY <1>1, <3>4, BeginIs
        <4> QED BY <4>1, <4>2
      <3> QED BY <3>1, <3>2, <3>3, <3>4
    <2> QED BY <2>1
  <1>3. Typed' BY BeginsTyped
  <1>4. UnansweredIsCaught'
    <2>1. CASE call'.at = Ended
      <3>1. (call.end \notin {"hangup", "voicemail", "assistant"})' BY <1>2, <2>1
      <3> QED BY <3>1, LostIsNotCaught, PTL
    <2>2. CASE call'.at # Ended
      <3>1. (Typed /\ call.at # Ended)' BY <1>3, <2>2 DEF Ended
      <3> QED BY <3>1, NotYetCaught, PTL
    <2> QED BY <2>1, <2>2
  <1>5. ASSUME call'.at # Ended PROVE Held(call)'
    <2>1. call'.path # << >> /\ Last(call'.path) = ctx BY <1>2 DEF Last
    <2>2. (call.rang = {} /\ call.at.line = 1)' BY <1>2, <1>5
    <2>3. AtExt(call)' BY <2>2, CallAtFirstLine, PTL
    <2> QED BY <1>2, <1>5, <2>1, <2>3 DEF Held
  <1> QED BY <1>4, <1>5 DEF Caught, Ended

LEMMA StepHeld ==
  ASSUME Typed, Held(call), call.steady, Step, call'.at # Ended
  PROVE  Held(call')
  <1>1. /\ Company \in CompanyRecord /\ Plans[loaded] = Plan(Company) /\ call \in CallRecord
        /\ call' \in CallRecord /\ call.at # Ended
    BY PlansAre, StepIs DEF Typed
  <1>2. call.path # << >> /\ Last(call.path) = call.at.ctx /\ call.status # "ANSWER" BY DEF Held
  <1>3. CASE \E e \in ToSet(Company.exts) : Ext(e) = call.at.ctx
    <2>1. PICK e \in ToSet(Company.exts) : Ext(e) = call.at.ctx BY <1>3
    <2>2. ASSUME NEW d \in ToSet(Company.exts), Ext(d) = call.at.ctx, NEW f, NEW b,
                 RingShape(d, RingGroup(d), f, b)
          PROVE  GroupMove(call, call', d, f, b)
      <3>1. InGroup(call, d, f, b) BY <2>2 DEF Held, AtExt
      <3>2. GroupMove(call, call', d, f, b) \/ GroupEnd(call, call', d)
        BY <1>2, <2>2, <3>1, StepInGroup
      <3> QED BY <3>2 DEF GroupEnd
    <2>3. \E f, b : RingShape(e, RingGroup(e), f, b)
      <3>1. <<Ext(e), call.at.exten>> \in DOMAIN Plan(Company) BY <1>1, <2>1 DEF Typed
      <3>2. Distinct(Company.exts) BY DialplanAssumption DEF Typed, Company
      <3>3. e \in ExtRecord /\ HasRingGroup(e) BY <1>1, <3>1, <3>2, ExtPlan
      <3> QED BY <3>3, RingGroupShape
    <2>4. call'.at.ctx = call.at.ctx /\ call'.path = call.path /\ call'.status # "ANSWER"
      BY <2>1, <2>2, <2>3 DEF GroupMove
    <2>5. AtExt(call') BY <2>1, <2>2, <2>4 DEF AtExt, GroupMove
    <2> QED BY <1>2, <2>4, <2>5 DEF Held
  <1>4. CASE \A e \in ToSet(Company.exts) : Ext(e) # call.at.ctx
    <2>1. Present => ~ (Here.app = "Dial" /\ call.at.ctx # Outbound)
      BY <1>1, <1>4, HereIs, RingsAreExts DEF LineFits
    <2>2. Travels(call, call') /\ call'.rang = call.rang BY <1>2, <2>1, StepElsewhere
    <2>3. call.rang = {} BY <1>4 DEF Held, AtExt
    <2>4. /\ call'.status # "ANSWER"
          /\ \/ call'.path = call.path /\ call'.at.ctx = call.at.ctx
             \/ call'.path = Append(call.path, call'.at.ctx)
                /\ (call'.at.ctx = call.at.ctx \/ call'.at.line = 1)
      BY <2>2 DEF Travels
    <2>5. call'.path # << >> /\ Last(call'.path) = call'.at.ctx
      <3>1. call.path \in Seq(Seq(Text)) /\ call'.at.ctx \in Seq(Text) BY <1>1 DEF CallRecord, Spot
      <3> DEFINE S == Seq(Text)
      <3> HIDE DEF S
      <3>2. call.path \in Seq(S) /\ call'.at.ctx \in S BY <3>1 DEF S
      <3>3. /\ Append(call.path, call'.at.ctx) # << >>
            /\ Last(Append(call.path, call'.at.ctx)) = call'.at.ctx
        BY <3>2, LastOfMore
      <3> QED BY <1>2, <2>4, <3>3
    <2>6. AtExt(call')
      <3>1. CASE call'.at.line = 1 BY <2>2, <2>3, <3>1, AtFirstLine
      <3>2. CASE call'.at.ctx = call.at.ctx BY <1>4, <2>2, <2>3, <3>2 DEF AtExt
      <3> QED BY <2>4, <3>1, <3>2
    <2> QED BY <2>4, <2>5, <2>6 DEF Held
  <1> QED BY <1>3, <1>4

\* How a call that was held may end.
LEMMA StepEndsCaught ==
  ASSUME Typed, Held(call), call.steady, Step, call'.at = Ended,
         NEW e \in ToSet(Company.exts), Ext(e) = Last(call'.path), call'.end # "lost"
  PROVE  /\ call'.end = "hangup" => ~ e.mailbox
         /\ call'.end \in {"voicemail", "assistant"} /\ call'.why = {} =>
              call'.rang = ToSet(e.devices)
  <1>1. /\ Company \in CompanyRecord /\ Plans[loaded] = Plan(Company) /\ call \in CallRecord
        /\ call.at # Ended /\ call' \in CallRecord
    BY PlansAre, StepIs DEF Typed
  <1>2. call.path # << >> /\ Last(call.path) = call.at.ctx /\ call.status # "ANSWER" BY DEF Held
  <1>3. CASE \A d \in ToSet(Company.exts) : Ext(d) # call.at.ctx
    <2>1. Present => ~ (Here.app = "Dial" /\ call.at.ctx # Outbound)
      BY <1>1, <1>3, HereIs, RingsAreExts DEF LineFits
    <2>2. Travels(call, call') BY <1>2, <2>1, StepElsewhere
    <2> QED BY <1>2, <1>3, <2>2 DEF Travels
  <1>4. CASE \E d \in ToSet(Company.exts) : Ext(d) = call.at.ctx
    <2>1. PICK d \in ToSet(Company.exts) : Ext(d) = call.at.ctx BY <1>4
    <2>2. PICK f, b : RingShape(d, RingGroup(d), f, b)
      <3>1. <<Ext(d), call.at.exten>> \in DOMAIN Plan(Company) BY <1>1, <2>1 DEF Typed
      <3>2. Distinct(Company.exts) BY DialplanAssumption DEF Typed, Company
      <3>3. d \in ExtRecord /\ HasRingGroup(d) BY <1>1, <3>1, <3>2, ExtPlan
      <3> QED BY <3>3, RingGroupShape
    <2>3. InGroup(call, d, f, b) BY <2>1, <2>2 DEF Held, AtExt
    <2>4. GroupMove(call, call', d, f, b) \/ GroupEnd(call, call', d)
      BY <1>2, <2>1, <2>2, <2>3, StepInGroup
    <2>5. GroupEnd(call, call', d) BY <2>4 DEF GroupMove
    <2>6. d = e
      <3>1. Ext(d) = Ext(e) BY <1>2, <2>1, <2>5 DEF GroupEnd
      <3>2. d.number = e.number BY <3>1 DEF Ext
      <3>3. Distinct(Company.exts) BY DialplanAssumption DEF Typed, Company
      <3> QED BY <3>2, <3>3 DEF Distinct, ToSet
    <2>7. /\ call'.end = "hangup" => ~ e.mailbox
          /\ call'.end \in {"voicemail", "assistant"} /\ call'.why = {} =>
               \A x : x \in call'.rang <=> x \in ToSet(e.devices)
      BY <2>5, <2>6 DEF GroupEnd
    <2> QED BY <2>7
  <1> QED BY <1>3, <1>4

\* With the same records, what was said of a call before a step is said of it after.
LEMMA SameHeld ==
  ASSUME UNCHANGED loaded, Held(call')
  PROVE  Held(call)'
  <1>1. Company' = Company BY DEF Company
  <1> QED BY <1>1 DEF Held, AtExt, InGroup

LEMMA StepCaught ==
  ASSUME Typed, Caught, Step
  PROVE  Caught'
  <1>1. /\ call.at # Ended /\ UNCHANGED <<loaded, now, ticks, reloads>> /\ SameCall(call, call')
        /\ Typed'
    BY StepIs, StepTyped
  <1>2. Company' = Company BY <1>1 DEF Company
  <1>3. CASE ~ call.steady
    <2>1. (~ call.steady)' BY <1>1, <1>3 DEF SameCall
    <2>2. UnansweredIsCaught' BY <2>1, NotSteady, PTL
    <2> QED BY <2>1, <2>2 DEF Caught
  <1>4. CASE call.steady /\ call'.at # Ended
    <2>1. Held(call') BY <1>1, <1>4, StepHeld DEF Caught
    <2>2. Held(call)' BY <1>1, <2>1, SameHeld
    <2>3. (Typed /\ call.at # Ended)' BY <1>1, <1>4 DEF Ended
    <2>4. UnansweredIsCaught' BY <2>3, NotYetCaught, PTL
    <2> QED BY <2>2, <2>4 DEF Caught
  <1>5. CASE call.steady /\ call'.at = Ended
    <2>1. Held(call) BY <1>1, <1>5 DEF Caught
    <2>2. CASE call'.end = "lost"
      <3>1. (call.end \notin {"hangup", "voicemail", "assistant"})' BY <2>2
      <3>2. UnansweredIsCaught' BY <3>1, LostIsNotCaught, PTL
      <3> QED BY <1>5, <3>2 DEF Caught, Ended
    <2>3. CASE call'.end # "lost"
      <3>1. ASSUME NEW e \in ToSet(Company.exts), Ext(e) = Last(call'.path)
            PROVE  /\ call'.end = "hangup" => ~ e.mailbox
                   /\ call'.end \in {"voicemail", "assistant"} /\ call'.why = {} =>
                        call'.rang = ToSet(e.devices)
        BY <1>5, <2>1, <2>3, <3>1, StepEndsCaught
      <3>2. UnansweredIsCaught' BY <1>2, <3>1 DEF UnansweredIsCaught, Over
      <3> QED BY <1>5, <3>2 DEF Caught, Ended
    <2> QED BY <2>2, <2>3
  <1> QED BY <1>3, <1>4, <1>5

LEMMA NextCaught == Typed /\ Caught /\ [Next]_vars => Caught'
  <1> SUFFICES ASSUME Typed, Caught, [Next]_vars PROVE Caught' OBVIOUS
  <1>1. CASE DialInside \/ ClickToCall \/ CallIn BY <1>1, BeginsCaught
  <1>2. CASE Step BY <1>2, StepCaught
  <1>3. CASE HangUp
    <2>1. call'.at = Ended /\ call'.end = "gone" BY <1>3, LeaveIs DEF HangUp, Ends, Typed
    <2>2. (call.end \notin {"hangup", "voicemail", "assistant"})' BY <2>1
    <2>3. UnansweredIsCaught' BY <2>2, LostIsNotCaught, PTL
    <2> QED BY <2>1, <2>3 DEF Caught, Ended
  <1>4. CASE Tick
    <2>1. call' = [call EXCEPT !.seen = @ \union {now'}] /\ UNCHANGED loaded /\ call.at # Ended
      BY <1>4 DEF Tick
    <2>2. /\ call'.at = call.at /\ call'.path = call.path /\ call'.status = call.status
          /\ call'.rang = call.rang /\ call'.why = call.why /\ call'.steady = call.steady
      BY <2>1 DEF Typed, CallRecord
    <2>3. call.steady => Held(call') BY <2>1, <2>2 DEF Caught, Held, AtExt, InGroup
    <2>4. call'.steady => Held(call)' BY <2>1, <2>2, <2>3, SameHeld
    <2>5. Typed' BY <1>4, NextTyped DEF Next
    <2>6. (Typed /\ call.at # Ended)' BY <2>1, <2>2, <2>5 DEF Ended
    <2>7. UnansweredIsCaught' BY <2>6, NotYetCaught, PTL
    <2> QED BY <2>4, <2>7 DEF Caught
  <1>5. CASE Reload
    <2>1. (~ call.steady)' BY <1>5, ReloadIs
    <2>2. UnansweredIsCaught' BY <2>1, NotSteady, PTL
    <2> QED BY <2>1, <2>2 DEF Caught
  <1>6. CASE UNCHANGED vars
    <2>1. UNCHANGED <<call, loaded>> BY <1>6 DEF vars
    <2>2. Company' = Company BY <2>1 DEF Company
    <2>3. Held(call) => Held(call)' BY <2>1, <2>2 DEF Held, AtExt, InGroup
    <2>4. UnansweredIsCaught' BY <2>1, <2>2 DEF Caught, UnansweredIsCaught, Over
    <2> QED BY <2>1, <2>3, <2>4 DEF Caught, Ended
  <1> QED BY <1>1, <1>2, <1>3, <1>4, <1>5, <1>6 DEF Next

\* A call that ends unanswered at an extension ends in its mailbox if it has one,
\* and the mailbox or the assistant takes it only after every device rang, unless
\* one was busy or the person away: for every ring group, whatever its devices,
\* its strategy and its gate are.
THEOREM UnansweredCaught == Spec => []UnansweredIsCaught
  <1>1. Init => Caught
    <2> SUFFICES ASSUME Init PROVE Caught OBVIOUS
    <2>1. call.at = Ended /\ call.path = << >> BY NoCallIs DEF Init
    <2> QED BY <2>1 DEF Caught, UnansweredIsCaught
  <1>2. Spec => [](Typed /\ Caught) BY <1>1, InitTyped, NextTyped, NextCaught, PTL DEF Spec
  <1>3. Caught => UnansweredIsCaught BY DEF Caught
  <1> QED BY <1>2, <1>3, PTL

-----------------------------------------------------------------------------
(* Which section of a key comes first: its lines are those of the key as   *)
(* far as they go.                                                         *)

Leading(secs, key, S) == \E i \in 1 .. Len(secs) : IsFirst(secs, i, key) /\ secs[i] \in S
Lacks(secs, key) == \A s \in ToSet(secs) : <<s.ctx, s.exten>> # key

\* One sequence goes as far as another and may go on.
Starts(lines, plan) ==
  Len(lines) <= Len(plan) /\ \A k \in 1 .. Len(lines) : plan[k] = lines[k]

LEMMA LeadingLoaded ==
  ASSUME NEW secs \in Seq(SectionRecord), NEW key, NEW S, Leading(secs, key, S)
  PROVE  /\ key \in DOMAIN Loaded(secs)
         /\ \E s \in S : /\ s \in ToSet(secs) /\ <<s.ctx, s.exten>> = key
                         /\ Starts(s.lines, Loaded(secs)[key])
  <1>1. PICK i \in 1 .. Len(secs) : IsFirst(secs, i, key) /\ secs[i] \in S BY DEF Leading
  <1>2. <<secs[i].ctx, secs[i].exten>> = key BY <1>1 DEF IsFirst
  <1>3. secs[i] \in ToSet(secs) BY LenProperties DEF ToSet
  <1>4. key \in DOMAIN Loaded(secs) BY <1>2, <1>3 DEF Loaded
  <1>5. Merged(Loaded(secs)[key], secs, Len(secs), key) BY <1>4, LoadedIs
  <1>6. Starts(secs[i].lines, Loaded(secs)[key]) BY <1>1, <1>2, <1>5 DEF Merged, Starts
  <1> QED BY <1>1, <1>2, <1>3, <1>4, <1>6

LEMMA LeadingPlan ==
  ASSUME NEW c \in CompanyRecord, NEW key, NEW S, Leading(Sections(c), key, S)
  PROVE  /\ key \in DOMAIN Plan(c)
         /\ \E s \in S : /\ s \in ToSet(Sections(c)) /\ <<s.ctx, s.exten>> = key
                         /\ Starts(s.lines, Plan(c)[key])
  <1>1. Sections(c) \in Seq(SectionRecord)
    <2>1. Made(c) \subseteq SectionRecord BY DEF Made
    <2> QED BY <2>1, SectionsAre, SeqMonotonic
  <1> QED BY <1>1, LeadingLoaded DEF Plan

\* A key that is not lacking has a first section.
LEMMA LeadingIs ==
  ASSUME NEW R, NEW secs \in Seq(R), NEW key, ~ Lacks(secs, key)
  PROVE  Leading(secs, key, {s \in ToSet(secs) : <<s.ctx, s.exten>> = key})
  <1> DEFINE n == Len(secs)
             I == {i \in 1 .. n : <<secs[i].ctx, secs[i].exten>> = key}
  <1>1. n \in Nat /\ DOMAIN secs = 1 .. n BY LenProperties
  <1>2. I # {} BY <1>1 DEF Lacks, ToSet
  <1>3. I \subseteq Nat BY <1>1
  <1>4. PICK i \in I : \A j \in I : i <= j
    <2> HIDE DEF I
    <2> QED BY <1>2, <1>3, LeastNatural
  <1>5. ASSUME NEW j \in 1 .. i - 1 PROVE <<secs[j].ctx, secs[j].exten>> # key
    <2>1. j \in 1 .. n /\ ~ i <= j BY <1>1, <1>4
    <2> QED BY <1>4, <2>1
  <1>6. IsFirst(secs, i, key) BY <1>4, <1>5 DEF IsFirst
  <1>7. secs[i] \in {s \in ToSet(secs) : <<s.ctx, s.exten>> = key} BY <1>1, <1>4 DEF ToSet
  <1> QED BY <1>4, <1>6, <1>7 DEF Leading

LEMMA LeadingConcat ==
  ASSUME NEW R, NEW p \in Seq(R), NEW q \in Seq(R), NEW key, NEW S
  PROVE  /\ Leading(p, key, S) => Leading(p \o q, key, S)
         /\ Lacks(p, key) /\ Leading(q, key, S) => Leading(p \o q, key, S)
  <1> DEFINE a == Len(p)
             b == Len(q)
             r == p \o q
  <1>1. /\ a \in Nat /\ b \in Nat /\ DOMAIN p = 1 .. a /\ DOMAIN q = 1 .. b /\ Len(r) = a + b
        /\ \A i \in 1 .. a + b : r[i] = IF i <= a THEN p[i] ELSE q[i - a]
    BY ConcatProperties, LenProperties
  <1>2. \A i \in 1 .. a : i \in 1 .. a + b /\ i <= a /\ r[i] = p[i]
    <2>1. \A i \in 1 .. a : i \in 1 .. a + b /\ i <= a BY <1>1, InFirstPart
    <2> HIDE DEF r
    <2> QED BY <1>1, <2>1
  <1>3. \A i \in 1 .. b : a + i \in 1 .. a + b /\ r[a + i] = q[i]
    <2>1. \A i \in 1 .. b : a + i \in 1 .. a + b /\ ~ a + i <= a /\ a + i - a = i
      BY <1>1, InSecondPart
    <2> HIDE DEF r
    <2> QED BY <1>1, <2>1
  <1>4. Len(r) = a + b BY <1>1
  <1> HIDE DEF r
  <1>5. ASSUME Leading(p, key, S) PROVE Leading(r, key, S)
    <2>1. PICK i \in 1 .. a : IsFirst(p, i, key) /\ p[i] \in S BY <1>5 DEF Leading
    <2>2. \A j \in 1 .. i - 1 : j \in 1 .. a BY <1>1
    <2>3. IsFirst(r, i, key) BY <1>2, <2>1, <2>2 DEF IsFirst
    <2> QED BY <1>2, <1>4, <2>1, <2>3 DEF Leading
  <1>6. ASSUME Lacks(p, key), Leading(q, key, S) PROVE Leading(r, key, S)
    <2>1. PICK i \in 1 .. b : IsFirst(q, i, key) /\ q[i] \in S BY <1>6 DEF Leading
    <2>2. \A j \in 1 .. a : <<p[j].ctx, p[j].exten>> # key BY <1>1, <1>6 DEF Lacks, ToSet
    <2>3. ASSUME NEW j \in 1 .. a + i - 1 PROVE <<r[j].ctx, r[j].exten>> # key
      <3>1. CASE j <= a
        <4>1. j \in 1 .. a BY <1>1, <3>1
        <4> QED BY <1>2, <2>2, <4>1
      <3>2. CASE ~ j <= a
        <4>1. j - a \in 1 .. i - 1 /\ j - a \in 1 .. b /\ a + (j - a) = j BY <1>1, <3>2
        <4>2. r[j] = q[j - a] BY <1>3, <4>1
        <4>3. <<q[j - a].ctx, q[j - a].exten>> # key BY <2>1, <4>1 DEF IsFirst
        <4> QED BY <4>2, <4>3
      <3> QED BY <3>1, <3>2
    <2>4. r[a + i] = q[i] /\ a + i \in 1 .. a + b BY <1>3
    <2>5. IsFirst(r, a + i, key) BY <2>1, <2>3, <2>4 DEF IsFirst
    <2> QED BY <1>4, <2>1, <2>4, <2>5 DEF Leading
  <1> QED BY <1>5, <1>6 DEF r

\* Of routes: their sections are the first ones of their contexts.
LEMMA LeadingSections ==
  ASSUME NEW c \in CompanyRecord, NEW ctx, NEW exten, NEW S
  PROVE  LET key == <<ctx, exten>> IN
         /\ ctx = FromTrunk /\ Leading(InboundSections(c), key, S) => Leading(Sections(c), key, S)
         /\ ctx = Outbound /\ Leading(OutboundSections(c), key, S) => Leading(Sections(c), key, S)
  <1> DEFINE M == Made(c)
             key == <<ctx, exten>>
             entries == [i \in DOMAIN c.exts |-> InternalEntry(c.exts[i])]
             numbers == [i \in DOMAIN c.queues |-> QueueEntry(c.queues[i])]
             groups == [i \in DOMAIN c.exts |-> ExtSections(c.exts[i])]
             queues == [i \in DOMAIN c.queues |-> QueueSections(c.queues[i])]
             times == [i \in DOMAIN c.times |-> TimeSections(c.times[i])]
             any == Section(Internal, <<"_X.">>, NoService)
             E == FlattenSeq(entries)
             N == FlattenSeq(numbers)
             G == FlattenSeq(groups)
             Q == FlattenSeq(queues)
             T == FlattenSeq(times)
             O == OperatorEntry(c)
             W == OutboundEntry(c)
             I == InboundSections(c)
             F == OutboundSections(c)
  <1>1. PartsAre(c, Seq(M)) BY PartsAreMade DEF M
  <1>2. /\ E \in Seq(M) /\ N \in Seq(M) /\ O \in Seq(M) /\ W \in Seq(M) /\ any \in Seq(M)
        /\ G \in Seq(M) /\ I \in Seq(M) /\ F \in Seq(M) /\ Q \in Seq(M) /\ T \in Seq(M)
    BY <1>1 DEF PartsAre
  <1>3. /\ c.exts \in Seq(ExtRecord) /\ c.queues \in Seq(QueueRecord)
        /\ \A i \in DOMAIN c.exts : c.exts[i] \in ExtRecord /\ c.exts[i] \in ToSet(c.exts)
        /\ \A i \in DOMAIN c.queues : c.queues[i] \in QueueRecord /\ c.queues[i] \in ToSet(c.queues)
    <2>1. c.exts \in Seq(ExtRecord) /\ c.queues \in Seq(QueueRecord) BY DEF CompanyRecord
    <2> QED BY <2>1, LenProperties, ElementOfSeq DEF ToSet
  <1> HIDE DEF M
  <1>4. \A x \in ToSet(E) : x.ctx = Internal
    <2>1. entries = [i \in DOMAIN c.exts |-> entries[i]] OBVIOUS
    <2>2. \A i \in DOMAIN c.exts : entries[i] \in Seq(M) BY <1>3, ExtSectionsAre DEF M
    <2>3. \A i \in DOMAIN c.exts : entries[i] = InternalEntry(c.exts[i]) OBVIOUS
    <2> HIDE DEF entries
    <2>4. \A x : x \in ToSet(FlattenSeq(entries)) <=> \E i \in DOMAIN c.exts : x \in ToSet(entries[i])
      BY <1>3, <2>1, <2>2, EachHolds
    <2> QED BY <1>3, <2>3, <2>4, InternalEntriesHold
  <1>5. \A x \in ToSet(G) : RingSection(c, x)
    <2>1. groups = [i \in DOMAIN c.exts |-> groups[i]] OBVIOUS
    <2>2. \A i \in DOMAIN c.exts : groups[i] \in Seq(M) BY <1>3, ExtSectionsAre DEF M
    <2>3. \A i \in DOMAIN c.exts : groups[i] = ExtSections(c.exts[i]) OBVIOUS
    <2> HIDE DEF groups
    <2>4. \A x : x \in ToSet(FlattenSeq(groups)) <=> \E i \in DOMAIN c.exts : x \in ToSet(groups[i])
      BY <1>3, <2>1, <2>2, EachHolds
    <2> QED BY <1>3, <2>3, <2>4, ExtSectionsHold
  <1>6. \A x \in ToSet(N) : x.ctx = Internal
    <2>1. numbers = [i \in DOMAIN c.queues |-> numbers[i]] OBVIOUS
    <2>2. \A i \in DOMAIN c.queues : numbers[i] \in Seq(M) BY <1>3, QueueSectionsAre DEF M
    <2>3. \A i \in DOMAIN c.queues : numbers[i] = QueueEntry(c.queues[i]) OBVIOUS
    <2> HIDE DEF numbers
    <2>4. \A x : x \in ToSet(FlattenSeq(numbers)) <=> \E i \in DOMAIN c.queues : x \in ToSet(numbers[i])
      BY <1>3, <2>1, <2>2, EachHolds
    <2> QED BY <1>3, <2>3, <2>4, InternalEntriesHold
  <1>7. \A x : x \in ToSet(O) \union ToSet(W) \union ToSet(any) => x.ctx = Internal
    BY InternalEntriesHold
  <1> DEFINE p1 == E \o N
             p2 == p1 \o O
             p3 == p2 \o W
             p4 == p3 \o any
             p5 == p4 \o G
             p6 == p5 \o I
             p7 == p6 \o F
             p8 == p7 \o Q
             all == p8 \o T
  <1>8. Sections(c) = all BY DEF Sections, Each
  <1> HIDE DEF entries, numbers, groups, queues, times, any, E, N, G, Q, T, O, W, I, F
  <1>9. p1 \in Seq(M) /\ ToSet(p1) = ToSet(E) \union ToSet(N) BY <1>2, Concat, ConcatHolds
  <1> HIDE DEF p1
  <1>10. p2 \in Seq(M) /\ ToSet(p2) = ToSet(p1) \union ToSet(O) BY <1>2, <1>9, Concat, ConcatHolds
  <1> HIDE DEF p2
  <1>11. p3 \in Seq(M) /\ ToSet(p3) = ToSet(p2) \union ToSet(W) BY <1>2, <1>10, Concat, ConcatHolds
  <1> HIDE DEF p3
  <1>12. p4 \in Seq(M) /\ ToSet(p4) = ToSet(p3) \union ToSet(any) BY <1>2, <1>11, Concat, ConcatHolds
  <1> HIDE DEF p4
  <1>13. p5 \in Seq(M) /\ ToSet(p5) = ToSet(p4) \union ToSet(G) BY <1>2, <1>12, Concat, ConcatHolds
  <1> HIDE DEF p5
  <1>14. p6 \in Seq(M) /\ ToSet(p6) = ToSet(p5) \union ToSet(I) BY <1>2, <1>13, Concat, ConcatHolds
  <1>15. ASSUME NEW s \in ToSet(p5) PROVE s.ctx # FromTrunk /\ s.ctx # Outbound
    <2>1. s.ctx = Internal \/ RingSection(c, s)
      BY <1>4, <1>5, <1>6, <1>7, <1>9, <1>10, <1>11, <1>12, <1>13
    <2>2. Internal # FromTrunk /\ Internal # Outbound BY DEF Internal, FromTrunk, Outbound
    <2>3. RingSection(c, s) => s.ctx # FromTrunk /\ s.ctx # Outbound
      BY DEF RingSection, Ext, FromTrunk, Outbound
    <2> QED BY <2>1, <2>2, <2>3
  <1>16. ASSUME NEW s \in ToSet(I) PROVE s.ctx # Outbound
    BY InboundSectionsHold DEF I, FromTrunk, Outbound
  <1>17. ctx = FromTrunk \/ ctx = Outbound => Lacks(p5, key) BY <1>15 DEF Lacks
  <1>18. ctx = Outbound => Lacks(p6, key)
    <2> HIDE DEF p6
    <2> QED BY <1>14, <1>15, <1>16 DEF Lacks
  <1>19. Leading(p6, key, S) => Leading(all, key, S)
    <2> HIDE DEF p6, key
    <2>1. p7 \in Seq(M) /\ (Leading(p6, key, S) => Leading(p7, key, S))
      BY <1>2, <1>14, Concat, LeadingConcat DEF p6
    <2> HIDE DEF p7
    <2>2. p8 \in Seq(M) /\ (Leading(p7, key, S) => Leading(p8, key, S))
      BY <1>2, <2>1, Concat, LeadingConcat
    <2> HIDE DEF p8
    <2>3. Leading(p8, key, S) => Leading(all, key, S) BY <1>2, <2>2, LeadingConcat
    <2> QED BY <2>1, <2>2, <2>3
  <1>20. Leading(p7, key, S) => Leading(all, key, S)
    <2> HIDE DEF p6, key
    <2>1. p7 \in Seq(M) BY <1>2, <1>14, Concat DEF p6
    <2> HIDE DEF p7
    <2>2. p8 \in Seq(M) /\ (Leading(p7, key, S) => Leading(p8, key, S))
      BY <1>2, <2>1, Concat, LeadingConcat
    <2> HIDE DEF p8
    <2>3. Leading(p8, key, S) => Leading(all, key, S) BY <1>2, <2>2, LeadingConcat
    <2> QED BY <2>2, <2>3
  <1>21. ASSUME ctx = FromTrunk, Leading(I, key, S) PROVE Leading(all, key, S)
    <2>1. Leading(p6, key, S) BY <1>2, <1>13, <1>17, <1>21, LeadingConcat
    <2> QED BY <1>19, <2>1
  <1>22. ASSUME ctx = Outbound, Leading(F, key, S) PROVE Leading(all, key, S)
    <2> HIDE DEF p6
    <2>1. Leading(p7, key, S) BY <1>2, <1>14, <1>18, <1>22, LeadingConcat
    <2> QED BY <1>20, <2>1
  <1> QED BY <1>8, <1>21, <1>22 DEF I, F

-----------------------------------------------------------------------------
(* What is there in a dialplan.                                            *)

LEMMA SectionHas ==
  ASSUME NEW ctx, NEW exten, NEW lines
  PROVE  \E s \in ToSet(Section(ctx, exten, lines)) :
           s.ctx = ctx /\ s.exten = exten /\ s.lines = lines
  <1> DEFINE s == [ctx |-> ctx, exten |-> exten, lines |-> lines]
  <1>1. s.ctx = ctx /\ s.exten = exten /\ s.lines = lines OBVIOUS
  <1>2. Section(ctx, exten, lines) = <<s>> BY DEF Section
  <1> HIDE DEF s
  <1>3. s \in ToSet(<<s>>) BY Singletons
  <1> QED BY <1>1, <1>2, <1>3

\* Of two sections in a row, each is there.
LEMMA ConcatHasSection ==
  ASSUME NEW ctx, NEW exten, NEW lines, NEW ctx2, NEW exten2, NEW lines2
  PROVE  LET both == Section(ctx, exten, lines) \o Section(ctx2, exten2, lines2) IN
         /\ \E s \in ToSet(both) : s.ctx = ctx /\ s.exten = exten /\ s.lines = lines
         /\ \E s \in ToSet(both) : s.ctx = ctx2 /\ s.exten = exten2 /\ s.lines = lines2
  <1> DEFINE one == [ctx |-> ctx, exten |-> exten, lines |-> lines]
             two == [ctx |-> ctx2, exten |-> exten2, lines |-> lines2]
  <1>1. Section(ctx, exten, lines) = <<one>> /\ Section(ctx2, exten2, lines2) = <<two>>
    BY DEF Section
  <1>2. /\ one.ctx = ctx /\ one.exten = exten /\ one.lines = lines
        /\ two.ctx = ctx2 /\ two.exten = exten2 /\ two.lines = lines2
    OBVIOUS
  <1> HIDE DEF one, two
  <1>3. ToSet(<<one>> \o <<two>>) = {one} \union {two} BY Singletons, ConcatHolds
  <1> QED BY <1>1, <1>2, <1>3

LEMMA FirstSectionHas ==
  ASSUME NEW ctx, NEW exten, NEW lines
  PROVE  \E s \in ToSet(Section(ctx, exten, lines) \o << >>) :
           s.ctx = ctx /\ s.exten = exten /\ s.lines = lines
  <1> DEFINE one == [ctx |-> ctx, exten |-> exten, lines |-> lines]
  <1>1. Section(ctx, exten, lines) \o << >> = <<one>> \o << >> BY DEF Section
  <1>2. one.ctx = ctx /\ one.exten = exten /\ one.lines = lines OBVIOUS
  <1> HIDE DEF one
  <1>3. << >> \in Seq({one}) OBVIOUS
  <1>4. ToSet(<<one>> \o << >>) = {one} \union {} BY <1>3, Singletons, ConcatHolds, NoSection
  <1> QED BY <1>1, <1>2, <1>4

\* A ring group and a mailbox.
LEMMA ExtKeys ==
  ASSUME NEW c \in CompanyRecord, NEW e \in ToSet(c.exts), HasRingGroup(e)
  PROVE  /\ <<Ext(e), Start>> \in DOMAIN Plan(c)
         /\ e.mailbox => <<<<"vm", e.number>>, Start>> \in DOMAIN Plan(c)
  <1> DEFINE ring == RingGroup(e)
             box == <<Run("Voicemail", {e.number})>>
             vm == <<"vm", e.number>>
  <1>1. ExtSections(e) = Section(Ext(e), Start, ring)
                           \o (IF e.mailbox THEN Section(vm, Start, box) ELSE << >>)
    BY DEF ExtSections
  <1> HIDE DEF ring, box, vm
  <1>2. \E s \in ToSet(ExtSections(e)) : s.ctx = Ext(e) /\ s.exten = Start
    <2>1. CASE e.mailbox
      <3>1. ExtSections(e) = Section(Ext(e), Start, ring) \o Section(vm, Start, box) BY <1>1, <2>1
      <3> QED BY <3>1, ConcatHasSection
    <2>2. CASE ~ e.mailbox
      <3>1. ExtSections(e) = Section(Ext(e), Start, ring) \o << >> BY <1>1, <2>2
      <3> QED BY <3>1, FirstSectionHas
    <2> QED BY <2>1, <2>2
  <1>3. ASSUME e.mailbox PROVE \E s \in ToSet(ExtSections(e)) : s.ctx = vm /\ s.exten = Start
    <2>1. ExtSections(e) = Section(Ext(e), Start, ring) \o Section(vm, Start, box) BY <1>1, <1>3
    <2> QED BY <2>1, ConcatHasSection
  <1>4. \A s \in ToSet(ExtSections(e)) : s \in ToSet(Sections(c)) BY SectionFrom DEF Origin
  <1>5. \A ctx : (\E s \in ToSet(ExtSections(e)) : s.ctx = ctx /\ s.exten = Start)
                   => <<ctx, Start>> \in DOMAIN Plan(c)
    BY <1>4, KeyFrom
  <1> QED BY <1>2, <1>3, <1>5 DEF vm

LEMMA TimeKeys ==
  ASSUME NEW c \in CompanyRecord, NEW t \in ToSet(c.times)
  PROVE  <<<<"time", t.name>>, Start>> \in DOMAIN Plan(c)
  <1>1. \E lines : TimeSections(t) = Section(<<"time", t.name>>, Start, lines) BY DEF TimeSections
  <1>2. PICK s \in ToSet(TimeSections(t)) : s.ctx = <<"time", t.name>> /\ s.exten = Start
    BY <1>1, SectionHas
  <1>3. s \in ToSet(Sections(c)) BY SectionFrom DEF Origin
  <1> QED BY <1>2, <1>3, KeyFrom

\* Every number of digits has an exten inside; those that lead out are there
\* with the first route.
LEMMA InternalKeys ==
  ASSUME NEW c \in CompanyRecord
  PROVE  /\ <<Internal, <<"_X.">>>> \in DOMAIN Plan(c)
         /\ c.outbound # << >> => \A w \in WaysOut : <<Internal, w>> \in DOMAIN Plan(c)
  <1>1. <<Internal, <<"_X.">>>> \in DOMAIN Plan(c)
    <2> DEFINE any == <<"_X.">>
    <2> HIDE DEF any
    <2>1. PICK s \in ToSet(Section(Internal, any, NoService)) : s.ctx = Internal /\ s.exten = any
      BY SectionHas
    <2>2. s \in ToSet(Sections(c)) BY SectionFrom DEF Origin, any
    <2> QED BY <2>1, <2>2, KeyFrom DEF any
  <1>2. ASSUME c.outbound # << >>, NEW w \in WaysOut PROVE <<Internal, w>> \in DOMAIN Plan(c)
    <2> DEFINE zero == [ctx |-> Internal, exten |-> <<"_0.">>,
                        lines |-> <<Goto(At(Outbound, Dialled, First))>>]
               plus == [ctx |-> Internal, exten |-> <<"_+.">>,
                        lines |-> <<Goto(At(Outbound, Dialled, First))>>]
               swede == [ctx |-> Internal, exten |-> <<"_46.">>,
                         lines |-> <<Line, Goto(At(Outbound, DialledE164, First))>>]
    <2>1. OutboundEntry(c) = <<zero>> \o <<plus>> \o <<swede>> BY <1>2 DEF OutboundEntry, Section
    <2>2. /\ zero.ctx = Internal /\ plus.ctx = Internal /\ swede.ctx = Internal
          /\ zero.exten = <<"_0.">> /\ plus.exten = <<"_+.">> /\ swede.exten = <<"_46.">>
      OBVIOUS
    <2> HIDE DEF zero, plus, swede
    <2> DEFINE S == {zero, plus, swede}
    <2>3. <<zero>> \in Seq(S) /\ <<plus>> \in Seq(S) /\ <<swede>> \in Seq(S) OBVIOUS
    <2> HIDE DEF S
    <2> DEFINE p == <<zero>> \o <<plus>>
    <2>4. p \in Seq(S) /\ ToSet(p) = {zero} \union {plus}
      <3>1. p \in Seq(S) BY <2>3, Concat
      <3>2. ToSet(p) = ToSet(<<zero>>) \union ToSet(<<plus>>) BY <2>3, ConcatHolds
      <3> QED BY <3>1, <3>2, Singletons
    <2> HIDE DEF p
    <2>5. ToSet(p \o <<swede>>) = {zero} \union {plus} \union {swede}
      <3>1. ToSet(p \o <<swede>>) = ToSet(p) \union ToSet(<<swede>>) BY <2>3, <2>4, ConcatHolds
      <3> QED BY <2>4, <3>1, Singletons
    <2>6. \A s \in {zero, plus, swede} : s \in ToSet(OutboundEntry(c)) BY <2>1, <2>5 DEF p
    <2>7. \A s \in {zero, plus, swede} : s \in ToSet(Sections(c)) BY <2>6, SectionFrom DEF Origin
    <2>8. \E s \in {zero, plus, swede} : s.exten = w /\ s.ctx = Internal BY <2>2 DEF WaysOut
    <2> QED BY <2>7, <2>8, KeyFrom
  <1> QED BY <1>1, <1>2

-----------------------------------------------------------------------------
(* The lines of the routes of a match and of the chain of a pattern are    *)
(* the first ones of their extens.                                         *)

GroupOf(c, match) == Kept(c.inbound, {r \in ToSet(c.inbound) : InboundMatch(r) = match})
GroupLines(c, match) ==
  LET group == GroupOf(c, match) IN FlattenSeq([k \in DOMAIN group |-> InboundLines(group, k)])

\* A route is the first of its match, or it makes no section.
LEMMA GroupIs ==
  ASSUME NEW c, NEW i \in DOMAIN c.inbound
  PROVE  LET match == InboundMatch(c.inbound[i]) IN
         InboundGroup(c.inbound, i) =
           IF \E j \in 1 .. i - 1 : InboundMatch(c.inbound[j]) = match THEN << >>
           ELSE Section(FromTrunk, match, GroupLines(c, match))
  BY Zenon DEF InboundGroup, GroupLines, GroupOf

LEMMA GroupFirst ==
  ASSUME NEW c \in CompanyRecord, NEW o \in DOMAIN c.inbound
  PROVE  LET match == InboundMatch(c.inbound[o]) IN
         /\ <<FromTrunk, match>> \in DOMAIN Plan(c)
         /\ Starts(GroupLines(c, match), Plan(c)[<<FromTrunk, match>>])
  <1> DEFINE M == Made(c)
             match == InboundMatch(c.inbound[o])
             lines == GroupLines(c, match)
             key == <<FromTrunk, match>>
             groups == [i \in DOMAIN c.inbound |-> InboundGroup(c.inbound, i)]
             accounts == [i \in DOMAIN c.accounts |-> AccountEntry(c.accounts[i])]
             G == FlattenSeq(groups)
             F == InboundFallback(c.inbound)
             A == FlattenSeq(accounts)
  <1>1. /\ c.inbound \in Seq(InboundRecord) /\ c.accounts \in Seq(AccountRecord)
        /\ \A i \in DOMAIN c.accounts : c.accounts[i] \in AccountRecord
        /\ Len(c.inbound) \in Nat /\ DOMAIN c.inbound = 1 .. Len(c.inbound)
        /\ Len(c.accounts) \in Nat /\ DOMAIN c.accounts = 1 .. Len(c.accounts)
    BY LenProperties, ElementOfSeq DEF CompanyRecord
  <1>2. F \in Seq(M) BY InboundSectionsAre
  <1>3. /\ G \in Seq(M)
        /\ \A x : x \in ToSet(G) <=> \E i \in DOMAIN c.inbound : x \in ToSet(InboundGroup(c.inbound, i))
    <2>1. groups = [i \in DOMAIN c.inbound |-> groups[i]] OBVIOUS
    <2>2. \A i \in DOMAIN c.inbound : groups[i] \in Seq(M) BY InboundSectionsAre
    <2>3. \A i \in DOMAIN c.inbound : groups[i] = InboundGroup(c.inbound, i) OBVIOUS
    <2> HIDE DEF groups, M
    <2>4. \A x : x \in ToSet(FlattenSeq(groups)) <=> \E i \in DOMAIN c.inbound : x \in ToSet(groups[i])
      BY <1>1, <2>1, <2>2, EachHolds
    <2>5. FlattenSeq(groups) \in Seq(M) BY <1>1, <2>1, <2>2, EachIs
    <2> QED BY <2>3, <2>4, <2>5
  <1>4. A \in Seq(M)
    <2>1. accounts = [i \in DOMAIN c.accounts |-> accounts[i]] OBVIOUS
    <2>2. \A i \in DOMAIN c.accounts : accounts[i] \in Seq(M) BY <1>1, InboundSectionsAre
    <2> HIDE DEF accounts, M
    <2> QED BY <1>1, <2>1, <2>2, EachIs
  <1>5. InboundSections(c) = G \o F \o A
    <2>1. c.inbound # << >> BY <1>1
    <2> QED BY <2>1 DEF InboundSections, Each
  <1>6. ~ Lacks(G, key)
    <2> DEFINE J == {j \in DOMAIN c.inbound : InboundMatch(c.inbound[j]) = match}
    <2>1. J # {} /\ J \subseteq Nat BY <1>1
    <2>2. PICK i \in J : \A j \in J : i <= j
      <3> HIDE DEF J
      <3> QED BY <2>1, LeastNatural
    <2>3. ~ \E j \in 1 .. i - 1 : InboundMatch(c.inbound[j]) = match
      <3>1. \A j \in 1 .. i - 1 : j \in DOMAIN c.inbound /\ ~ i <= j BY <1>1, <2>2
      <3> QED BY <2>2, <3>1
    <2>4. InboundMatch(c.inbound[i]) = match /\ i \in DOMAIN c.inbound BY <2>2
    <2> HIDE DEF match, lines
    <2>5. InboundGroup(c.inbound, i) = Section(FromTrunk, match, GroupLines(c, match))
      BY <2>3, <2>4, GroupIs
    <2>6. PICK s \in ToSet(InboundGroup(c.inbound, i)) : s.ctx = FromTrunk /\ s.exten = match
      BY <2>5, SectionHas
    <2> QED BY <1>3, <2>4, <2>6 DEF Lacks
  <1>7. ASSUME NEW s \in ToSet(G), <<s.ctx, s.exten>> = key PROVE s.lines = lines
    <2>1. PICK i \in DOMAIN c.inbound : s \in ToSet(InboundGroup(c.inbound, i)) BY <1>3
    <2> DEFINE m == InboundMatch(c.inbound[i])
    <2>2. InboundGroup(c.inbound, i) = Section(FromTrunk, m, GroupLines(c, m))
      BY <2>1, GroupIs, NoSection
    <2> HIDE DEF m
    <2>3. s.exten = m /\ s.lines = GroupLines(c, m) BY <2>1, <2>2, OneSection
    <2> QED BY <1>7, <2>3
  <1> DEFINE S == {s \in ToSet(G) : <<s.ctx, s.exten>> = key}
  <1>8. \A s \in S : s.lines = lines BY <1>7
  <1> HIDE DEF M, G, F, A, lines, match
  <1>9. Leading(G, key, S) BY <1>3, <1>6, LeadingIs
  <1> HIDE DEF S, key
  <1> DEFINE p == G \o F
  <1>10. p \in Seq(M) /\ Leading(p, key, S) BY <1>2, <1>3, <1>9, Concat, LeadingConcat
  <1> HIDE DEF p
  <1>11. Leading(p \o A, key, S) BY <1>4, <1>10, LeadingConcat
  <1>12. Leading(Sections(c), key, S) BY <1>5, <1>11, LeadingSections DEF p, key
  <1>13. /\ key \in DOMAIN Plan(c)
         /\ \E s \in S : Starts(s.lines, Plan(c)[key])
    BY <1>12, LeadingPlan
  <1> QED BY <1>8, <1>13 DEF key, lines, match

\* The same of the routes of a pattern.
LEMMA ChainSectionIs ==
  ASSUME NEW c, NEW i \in DOMAIN c.outbound
  PROVE  LET pattern == c.outbound[i].pattern IN
         OutboundChain(c.outbound, i) =
           IF \E j \in 1 .. i - 1 : c.outbound[j].pattern = pattern THEN << >>
           ELSE Section(Outbound, <<pattern>>, ChainLines(Chain(c.outbound, pattern)))
  BY Zenon DEF OutboundChain, ChainLines

LEMMA ChainFirst ==
  ASSUME NEW c \in CompanyRecord, NEW o \in DOMAIN c.outbound
  PROVE  LET pattern == c.outbound[o].pattern IN
         /\ <<Outbound, <<pattern>>>> \in DOMAIN Plan(c)
         /\ Starts(ChainLines(Chain(c.outbound, pattern)), Plan(c)[<<Outbound, <<pattern>>>>])
  <1> DEFINE M == Made(c)
             pattern == c.outbound[o].pattern
             exten == <<pattern>>
             lines == ChainLines(Chain(c.outbound, pattern))
             key == <<Outbound, exten>>
             chains == [i \in DOMAIN c.outbound |-> OutboundChain(c.outbound, i)]
             C == FlattenSeq(chains)
             F == Section(Failover, <<"failover">>, <<Line, OutboundFailover(c.outbound)>>)
             H == Section(Failover, <<"hangup">>, <<Hangup>>)
  <1>1. /\ c.outbound \in Seq(OutboundRecord)
        /\ Len(c.outbound) \in Nat /\ DOMAIN c.outbound = 1 .. Len(c.outbound)
    BY LenProperties DEF CompanyRecord
  <1>2. c.outbound # << >> BY <1>1
  <1>3. F \in Seq(M) /\ H \in Seq(M) BY <1>2, OutboundSectionsAre
  <1>4. /\ C \in Seq(M)
        /\ \A x : x \in ToSet(C) <=> \E i \in DOMAIN c.outbound : x \in ToSet(OutboundChain(c.outbound, i))
    <2>1. chains = [i \in DOMAIN c.outbound |-> chains[i]] OBVIOUS
    <2>2. \A i \in DOMAIN c.outbound : chains[i] \in Seq(M) BY OutboundSectionsAre
    <2>3. \A i \in DOMAIN c.outbound : chains[i] = OutboundChain(c.outbound, i) OBVIOUS
    <2> HIDE DEF chains, M
    <2>4. \A x : x \in ToSet(FlattenSeq(chains)) <=> \E i \in DOMAIN c.outbound : x \in ToSet(chains[i])
      BY <1>1, <2>1, <2>2, EachHolds
    <2>5. FlattenSeq(chains) \in Seq(M) BY <1>1, <2>1, <2>2, EachIs
    <2> QED BY <2>3, <2>4, <2>5
  <1>5. OutboundSections(c) = C \o F \o H BY <1>2 DEF OutboundSections
  <1>6. ~ Lacks(C, key)
    <2> DEFINE J == {j \in DOMAIN c.outbound : c.outbound[j].pattern = pattern}
    <2>1. J # {} /\ J \subseteq Nat BY <1>1
    <2>2. PICK i \in J : \A j \in J : i <= j
      <3> HIDE DEF J
      <3> QED BY <2>1, LeastNatural
    <2>3. ~ \E j \in 1 .. i - 1 : c.outbound[j].pattern = pattern
      <3>1. \A j \in 1 .. i - 1 : j \in DOMAIN c.outbound /\ ~ i <= j BY <1>1, <2>2
      <3> QED BY <2>2, <3>1
    <2>4. c.outbound[i].pattern = pattern /\ i \in DOMAIN c.outbound BY <2>2
    <2> HIDE DEF pattern, lines
    <2>5. OutboundChain(c.outbound, i)
            = Section(Outbound, exten, ChainLines(Chain(c.outbound, pattern)))
      BY <2>3, <2>4, ChainSectionIs
    <2> HIDE DEF exten
    <2>6. PICK s \in ToSet(OutboundChain(c.outbound, i)) : s.ctx = Outbound /\ s.exten = exten
      BY <2>5, SectionHas
    <2> QED BY <1>4, <2>4, <2>6 DEF Lacks
  <1>7. ASSUME NEW s \in ToSet(C), <<s.ctx, s.exten>> = key PROVE s.lines = lines
    <2>1. PICK i \in DOMAIN c.outbound : s \in ToSet(OutboundChain(c.outbound, i)) BY <1>4
    <2> DEFINE m == c.outbound[i].pattern
    <2>2. OutboundChain(c.outbound, i) = Section(Outbound, <<m>>, ChainLines(Chain(c.outbound, m)))
      BY <2>1, ChainSectionIs, NoSection
    <2> HIDE DEF m
    <2>3. s.exten = <<m>> /\ s.lines = ChainLines(Chain(c.outbound, m)) BY <2>1, <2>2, OneSection
    <2>4. m = pattern BY <1>7, <2>3
    <2> QED BY <2>3, <2>4
  <1> DEFINE S == {s \in ToSet(C) : <<s.ctx, s.exten>> = key}
  <1>8. \A s \in S : s.lines = lines BY <1>7
  <1> HIDE DEF M, C, F, H, lines, pattern
  <1>9. Leading(C, key, S) BY <1>4, <1>6, LeadingIs
  <1> HIDE DEF S, key
  <1> DEFINE p == C \o F
  <1>10. p \in Seq(M) /\ Leading(p, key, S) BY <1>3, <1>4, <1>9, Concat, LeadingConcat
  <1> HIDE DEF p
  <1>11. Leading(p \o H, key, S) BY <1>3, <1>10, LeadingConcat
  <1>12. Leading(Sections(c), key, S) BY <1>5, <1>11, LeadingSections DEF p, key
  <1>13. /\ key \in DOMAIN Plan(c)
         /\ \E s \in S : Starts(s.lines, Plan(c)[key])
    BY <1>12, LeadingPlan
  <1> QED BY <1>8, <1>13 DEF key, lines, pattern, exten

LEMMA OutKeys ==
  ASSUME NEW c \in CompanyRecord, c.outbound # << >>
  PROVE  /\ <<Failover, <<"failover">>>> \in DOMAIN Plan(c)
         /\ <<Failover, <<"hangup">>>> \in DOMAIN Plan(c)
         /\ \A r \in ToSet(c.outbound) : <<Outbound, <<r.pattern>>>> \in DOMAIN Plan(c)
  <1> DEFINE fail == <<"failover">>
             over == <<"hangup">>
             lines == <<Line, OutboundFailover(c.outbound)>>
  <1>1. \A s \in ToSet(OutboundSections(c)) : s \in ToSet(Sections(c)) BY SectionFrom DEF Origin
  <1>2. \A s : \/ s \in ToSet(Section(Failover, fail, lines))
               \/ s \in ToSet(Section(Failover, over, <<Hangup>>))
               => s \in ToSet(OutboundSections(c))
    BY OutboundHolds
  <1>3. \A r \in ToSet(c.outbound) : <<Outbound, <<r.pattern>>>> \in DOMAIN Plan(c)
    BY ChainFirst DEF ToSet
  <1> HIDE DEF fail, over, lines
  <1>4. <<Failover, fail>> \in DOMAIN Plan(c)
    <2>1. PICK s \in ToSet(Section(Failover, fail, lines)) : s.ctx = Failover /\ s.exten = fail
      BY SectionHas
    <2> QED BY <1>1, <1>2, <2>1, KeyFrom
  <1>5. <<Failover, over>> \in DOMAIN Plan(c)
    <2>1. PICK s \in ToSet(Section(Failover, over, <<Hangup>>)) : s.ctx = Failover /\ s.exten = over
      BY SectionHas
    <2> QED BY <1>1, <1>2, <2>1, KeyFrom
  <1> QED BY <1>3, <1>4, <1>5 DEF fail, over

LEMMA InKeys ==
  ASSUME NEW c \in CompanyRecord, c.inbound # << >>
  PROVE  /\ <<FromTrunk, Start>> \in DOMAIN Plan(c)
         /\ \A r \in ToSet(c.inbound) : <<FromTrunk, InboundMatch(r)>> \in DOMAIN Plan(c)
         /\ \A a \in ToSet(c.accounts) : <<FromTrunk, <<a.user>>>> \in DOMAIN Plan(c)
         /\ (\E r \in ToSet(c.inbound) : OnlyCid(r)) \/ ~ (\E r \in ToSet(c.inbound) : CatchAll(r))
              => <<FromTrunk, <<"_.">>>> \in DOMAIN Plan(c)
  <1> DEFINE all == <<"_.">>
             some == \E i \in DOMAIN c.inbound : OnlyCid(c.inbound[i])
             every == \E i \in DOMAIN c.inbound : CatchAll(c.inbound[i])
             F == InboundFallback(c.inbound)
             here == Section(FromTrunk, Start, NoService)
             there == Section(FromTrunk, all, NoService)
  <1>1. /\ \A r : r \in ToSet(c.inbound) <=> \E i \in DOMAIN c.inbound : r = c.inbound[i]
    BY DEF ToSet
  <1>2. \A r \in ToSet(c.inbound) : <<FromTrunk, InboundMatch(r)>> \in DOMAIN Plan(c)
    BY <1>1, GroupFirst
  <1>3. \A s \in ToSet(InboundSections(c)) : s \in ToSet(Sections(c)) BY SectionFrom DEF Origin
  <1>4. /\ \A s \in ToSet(F) : s \in ToSet(InboundSections(c))
        /\ \A a \in ToSet(c.accounts) : \A s \in ToSet(AccountEntry(a)) : s \in ToSet(InboundSections(c))
    BY InboundHolds
  <1>5. ASSUME NEW a \in ToSet(c.accounts) PROVE <<FromTrunk, <<a.user>>>> \in DOMAIN Plan(c)
    <2>1. \E lines : AccountEntry(a) = Section(FromTrunk, <<a.user>>, lines) BY DEF AccountEntry
    <2>2. PICK s \in ToSet(AccountEntry(a)) : s.ctx = FromTrunk /\ s.exten = <<a.user>>
      BY <2>1, SectionHas
    <2> QED BY <1>3, <1>4, <2>2, KeyFrom
  <1>6. \A r : CatchAll(r) => InboundMatch(r) = Start BY DEF CatchAll, InboundMatch
  <1>7. \A r : OnlyCid(r) => InboundMatch(r) = all BY DEF OnlyCid, InboundMatch
  <1>8. ~ every => F = here \o (IF some THEN << >> ELSE there) BY Zenon DEF InboundFallback
  <1> HIDE DEF all, F
  <1>9. ASSUME ~ every PROVE \E s \in ToSet(F) : s.ctx = FromTrunk /\ s.exten = Start
    <2>1. CASE some
      <3>1. F = here \o << >> BY <1>8, <1>9, <2>1
      <3> QED BY <3>1, FirstSectionHas
    <2>2. CASE ~ some
      <3>1. F = here \o there BY <1>8, <1>9, <2>2
      <3> QED BY <3>1, ConcatHasSection
    <2> QED BY <2>1, <2>2
  <1>10. ASSUME ~ every, ~ some PROVE \E s \in ToSet(F) : s.ctx = FromTrunk /\ s.exten = all
    <2>1. F = here \o there BY <1>8, <1>10
    <2> QED BY <2>1, ConcatHasSection
  <1>11. <<FromTrunk, Start>> \in DOMAIN Plan(c)
    <2>1. CASE every BY <1>1, <1>2, <1>6, <2>1
    <2>2. CASE ~ every BY <1>3, <1>4, <1>9, <2>2, KeyFrom
    <2> QED BY <2>1, <2>2
  <1>12. ASSUME some \/ ~ every PROVE <<FromTrunk, all>> \in DOMAIN Plan(c)
    <2>1. CASE some BY <1>1, <1>2, <1>7, <2>1
    <2>2. CASE ~ some BY <1>3, <1>4, <1>10, <1>12, <2>2, KeyFrom
    <2> QED BY <2>1, <2>2
  <1>13. (\E r \in ToSet(c.inbound) : OnlyCid(r)) \/ ~ (\E r \in ToSet(c.inbound) : CatchAll(r))
           => some \/ ~ every
    BY <1>1
  <1> HIDE DEF some, every
  <1> QED BY <1>2, <1>5, <1>11, <1>12, <1>13, Zenon DEF all

-----------------------------------------------------------------------------
(* Every line leads to a place there is, or a record names one there is    *)
(* not.                                                                    *)

Arrives(c, to) ==
  /\ to.label = First
  /\ to.exten = Start \/ (to.ctx = Failover /\ to.exten \in {<<"failover">>, <<"hangup">>})
  /\ <<to.ctx, to.exten>> \in DOMAIN Plan(c) \/ NotMade(c, to.ctx)

Labels(lines) == {lines[k].label : k \in 1 .. Len(lines)}

\* To a label of the exten itself, to another context, or out with the number.
Reaches(c, ctx, exten, to) ==
  \/ to.ctx = ctx /\ to.exten = exten /\ to.label \in Labels(Plan(c)[<<ctx, exten>>])
  \/ Arrives(c, to)
  \/ /\ ctx = Internal /\ exten \in WaysOut
     /\ to = At(Outbound, IF exten = <<"_46.">> THEN DialledE164 ELSE Dialled, First)

Reaching(c, s) == \A l \in ToSet(s.lines) : l.app \in Leads => Reaches(c, s.ctx, s.exten, l.to)

\* No two extensions have a number, and what records lead to are destinations.
WellLed(c) == Distinct(c.exts) /\ \A d \in DestinationsOf(c) : IsDestination(d)

LEMMA DestinationsAre ==
  ASSUME NEW c \in CompanyRecord
  PROVE  /\ \A d \in DestinationsOf(c) : d \in Seq(STRING)
         /\ \A r \in ToSet(c.inbound) : r.dest \in DestinationsOf(c)
         /\ \A a \in ToSet(c.accounts) : a.dest \in DestinationsOf(c)
         /\ \A r \in ToSet(c.outbound) : r.failover \in DestinationsOf(c)
         /\ \A t \in ToSet(c.times) : t.match \in DestinationsOf(c) /\ t.nomatch \in DestinationsOf(c)
  <1>1. /\ c.inbound \in Seq(InboundRecord) /\ c.accounts \in Seq(AccountRecord)
        /\ c.outbound \in Seq(OutboundRecord) /\ c.times \in Seq(TimeRecord)
    BY DEF CompanyRecord
  <1>2. /\ \A r \in ToSet(c.inbound) : r \in InboundRecord
        /\ \A a \in ToSet(c.accounts) : a \in AccountRecord
        /\ \A r \in ToSet(c.outbound) : r \in OutboundRecord
        /\ \A t \in ToSet(c.times) : t \in TimeRecord
    BY <1>1, LenProperties, ElementOfSeq DEF ToSet
  <1>3. /\ \A r \in ToSet(c.inbound) : r.dest \in Seq(STRING)
        /\ \A a \in ToSet(c.accounts) : a.dest \in Seq(STRING)
        /\ \A r \in ToSet(c.outbound) : r.failover \in Seq(STRING)
        /\ \A t \in ToSet(c.times) : t.match \in Seq(STRING) /\ t.nomatch \in Seq(STRING)
    BY <1>2 DEF InboundRecord, AccountRecord, OutboundRecord, TimeRecord
  <1> QED BY <1>3 DEF DestinationsOf

LEMMA DestinationArrives ==
  ASSUME NEW c \in CompanyRecord, WellLed(c), NEW d \in DestinationsOf(c), d # << >>
  PROVE  Arrives(c, At(d, Start, First))
  <1>1. <<d, Start>> \in DOMAIN Plan(c) \/ NotMade(c, d)
    <2>1. d \in Seq(STRING) /\ Len(d) \in Nat BY DestinationsAre
    <2>2. Len(d) # 0 BY <2>1
    <2>3. CASE Len(d) = 1 BY <2>3 DEF NotMade
    <2>4. CASE Len(d) = 2 /\ d[1] \in {"ext", "vm", "queue", "time"}
      <3>1. d = <<d[1], d[2]>> BY <2>1, <2>4
      <3> DEFINE kind == d[1]
                 name == d[2]
      <3>2. d = <<kind, name>> BY <3>1
      <3> HIDE DEF kind, name
      <3>3. CASE kind = "ext"
        <4>1. ASSUME NEW e \in ToSet(c.exts), e.number = name, HasRingGroup(e)
              PROVE  <<d, Start>> \in DOMAIN Plan(c)
          BY <3>2, <3>3, <4>1, ExtKeys DEF Ext
        <4> QED BY <3>3, <4>1 DEF NotMade, kind, name
      <3>4. CASE kind = "vm"
        <4>1. ASSUME NEW e \in ToSet(c.exts), e.number = name, HasRingGroup(e), e.mailbox
              PROVE  <<d, Start>> \in DOMAIN Plan(c)
          BY <3>2, <3>4, <4>1, ExtKeys
        <4> QED BY <3>4, <4>1 DEF NotMade, kind, name
      <3>5. CASE kind = "time"
        <4>1. ASSUME NEW t \in ToSet(c.times), t.name = name
              PROVE  <<d, Start>> \in DOMAIN Plan(c)
          BY <3>2, <3>5, <4>1, TimeKeys
        <4> QED BY <3>5, <4>1 DEF NotMade, kind, name
      <3>6. CASE kind = "queue" BY <3>6 DEF NotMade, kind
      <3> QED BY <2>4, <3>3, <3>4, <3>5, <3>6 DEF kind
    <2>5. Len(d) <= 1 \/ (Len(d) = 2 /\ d[1] \in {"ext", "vm", "queue", "time"})
      BY DEF WellLed, IsDestination
    <2>6. Len(d) = 1 \/ (Len(d) = 2 /\ d[1] \in {"ext", "vm", "queue", "time"})
      <3> DEFINE n == Len(d)
      <3>1. n \in Nat /\ n # 0 BY <2>1, <2>2
      <3> HIDE DEF n
      <3>2. n <= 1 => n = 1 BY <3>1
      <3> QED BY <2>5, <3>2 DEF n
    <2> QED BY <2>3, <2>4, <2>6
  <1> QED BY <1>1 DEF Arrives, At

LEMMA RenderArrives ==
  ASSUME NEW c \in CompanyRecord, WellLed(c), NEW d \in DestinationsOf(c)
  PROVE  /\ Render(d).app \in Leads => Arrives(c, Render(d).to)
         /\ \A label : Labelled(label, Render(d)).app \in Leads
                         => Arrives(c, Labelled(label, Render(d)).to)
  <1>1. CASE d = << >>
    <2>1. Hangup.app = "Hangup" /\ Hangup \in LineRecord BY RunIs DEF Hangup, Apps
    <2>2. Render(d) = Hangup BY <1>1 DEF Render
    <2>3. \A label : Labelled(label, Hangup).app = "Hangup" BY <2>1 DEF Labelled, LineRecord
    <2> QED BY <2>1, <2>2, <2>3 DEF Leads
  <1>2. CASE d # << >>
    <2>1. Render(d) = Goto(At(d, Start, First)) BY <1>2 DEF Render
    <2> DEFINE to == At(d, Start, First)
    <2>2. Arrives(c, to) BY <1>2, DestinationArrives
    <2> HIDE DEF to
    <2>3. Goto(to).to = to /\ \A label : Labelled(label, Goto(to)).to = to
      BY DEF Goto, Labelled, Line
    <2> QED BY <2>1, <2>2, <2>3 DEF to
  <1> QED BY <1>1, <1>2

LEMMA LabelThere ==
  ASSUME NEW R, NEW lines \in Seq(R), NEW plan, Len(plan) \in Nat, Starts(lines, plan),
         NEW l \in ToSet(lines)
  PROVE  l.label \in Labels(plan)
  <1>1. Len(lines) \in Nat /\ DOMAIN lines = 1 .. Len(lines) BY LenProperties
  <1>2. PICK k \in 1 .. Len(lines) : l = lines[k] BY <1>1 DEF ToSet
  <1>3. k \in 1 .. Len(plan) /\ plan[k] = l BY <1>1, <1>2 DEF Starts
  <1> QED BY <1>3 DEF Labels

LEMMA Several ==
  ASSUME NEW x, NEW y, NEW z
  PROVE  /\ ToSet(<<x>>) = {x} /\ ToSet(<<x, y>>) = {x, y} /\ ToSet(<<x, y, z>>) = {x, y, z}
         /\ \A S : /\ x \in S => <<x>> \in Seq(S)
                   /\ x \in S /\ y \in S => <<x, y>> \in Seq(S)
                   /\ x \in S /\ y \in S /\ z \in S => <<x, y, z>> \in Seq(S)
  <1>1. ToSet(<<x>>) = {x} /\ ToSet(<<x, y>>) = {x, y} BY DEF ToSet
  <1>2. ToSet(<<x, y, z>>) = {x, y, z} BY DEF ToSet
  <1> QED BY <1>1, <1>2

\* Where the lines of an inbound route lead, and their labels.
LEMMA InboundLinesHold ==
  ASSUME NEW group \in Seq(InboundRecord), NEW i \in 1 .. Len(group)
  PROVE  LET r == group[i] IN
         /\ \A l \in ToSet(InboundLines(group, i)) : l.app \in Leads =>
              \/ l = Render(r.dest)
              \/ OnlyCid(r) /\ l.to = At(FromTrunk, InboundMatch(r), <<"r", r.seq>>)
              \/ OnlyCid(r) /\ l.to = NextInbound(group, i)
         /\ OnlyCid(r) => \E l \in ToSet(InboundLines(group, i)) : l.label = <<"r", r.seq>>
         /\ i # 1 => \E l \in ToSet(InboundLines(group, i)) : l.label = <<"start", r.seq>>
         /\ InboundLines(group, i) \in Seq(LineRecord)
  <1> DEFINE r == group[i]
             S == LineRecord
             own == <<"r", r.seq>>
             start == <<"start", r.seq>>
             caller == <<"CALLERID", r.cid>>
             to == At(FromTrunk, InboundMatch(r), own)
             then == NextInbound(group, i)
             top == IF i = 1 THEN Line ELSE Labelled(start, Line)
             ask == GotoIf(caller, to)
             go == Goto(then)
             mark == Labelled(own, Line)
             out == Render(r.dest)
             head == <<top>>
             mid == IF OnlyCid(r) THEN <<ask, go, mark>> ELSE <<Line>>
             last == <<out>>
  <1>1. InboundLines(group, i) = head \o mid \o last BY DEF InboundLines
  <1>2. r \in InboundRecord BY ElementOfSeq
  <1>3. own \in Label /\ start \in Label /\ caller \in Seq(Text) /\ out \in S
    <2>1. out \in Fitting(FromTrunk, InboundMatch(r)) BY <1>2, MatchIs
    <2> QED BY <1>2, <2>1, MatchIs DEF Fitting
  <1> HIDE DEF own, start, caller, out, then, to
  <1>4. /\ top.app = "NoOp" /\ top.label = (IF i = 1 THEN << >> ELSE start)
        /\ mark.app = "NoOp" /\ mark.label = own
    BY <1>3, LineIs, LabelledIs
  <1>5. ask.to = to /\ go.to = then BY LineIs DEF GotoIf, Goto, Line
  <1>6. InboundLines(group, i) \in Seq(S)
    <2>1. InboundLines(group, i) \in Seq(Fitting(FromTrunk, Start)) BY InboundLinesFit
    <2>2. Fitting(FromTrunk, Start) \subseteq S BY DEF Fitting
    <2> QED BY <2>1, <2>2, SeqMonotonic
  <1> DEFINE T == {top, ask, go, mark, Line, out}
             hm == head \o mid
  <1>7. head \in Seq(T) /\ mid \in Seq(T) /\ last \in Seq(T) BY Several
  <1>8. /\ ToSet(head) = {top} /\ ToSet(last) = {out}
        /\ ToSet(mid) = IF OnlyCid(r) THEN {ask, go, mark} ELSE {Line}
    <2> HIDE DEF top, ask, go, mark
    <2> DEFINE three == <<ask, go, mark>>
               one == <<Line>>
    <2>1. ToSet(head) = {top} /\ ToSet(last) = {out} BY Several
    <2>2. ToSet(three) = {ask, go, mark} BY DEF ToSet
    <2>3. ToSet(one) = {Line} BY Several
    <2>4. mid = IF OnlyCid(r) THEN three ELSE one OBVIOUS
    <2> HIDE DEF three, one, mid
    <2> QED BY <2>1, <2>2, <2>3, <2>4
  <1> HIDE DEF T, head, mid, last, top, ask, go, mark
  <1>9. hm \in Seq(T) /\ ToSet(hm) = ToSet(head) \union ToSet(mid) BY <1>7, Concat, ConcatHolds
  <1> HIDE DEF hm
  <1>10. ToSet(hm \o last) = ToSet(hm) \union ToSet(last) BY <1>7, <1>9, ConcatHolds
  <1>11. \A l : l \in ToSet(InboundLines(group, i)) <=>
           l = top \/ l = out \/ (IF OnlyCid(r) THEN l \in {ask, go, mark} ELSE l = Line)
    BY <1>1, <1>8, <1>9, <1>10 DEF hm
  <1>12. ASSUME NEW l \in ToSet(InboundLines(group, i)), l.app \in Leads
         PROVE  l = out \/ (OnlyCid(r) /\ (l.to = to \/ l.to = then))
    <2>1. l # top /\ l # mark /\ l # Line BY <1>4, <1>12, LineIs DEF Leads
    <2> QED BY <1>5, <1>11, <1>12, <2>1
  <1>13. OnlyCid(r) => \E l \in ToSet(InboundLines(group, i)) : l.label = own BY <1>4, <1>11
  <1>14. i # 1 => \E l \in ToSet(InboundLines(group, i)) : l.label = start BY <1>4, <1>11
  <1> HIDE DEF r
  <1> QED BY <1>6, <1>12, <1>13, <1>14, Zenon DEF own, start, to, then, out, r

LEMMA GroupOfIs ==
  ASSUME NEW c \in CompanyRecord, NEW match
  PROVE  LET group == GroupOf(c, match) IN
         /\ group \in Seq(InboundRecord) /\ Len(group) \in Nat /\ DOMAIN group = 1 .. Len(group)
         /\ \A k \in 1 .. Len(group) : /\ group[k] \in ToSet(c.inbound)
                                       /\ InboundMatch(group[k]) = match
         /\ GroupLines(c, match) \in Seq(LineRecord)
         /\ \A l : l \in ToSet(GroupLines(c, match)) <=>
              \E k \in 1 .. Len(group) : l \in ToSet(InboundLines(group, k))
  <1> DEFINE group == GroupOf(c, match)
             f == [k \in DOMAIN group |-> InboundLines(group, k)]
             S == {r \in ToSet(c.inbound) : InboundMatch(r) = match}
  <1>1. c.inbound \in Seq(InboundRecord) BY DEF CompanyRecord
  <1>2. /\ group \in Seq(InboundRecord)
        /\ \A k \in 1 .. Len(group) : group[k] \in S \intersect InboundRecord
    BY <1>1, KeptIs DEF GroupOf
  <1>3. Len(group) \in Nat /\ DOMAIN group = 1 .. Len(group) BY <1>2, LenProperties
  <1>4. GroupLines(c, match) = FlattenSeq(f) BY DEF GroupLines
  <1>5. \A k \in 1 .. Len(group) : group[k] \in ToSet(c.inbound) /\ InboundMatch(group[k]) = match
    BY <1>2
  <1> HIDE DEF group
  <1>6. f = [k \in DOMAIN group |-> f[k]] OBVIOUS
  <1>7. /\ \A k \in DOMAIN group : f[k] = InboundLines(group, k)
        /\ \A k \in DOMAIN group : f[k] \in Seq(LineRecord)
    BY <1>2, <1>3, InboundLinesHold
  <1> HIDE DEF f
  <1>8. FlattenSeq(f) \in Seq(LineRecord) BY <1>3, <1>6, <1>7, EachIs
  <1>9. \A l : l \in ToSet(FlattenSeq(f)) <=> \E k \in DOMAIN group : l \in ToSet(f[k])
    BY <1>2, <1>6, <1>7, EachHolds
  <1> QED BY <1>2, <1>3, <1>4, <1>5, <1>7, <1>8, <1>9 DEF group

LEMMA GroupReaches ==
  ASSUME NEW c \in CompanyRecord, WellLed(c), NEW o \in DOMAIN c.inbound,
         NEW l \in ToSet(GroupLines(c, InboundMatch(c.inbound[o]))), l.app \in Leads
  PROVE  Reaches(c, FromTrunk, InboundMatch(c.inbound[o]), l.to)
  <1> DEFINE match == InboundMatch(c.inbound[o])
             group == GroupOf(c, match)
             plan == Plan(c)[<<FromTrunk, match>>]
             lines == GroupLines(c, match)
  <1>1. /\ group \in Seq(InboundRecord) /\ Len(group) \in Nat /\ DOMAIN group = 1 .. Len(group)
        /\ \A k \in 1 .. Len(group) : /\ group[k] \in ToSet(c.inbound)
                                      /\ InboundMatch(group[k]) = match
        /\ lines \in Seq(LineRecord)
        /\ \A x : x \in ToSet(lines) <=> \E k \in 1 .. Len(group) : x \in ToSet(InboundLines(group, k))
    BY GroupOfIs
  <1>2. Starts(lines, plan) /\ <<FromTrunk, match>> \in DOMAIN Plan(c) BY GroupFirst
  <1>3. Len(plan) \in Nat BY <1>2, PlanIs
  <1> HIDE DEF match, group, lines, plan
  <1>4. \A x \in ToSet(lines) : x.label \in Labels(plan) BY <1>1, <1>2, <1>3, LabelThere
  <1>5. PICK k \in 1 .. Len(group) : l \in ToSet(InboundLines(group, k)) BY <1>1 DEF lines, match
  <1> DEFINE r == group[k]
  <1>6. r \in ToSet(c.inbound) /\ InboundMatch(r) = match /\ r.dest \in DestinationsOf(c)
    BY <1>1, DestinationsAre
  <1>7. \/ l = Render(r.dest)
        \/ OnlyCid(r) /\ l.to = At(FromTrunk, match, <<"r", r.seq>>)
        \/ OnlyCid(r) /\ l.to = NextInbound(group, k)
    BY <1>1, <1>5, <1>6, InboundLinesHold
  <1>8. CASE l = Render(r.dest) BY <1>6, <1>8, RenderArrives DEF Reaches
  <1>9. CASE OnlyCid(r) /\ l.to = At(FromTrunk, match, <<"r", r.seq>>)
    <2> DEFINE own == <<"r", r.seq>>
    <2>1. PICK x \in ToSet(InboundLines(group, k)) : x.label = own BY <1>1, <1>9, InboundLinesHold
    <2>2. own \in Labels(plan) BY <1>1, <1>4, <2>1
    <2> HIDE DEF own
    <2>3. l.to.ctx = FromTrunk /\ l.to.exten = match /\ l.to.label = own BY <1>9 DEF At, own
    <2> QED BY <2>2, <2>3 DEF Reaches, plan, match
  <1>10. CASE l.to = NextInbound(group, k) /\ k < Len(group)
    <2> DEFINE start == <<"start", group[k + 1].seq>>
    <2>1. k + 1 \in 1 .. Len(group) /\ k + 1 # 1 BY <1>1, <1>10
    <2>2. PICK x \in ToSet(InboundLines(group, k + 1)) : x.label = start
      BY <1>1, <2>1, InboundLinesHold
    <2>3. start \in Labels(plan) BY <1>1, <1>4, <2>1, <2>2
    <2>4. l.to = At(FromTrunk, match, start) BY <1>6, <1>10 DEF NextInbound
    <2> HIDE DEF start
    <2>5. l.to.ctx = FromTrunk /\ l.to.exten = match /\ l.to.label = start BY <2>4 DEF At
    <2> QED BY <2>3, <2>5 DEF Reaches, plan, match
  <1>11. CASE l.to = NextInbound(group, k) /\ ~ k < Len(group)
    <2>1. l.to = At(FromTrunk, Start, First) BY <1>11 DEF NextInbound
    <2>2. c.inbound # << >> BY DEF CompanyRecord
    <2>3. <<FromTrunk, Start>> \in DOMAIN Plan(c) BY <2>2, InKeys
    <2>4. Arrives(c, l.to) BY <2>1, <2>3 DEF Arrives, At
    <2> QED BY <2>4 DEF Reaches
  <1> QED BY <1>7, <1>8, <1>9, <1>10, <1>11

\* Where the lines of a time condition lead, and their labels.
LEMMA TimeLinesHold ==
  ASSUME NEW t \in TimeRecord
  PROVE  \E lines \in Seq(LineRecord) :
           LET ctx == <<"time", t.name>>
               to(label) == At(ctx, Start, <<label>>) IN
           /\ TimeSections(t) = Section(ctx, Start, lines)
           /\ \A l \in ToSet(lines) : l.app \in Leads =>
                \/ l.to = to("in-range") \/ l.to = to("no-match")
                \/ l = Render(t.match) \/ l = Labelled(<<"no-match">>, Render(t.nomatch))
           /\ \E l \in ToSet(lines) : l.label = <<"in-range">>
           /\ \E l \in ToSet(lines) : l.label = <<"no-match">>
  <1> DEFINE ctx == <<"time", t.name>>
             in == <<"in-range">>
             no == <<"no-match">>
             toIn == At(ctx, Start, in)
             toNo == At(ctx, Start, no)
             ask == GotoIf(<<"TIME", "hours">>, toIn)
             go == Goto(toNo)
             mark == Labelled(in, Line)
             off == GotoIf(<<"TIME", "year for month">>, toNo)
             out == Render(t.match)
             else == Labelled(no, Render(t.nomatch))
             first == <<ask, go, mark>>
             skip == HolidaySkip(t.gate, toNo)
             last == <<out, else>>
             lines == first \o skip \o last
             S == LineRecord
  <1>1. TimeSections(t) = Section(ctx, Start, lines) BY DEF TimeSections
  <1>2. lines \in Seq(S)
    <2>1. TimeSections(t) \in Seq(Made([queues |-> << >>, outbound |-> << >>]))
      BY TimeSectionsAre
    <2>2. [ctx |-> ctx, exten |-> Start, lines |-> lines] \in SectionRecord
      BY <1>1, <2>1 DEF Section, Made
    <2> QED BY <2>2 DEF SectionRecord
  <1>3. in \in Label /\ no \in Label
    <2>1. {"in-range", "no-match"} \subseteq Text BY DEF Text
    <2> QED BY <2>1 DEF Label
  <1>4. Render(t.nomatch) \in S
    <2>1. Render(t.nomatch) \in Fitting(FromTrunk, Start) BY FromTrunkIs, RenderFits DEF TimeRecord
    <2> QED BY <2>1 DEF Fitting
  <1>5. /\ mark.app = "NoOp" /\ mark.label = in /\ else.label = no
        /\ ask.to = toIn /\ go.to = toNo /\ off.to = toNo
    <2> HIDE DEF in, no, toIn, toNo
    <2>1. mark.app = "NoOp" /\ mark.label = in /\ else.label = no
      BY <1>3, <1>4, LineIs, LabelledIs
    <2> QED BY <2>1, LineIs DEF GotoIf, Goto, Line
  <1>6. skip = IF t.gate = "leaves" THEN <<off>> ELSE << >> BY DEF HolidaySkip
  <1> HIDE DEF ctx, in, no, toIn, toNo, ask, go, mark, off, out, else, skip
  <1> DEFINE T == {ask, go, mark, off, out, else}
  <1>7. first \in Seq(T) /\ skip \in Seq(T) /\ last \in Seq(T)
    <2>1. first \in Seq(T) /\ last \in Seq(T) OBVIOUS
    <2>2. <<off>> \in Seq(T) /\ << >> \in Seq(T) OBVIOUS
    <2> QED BY <1>6, <2>1, <2>2
  <1>8. ToSet(first) = {ask, go, mark} /\ ToSet(last) = {out, else} /\ ToSet(skip) \subseteq {off}
    <2>1. ToSet(first) = {ask, go, mark} BY DEF ToSet
    <2>2. ToSet(last) = {out, else} BY Several
    <2>3. ToSet(<<off>>) = {off} BY Several
    <2> QED BY <1>6, <2>1, <2>2, <2>3, NoSection
  <1> HIDE DEF T, first, last
  <1> DEFINE p == first \o skip
  <1>9. p \in Seq(T) /\ ToSet(p) = ToSet(first) \union ToSet(skip) BY <1>7, Concat, ConcatHolds
  <1> HIDE DEF p
  <1>10. ToSet(p \o last) = ToSet(p) \union ToSet(last) BY <1>7, <1>9, ConcatHolds
  <1>11. /\ \A l \in ToSet(lines) : l \in {ask, go, mark, off, out, else}
         /\ mark \in ToSet(lines) /\ else \in ToSet(lines)
    BY <1>8, <1>9, <1>10 DEF p
  <1> HIDE DEF lines
  <1>12. \A l \in ToSet(lines) : l.app \in Leads => l.to = toIn \/ l.to = toNo \/ l = out \/ l = else
    <2>1. mark.app \notin Leads BY <1>5 DEF Leads
    <2> QED BY <1>5, <1>11, <2>1
  <1>13. (\E l \in ToSet(lines) : l.label = in) /\ (\E l \in ToSet(lines) : l.label = no)
    BY <1>5, <1>11
  <1> QED BY <1>1, <1>2, <1>12, <1>13 DEF ctx, in, no, toIn, toNo, out, else

\* A context of time conditions is of no others: the first of a name has
\* both labels.
LEMMA TimeSectionOf ==
  ASSUME NEW c \in CompanyRecord, NEW name, NEW s \in ToSet(Sections(c)), s.ctx = <<"time", name>>
  PROVE  \E t \in ToSet(c.times) : t.name = name /\ s \in ToSet(TimeSections(t)) /\ s.exten = Start
  <1>1. Kinds(c, s) BY SectionKinds
  <1> DEFINE ctx == <<"time", name>>
  <1>2. /\ ctx # Internal /\ ctx # FromTrunk /\ ctx # Outbound /\ ctx # Failover
        /\ \A x : ctx # <<x>> /\ ctx # <<"vm", x>> /\ ctx # <<"ext", x>>
    BY DEF Internal, FromTrunk, Outbound, Failover
  <1>3. \A x : ctx = <<"time", x>> => x = name OBVIOUS
  <1>4. s.ctx = ctx OBVIOUS
  <1> HIDE DEF ctx
  <1>5. ~ RingSection(c, s) BY <1>2, <1>4 DEF RingSection, Ext
  <1>6. TimeSection(c, s)
    BY <1>1, <1>2, <1>4, <1>5 DEF Kinds, QueueSection, ChainSection, FailoverSection
  <1> QED BY <1>3, <1>4, <1>6 DEF TimeSection

LEMMA TimeReaches ==
  ASSUME NEW c \in CompanyRecord, WellLed(c), NEW t \in ToSet(c.times),
         NEW s \in ToSet(TimeSections(t)), NEW l \in ToSet(s.lines), l.app \in Leads
  PROVE  Reaches(c, s.ctx, s.exten, l.to)
  <1> DEFINE ctx == <<"time", t.name>>
             in == <<"in-range">>
             no == <<"no-match">>
             key == <<ctx, Start>>
             plan == Plan(c)[key]
  <1>1. \A u \in ToSet(c.times) : u \in TimeRecord
    <2>1. c.times \in Seq(TimeRecord) BY DEF CompanyRecord
    <2> QED BY <2>1, LenProperties, ElementOfSeq DEF ToSet
  <1>2. PICK lines \in Seq(LineRecord) :
          /\ TimeSections(t) = Section(ctx, Start, lines)
          /\ \A x \in ToSet(lines) : x.app \in Leads =>
               \/ x.to = At(ctx, Start, in) \/ x.to = At(ctx, Start, no)
               \/ x = Render(t.match) \/ x = Labelled(no, Render(t.nomatch))
    BY <1>1, TimeLinesHold
  <1>3. s.ctx = ctx /\ s.exten = Start /\ s.lines = lines BY <1>2, OneSection
  <1>4. /\ key \in DOMAIN Plan(c)
        /\ \E x : /\ x \in ToSet(Sections(c)) /\ <<x.ctx, x.exten>> = key
                  /\ Starts(x.lines, plan)
    <2> DEFINE secs == Sections(c)
               S == {x \in ToSet(secs) : <<x.ctx, x.exten>> = key}
    <2>1. secs \in Seq(Made(c)) BY SectionsAre
    <2>2. s \in ToSet(secs) BY SectionFrom DEF Origin
    <2>3. ~ Lacks(secs, key) BY <1>3, <2>2 DEF Lacks
    <2> HIDE DEF key, secs
    <2>4. Leading(secs, key, S) BY <2>1, <2>3, LeadingIs
    <2> HIDE DEF S
    <2>5. /\ key \in DOMAIN Plan(c)
          /\ \E x \in S : /\ x \in ToSet(secs) /\ <<x.ctx, x.exten>> = key
                          /\ Starts(x.lines, Plan(c)[key])
      BY <2>4, LeadingPlan DEF secs
    <2> QED BY <2>5 DEF secs
  <1>5. PICK x : /\ x \in ToSet(Sections(c)) /\ <<x.ctx, x.exten>> = key
                 /\ Starts(x.lines, plan)
    BY <1>4
  <1>6. x.ctx = ctx BY <1>5
  <1>7. PICK u \in ToSet(c.times) : u.name = t.name /\ x \in ToSet(TimeSections(u))
    BY <1>5, <1>6, TimeSectionOf
  <1>8. PICK those \in Seq(LineRecord) :
          /\ TimeSections(u) = Section(<<"time", u.name>>, Start, those)
          /\ \E y \in ToSet(those) : y.label = in
          /\ \E y \in ToSet(those) : y.label = no
    BY <1>1, TimeLinesHold
  <1>9. x.lines = those BY <1>7, <1>8, OneSection
  <1>10. Len(plan) \in Nat BY <1>4, PlanIs
  <1>11. in \in Labels(plan) /\ no \in Labels(plan)
    <2> HIDE DEF in, no, plan
    <2> QED BY <1>5, <1>8, <1>9, <1>10, LabelThere
  <1> HIDE DEF in, no, ctx, plan
  <1>12. \A to : to = At(ctx, Start, in) \/ to = At(ctx, Start, no)
                   => to.ctx = ctx /\ to.exten = Start /\ to.label \in Labels(plan)
    BY <1>11 DEF At
  <1>13. /\ Render(t.match).app \in Leads => Arrives(c, Render(t.match).to)
         /\ Labelled(no, Render(t.nomatch)).app \in Leads
              => Arrives(c, Labelled(no, Render(t.nomatch)).to)
    BY DestinationsAre, RenderArrives
  <1> QED BY <1>2, <1>3, <1>12, <1>13 DEF Reaches, plan

\* Where the lines of a chain lead, and their labels.
LEMMA GateLeads ==
  ASSUME NEW gate, NEW match, NEW miss, NEW l \in ToSet(TimeGate(gate, match, miss))
  PROVE  l.to = match \/ l.to = miss
  <1> DEFINE ask == GotoIf(<<"TIME", "hours">>, match)
             go == Goto(match)
             else == Goto(miss)
             off == GotoIf(<<"TIME", "year for month">>, miss)
             skip == HolidaySkip(gate, miss)
             last == <<ask, else>>
             T == {ask, else, off}
  <1>1. ask.to = match /\ go.to = match /\ else.to = miss /\ off.to = miss
    BY DEF GotoIf, Goto, Line
  <1>2. TimeGate(gate, match, miss) = IF gate = "none" THEN <<go>> ELSE skip \o last
    BY DEF TimeGate
  <1>3. skip = IF gate = "leaves" THEN <<off>> ELSE << >> BY DEF HolidaySkip
  <1> HIDE DEF ask, go, else, off, skip
  <1>4. ToSet(last) = {ask, else} /\ ToSet(<<off>>) = {off} /\ ToSet(<<go>>) = {go} BY Several
  <1>5. skip \in Seq(T) /\ last \in Seq(T)
    <2>1. <<off>> \in Seq(T) /\ << >> \in Seq(T) /\ last \in Seq(T) OBVIOUS
    <2> QED BY <1>3, <2>1
  <1>6. ToSet(skip) \subseteq {off} BY <1>3, <1>4, NoSection
  <1> HIDE DEF T, last
  <1>7. ToSet(skip \o last) = ToSet(skip) \union ToSet(last) BY <1>5, ConcatHolds
  <1>8. l \in {ask, go, else, off}
    <2>1. CASE gate = "none" BY <1>2, <1>4, <2>1
    <2>2. CASE gate # "none" BY <1>2, <1>4, <1>6, <1>7, <2>2
    <2> QED BY <2>1, <2>2
  <1> QED BY <1>1, <1>8

LEMMA TrunkLinesHold ==
  ASSUME NEW r \in OutboundRecord, NEW k \in 1 .. Len(r.trunks)
  PROVE  LET label == <<"t", r.seq, k>> IN
         /\ \A l \in ToSet(TrunkLines(r, k)) : l.app \in Leads =>
              \/ l.to = At(Failover, <<"hangup">>, First) \/ l.to = AllFailed
              \/ k < Len(r.trunks) /\ l.to = OutLabel(r, label)
         /\ k < Len(r.trunks) => \E l \in ToSet(TrunkLines(r, k)) : l.label = label
         /\ TrunkLines(r, k) \in Seq(LineRecord)
  <1> DEFINE label == <<"t", r.seq, k>>
             over == At(Failover, <<"hangup">>, First)
             on == IF r.trunks[k].next THEN OutLabel(r, label) ELSE AllFailed
             dial == Run("Dial", {r.trunks[k].name})
             ask == GotoIf(<<"DIALSTATUS", "ANSWER">>, over)
             go == Goto(on)
             mark == Labelled(label, Line)
             end == Goto(AllFailed)
             first == <<dial, ask>>
             more == <<go, mark>>
             last == <<end>>
             rest == IF k < Len(r.trunks) THEN more ELSE last
             T == {dial, ask, go, mark, end}
  <1>1. TrunkLines(r, k) = first \o rest BY DEF TrunkLines
  <1>2. dial.app = "Dial" /\ ask.to = over /\ go.to = on /\ end.to = AllFailed
    BY DEF Run, GotoIf, Goto, Line
  <1>3. mark.label = label
    <2>1. k \in Nat BY RouteIs
    <2>2. label \in Label BY <2>1, RouteIs, Zenon
    <2> HIDE DEF label
    <2> QED BY <2>2, LineIs, LabelledIs
  <1>4. mark.app = "NoOp" BY DEF Labelled, Line
  <1>5. TrunkLines(r, k) \in Seq(LineRecord)
    <2>1. TrunkPart(r) \subseteq LineRecord BY DEF TrunkPart
    <2> QED BY <2>1, TrunkLinesAre, SeqMonotonic
  <1>6. on = OutLabel(r, label) \/ on = AllFailed OBVIOUS
  <1> HIDE DEF label, over, on, dial, ask, go, mark, end
  <1>7. ToSet(first) = {dial, ask} /\ ToSet(more) = {go, mark} /\ ToSet(last) = {end}
    BY Several
  <1>8. first \in Seq(T) /\ more \in Seq(T) /\ last \in Seq(T) OBVIOUS
  <1>9. rest \in Seq(T) BY <1>8
  <1>10. ToSet(rest) = IF k < Len(r.trunks) THEN {go, mark} ELSE {end} BY <1>7
  <1> HIDE DEF first, rest, T
  <1>11. ToSet(first \o rest) = ToSet(first) \union ToSet(rest) BY <1>8, <1>9, ConcatHolds
  <1>12. ASSUME NEW l \in ToSet(TrunkLines(r, k)), l.app \in Leads
         PROVE  \/ l.to = over \/ l.to = AllFailed
                \/ k < Len(r.trunks) /\ l.to = OutLabel(r, label)
    <2>1. l # dial /\ l # mark BY <1>2, <1>4, <1>12 DEF Leads
    <2>2. l = ask \/ l = end \/ (k < Len(r.trunks) /\ l = go) BY <1>1, <1>7, <1>10, <1>11, <1>12, <2>1
    <2> QED BY <1>2, <1>6, <2>2
  <1>13. ASSUME k < Len(r.trunks) PROVE mark \in ToSet(TrunkLines(r, k))
    BY <1>1, <1>10, <1>11, <1>13
  <1> QED BY <1>3, <1>5, <1>12, <1>13 DEF label, over

LEMMA OutboundLinesHold ==
  ASSUME NEW chain \in Seq(OutboundRecord), NEW i \in 1 .. Len(chain),
         \A k \in 1 .. Len(chain) : chain[k].pattern = chain[i].pattern
  PROVE  LET r == chain[i]
             lines == OutboundLines(chain, i) IN
         /\ \A l \in ToSet(lines) : l.app \in Leads =>
              \/ l.to = OutLabel(r, GoLabel(r))
              \/ i < Len(chain) /\ l.to = OutLabel(r, <<"start", chain[i + 1].seq>>)
              \/ l.to = AllFailed
              \/ \E k \in 1 .. Len(r.trunks) : l \in ToSet(TrunkLines(r, k))
         /\ \E l \in ToSet(lines) : l.label = GoLabel(r)
         /\ i # 1 => \E l \in ToSet(lines) : l.label = <<"start", r.seq>>
         /\ \A k \in 1 .. Len(r.trunks) : \A l \in ToSet(TrunkLines(r, k)) : l \in ToSet(lines)
         /\ lines \in Seq(LineRecord)
  <1> DEFINE r == chain[i]
             n == Len(chain)
             on == OutLabel(r, <<"start", chain[i + 1].seq>>)
             next == IF i < n THEN on ELSE AllFailed
             start == <<"start", r.seq>>
             top == IF i = 1 THEN Line ELSE Labelled(start, Line)
             go == Labelled(GoLabel(r), Line)
             here == OutLabel(r, GoLabel(r))
             gate == TimeGate(r.gate, here, next)
             head == <<top>>
             mid == <<go>>
             f == [k \in DOMAIN r.trunks |-> TrunkLines(r, k)]
             rest == FlattenSeq(f)
             lines == head \o gate \o mid \o rest
  <1>1. r \in OutboundRecord /\ n \in Nat BY ElementOfSeq, LenProperties
  <1>2. OutboundLines(chain, i) = lines BY DEF OutboundLines, GoLabel
  <1>3. lines \in Seq(LineRecord)
    <2>1. OutboundLines(chain, i) \in Seq(Fitting(Outbound, <<r.pattern>>)) BY OutboundLinesAre
    <2>2. Fitting(Outbound, <<r.pattern>>) \subseteq LineRecord BY DEF Fitting
    <2> QED BY <1>2, <2>1, <2>2, SeqMonotonic
  <1>4. next \in Place /\ \/ next.ctx = Failover /\ next.label = First
                          \/ next.ctx = Outbound /\ next.exten = <<r.pattern>>
                               /\ IsStartLabel(next.label)
    <2>1. CASE i < n
      <3> DEFINE label == <<"start", chain[i + 1].seq>>
      <3>1. i + 1 \in 1 .. n BY <1>1, <2>1
      <3>2. chain[i + 1] \in OutboundRecord BY <3>1, ElementOfSeq
      <3>3. chain[i + 1].seq \in Int BY <3>2, RouteIs
      <3>4. label \in Label BY <3>2, RouteIs
      <3>5. IsStartLabel(label) BY <3>3 DEF IsStartLabel
      <3>6. next = OutLabel(r, label) BY <2>1
      <3> HIDE DEF label, next, r
      <3>7. next \in Place /\ next.ctx = Outbound /\ next.exten = <<r.pattern>> /\ next.label = label
        BY <1>1, <3>4, <3>6, RouteIs
      <3> QED BY <3>5, <3>7
    <2>2. CASE ~ i < n
      <3>1. next = AllFailed BY <2>2
      <3> HIDE DEF next
      <3> QED BY <3>1, FailoverIs
    <2> QED BY <2>1, <2>2
  <1>5. i < n => next = on OBVIOUS
  <1>6. ~ i < n => next = AllFailed OBVIOUS
  <1> HIDE DEF on, next
  <1>7. gate \in Seq(LineRecord) /\ \A l \in ToSet(gate) : l.to = here \/ l.to = next
    <2> HIDE DEF r
    <2>1. gate \in Seq(GateLines(r)) BY <1>1, <1>4, TimeGateIs
    <2>2. GateLines(r) \subseteq LineRecord BY DEF GateLines
    <2> QED BY <2>1, <2>2, GateLeads, SeqMonotonic
  <1>8. /\ GoLabel(r) \in Label /\ start \in Label
    <2> HIDE DEF r
    <2> QED BY <1>1, RouteIs
  <1> HIDE DEF gate, here
  <1>9. /\ top \in LineRecord /\ top.app = "NoOp" /\ (i # 1 => top.label = start)
        /\ go \in LineRecord /\ go.app = "NoOp" /\ go.label = GoLabel(r)
    <2> HIDE DEF r, start
    <2> QED BY <1>8, LineIs, LabelledIs
  <1> HIDE DEF top, go
  <1>10. /\ head \in Seq(LineRecord) /\ ToSet(head) = {top}
         /\ mid \in Seq(LineRecord) /\ ToSet(mid) = {go}
    BY <1>9, Several
  <1> HIDE DEF head, mid
  <1>11. /\ rest \in Seq(LineRecord)
         /\ \A l : l \in ToSet(rest) <=> \E k \in 1 .. Len(r.trunks) : l \in ToSet(TrunkLines(r, k))
    <2> HIDE DEF r
    <2>1. /\ r.trunks \in Seq(TrunkRecord) /\ Len(r.trunks) \in Nat
          /\ DOMAIN r.trunks = 1 .. Len(r.trunks)
      BY <1>1, RouteIs
    <2>2. f = [k \in DOMAIN r.trunks |-> f[k]] OBVIOUS
    <2>3. \A k \in DOMAIN r.trunks : f[k] \in Seq(LineRecord) BY <1>1, <2>1, TrunkLinesHold
    <2>4. \A k \in DOMAIN r.trunks : f[k] = TrunkLines(r, k) OBVIOUS
    <2> HIDE DEF f
    <2>5. FlattenSeq(f) \in Seq(LineRecord) BY <2>1, <2>2, <2>3, EachIs
    <2>6. \A l : l \in ToSet(FlattenSeq(f)) <=> \E k \in DOMAIN r.trunks : l \in ToSet(f[k])
      BY <2>1, <2>2, <2>3, EachHolds
    <2> QED BY <2>1, <2>4, <2>5, <2>6
  <1> HIDE DEF rest
  <1> DEFINE p1 == head \o gate
             p2 == p1 \o mid
  <1>12. p1 \in Seq(LineRecord) /\ ToSet(p1) = ToSet(head) \union ToSet(gate)
    BY <1>7, <1>10, Concat, ConcatHolds
  <1> HIDE DEF p1
  <1>13. p2 \in Seq(LineRecord) /\ ToSet(p2) = ToSet(p1) \union ToSet(mid)
    BY <1>10, <1>12, Concat, ConcatHolds
  <1> HIDE DEF p2
  <1>14. ToSet(p2 \o rest) = ToSet(p2) \union ToSet(rest) BY <1>11, <1>13, ConcatHolds
  <1>15. lines = p2 \o rest BY DEF p1, p2
  <1> HIDE DEF lines, r
  <1>16. \A l : l \in ToSet(lines) <=>
           l = top \/ l \in ToSet(gate) \/ l = go \/ l \in ToSet(rest)
    BY <1>10, <1>12, <1>13, <1>14, <1>15
  <1>17. ASSUME NEW l \in ToSet(lines), l.app \in Leads
         PROVE  \/ l.to = here
                \/ i < n /\ l.to = on
                \/ l.to = AllFailed
                \/ \E k \in 1 .. Len(r.trunks) : l \in ToSet(TrunkLines(r, k))
    <2>1. l # top /\ l # go BY <1>9, <1>17 DEF Leads
    <2>2. CASE l \in ToSet(gate) BY <1>5, <1>6, <1>7, <2>2
    <2>3. CASE l \in ToSet(rest) BY <1>11, <2>3
    <2> QED BY <1>16, <1>17, <2>1, <2>2, <2>3
  <1>18. \E l \in ToSet(lines) : l.label = GoLabel(r) BY <1>9, <1>16
  <1>19. i # 1 => \E l \in ToSet(lines) : l.label = start BY <1>9, <1>16
  <1>20. \A k \in 1 .. Len(r.trunks) : \A l \in ToSet(TrunkLines(r, k)) : l \in ToSet(lines)
    BY <1>11, <1>16
  <1> QED BY <1>2, <1>3, <1>17, <1>18, <1>19, <1>20 DEF r, n, here, on, start

LEMMA ChainLinesHold ==
  ASSUME NEW c \in CompanyRecord, NEW pattern
  PROVE  LET chain == Chain(c.outbound, pattern)
             lines == ChainLines(chain) IN
         /\ lines \in Seq(LineRecord)
         /\ \A l : l \in ToSet(lines) <=>
              \E k \in 1 .. Len(chain) : l \in ToSet(OutboundLines(chain, k))
  <1> DEFINE chain == Chain(c.outbound, pattern)
             f == [k \in DOMAIN chain |-> OutboundLines(chain, k)]
  <1>1. /\ chain \in Seq(OutboundRecord) /\ Len(chain) \in Nat /\ DOMAIN chain = 1 .. Len(chain)
        /\ \A k \in 1 .. Len(chain) : chain[k].pattern = pattern
    BY ChainIs
  <1> HIDE DEF chain
  <1>2. ChainLines(chain) = FlattenSeq(f) BY DEF ChainLines
  <1>3. f = [k \in DOMAIN chain |-> f[k]] OBVIOUS
  <1>4. /\ \A k \in DOMAIN chain : f[k] = OutboundLines(chain, k)
        /\ \A k \in DOMAIN chain : f[k] \in Seq(LineRecord)
    BY <1>1, OutboundLinesHold
  <1> HIDE DEF f
  <1>5. FlattenSeq(f) \in Seq(LineRecord) BY <1>1, <1>3, <1>4, EachIs
  <1>6. \A l : l \in ToSet(FlattenSeq(f)) <=> \E k \in DOMAIN chain : l \in ToSet(f[k])
    BY <1>1, <1>3, <1>4, EachHolds
  <1> QED BY <1>1, <1>2, <1>4, <1>5, <1>6 DEF chain

LEMMA ChainReaches ==
  ASSUME NEW c \in CompanyRecord, NEW o \in DOMAIN c.outbound,
         NEW l \in ToSet(ChainLines(Chain(c.outbound, c.outbound[o].pattern))), l.app \in Leads
  PROVE  Reaches(c, Outbound, <<c.outbound[o].pattern>>, l.to)
  <1> DEFINE pattern == c.outbound[o].pattern
             exten == <<pattern>>
             chain == Chain(c.outbound, pattern)
             n == Len(chain)
             plan == Plan(c)[<<Outbound, exten>>]
             lines == ChainLines(chain)
             over == At(Failover, <<"hangup">>, First)
  <1>1. /\ chain \in Seq(OutboundRecord) /\ n \in Nat /\ DOMAIN chain = 1 .. n
        /\ \A k \in 1 .. n : chain[k] \in OutboundRecord /\ chain[k].pattern = pattern
    BY ChainIs
  <1>2. lines \in Seq(LineRecord) /\ \A x : x \in ToSet(lines) <=>
          \E k \in 1 .. n : x \in ToSet(OutboundLines(chain, k))
    BY ChainLinesHold
  <1>3. Starts(lines, plan) /\ <<Outbound, exten>> \in DOMAIN Plan(c) BY ChainFirst
  <1>4. Len(plan) \in Nat BY <1>3, PlanIs
  <1>5. c.outbound # << >>
    <2>1. c.outbound \in Seq(OutboundRecord) BY DEF CompanyRecord
    <2> QED BY <2>1
  <1>6. Arrives(c, AllFailed) /\ Arrives(c, over)
    <2>1. <<Failover, <<"failover">>>> \in DOMAIN Plan(c) /\ <<Failover, <<"hangup">>>> \in DOMAIN Plan(c)
      BY <1>5, OutKeys
    <2>2. /\ AllFailed.ctx = Failover /\ AllFailed.exten = <<"failover">> /\ AllFailed.label = First
          /\ over.ctx = Failover /\ over.exten = <<"hangup">> /\ over.label = First
      BY DEF AllFailed, At
    <2> QED BY <2>1, <2>2 DEF Arrives
  <1>7. l \in ToSet(lines) OBVIOUS
  <1> SUFFICES Reaches(c, Outbound, exten, l.to) OBVIOUS
  <1> HIDE DEF pattern, chain, lines, over, plan
  <1>8. \A x \in ToSet(lines) : x.label \in Labels(plan) BY <1>2, <1>3, <1>4, LabelThere
  <1>9. PICK k \in 1 .. n : l \in ToSet(OutboundLines(chain, k)) BY <1>2, <1>7
  <1> DEFINE r == chain[k]
  <1>10. /\ r \in OutboundRecord /\ r.pattern = pattern
         /\ \A j \in 1 .. n : chain[j].pattern = r.pattern
    BY <1>1
  <1>11. ASSUME NEW label \in Label, \E x \in ToSet(lines) : x.label = label,
                l.to = OutLabel(r, label)
         PROVE  Reaches(c, Outbound, exten, l.to)
    <2>1. label \in Labels(plan) BY <1>8, <1>11
    <2> HIDE DEF r, exten
    <2>2. /\ OutLabel(r, label).ctx = Outbound /\ OutLabel(r, label).exten = <<r.pattern>>
          /\ OutLabel(r, label).label = label
      BY <1>10, <1>11, RouteIs, Zenon
    <2>3. l.to.ctx = Outbound /\ l.to.exten = <<r.pattern>> /\ l.to.label = label
      BY <1>11, <2>2, Zenon
    <2> QED BY <1>10, <2>1, <2>3 DEF Reaches, exten, plan
  <1>12. \A j \in 1 .. n : \A x \in ToSet(OutboundLines(chain, j)) : x \in ToSet(lines) BY <1>2
  <1>13. \/ l.to = OutLabel(r, GoLabel(r))
         \/ k < n /\ l.to = OutLabel(r, <<"start", chain[k + 1].seq>>)
         \/ l.to = AllFailed
         \/ \E j \in 1 .. Len(r.trunks) : l \in ToSet(TrunkLines(r, j))
    BY <1>1, <1>9, <1>10, OutboundLinesHold
  <1>14. CASE l.to = OutLabel(r, GoLabel(r))
    <2>1. \E x \in ToSet(OutboundLines(chain, k)) : x.label = GoLabel(r)
      BY <1>1, <1>10, OutboundLinesHold
    <2>2. GoLabel(r) \in Label BY <1>10, RouteIs
    <2>3. \E x \in ToSet(lines) : x.label = GoLabel(r) BY <1>12, <2>1
    <2> HIDE DEF r
    <2> QED BY <1>11, <1>14, <2>2, <2>3, Zenon
  <1>15. CASE k < n /\ l.to = OutLabel(r, <<"start", chain[k + 1].seq>>)
    <2> DEFINE j == k + 1
               label == <<"start", chain[j].seq>>
    <2>1. j \in 1 .. n /\ j # 1 BY <1>1, <1>15
    <2>2. l.to = OutLabel(r, label) BY <1>15
    <2> HIDE DEF j
    <2>3. \E x \in ToSet(OutboundLines(chain, j)) : x.label = label
      BY <1>1, <2>1, OutboundLinesHold
    <2>4. label \in Label BY <1>1, <2>1, RouteIs
    <2> HIDE DEF label, r
    <2>5. \E x \in ToSet(lines) : x.label = label BY <1>12, <2>1, <2>3
    <2> QED BY <1>11, <2>2, <2>4, <2>5, Zenon
  <1>16. CASE l.to = AllFailed BY <1>6, <1>16 DEF Reaches
  <1>17. ASSUME NEW j \in 1 .. Len(r.trunks), l \in ToSet(TrunkLines(r, j))
         PROVE  Reaches(c, Outbound, exten, l.to)
    <2> DEFINE label == <<"t", r.seq, j>>
    <2>1. \/ l.to = over \/ l.to = AllFailed
          \/ j < Len(r.trunks) /\ l.to = OutLabel(r, label)
      BY <1>10, <1>17, TrunkLinesHold DEF over
    <2>2. CASE l.to = over \/ l.to = AllFailed BY <1>6, <2>2 DEF Reaches
    <2>3. CASE j < Len(r.trunks) /\ l.to = OutLabel(r, label)
      <3>1. PICK x \in ToSet(TrunkLines(r, j)) : x.label = label BY <1>10, <2>3, TrunkLinesHold
      <3>2. x \in ToSet(OutboundLines(chain, k)) BY <1>1, <1>10, OutboundLinesHold
      <3>3. j \in Nat BY <1>10, RouteIs
      <3>4. label \in Label BY <1>10, <3>3, RouteIs
      <3> HIDE DEF label
      <3> QED BY <1>11, <1>12, <2>3, <3>1, <3>2, <3>4
    <2> QED BY <2>1, <2>2, <2>3
  <1> QED BY <1>13, <1>14, <1>15, <1>16, <1>17

\* The lines of the other sections.
LEMMA StaysReach ==
  ASSUME NEW c, NEW s, \A l \in ToSet(s.lines) : l.app \notin Leads
  PROVE  Reaching(c, s)
  BY DEF Reaching

LEMMA Stays ==
  /\ Line.app \notin Leads /\ Hangup.app \notin Leads
  /\ \A who : /\ Run("Stasis", who).app \notin Leads /\ Run("Voicemail", who).app \notin Leads
              /\ Run("Queue", who).app \notin Leads /\ Run("Playback", who).app \notin Leads
  <1>1. \A app : app \notin Leads => \A who : Run(app, who).app \notin Leads BY DEF Run, Line
  <1>2. /\ "Stasis" \notin Leads /\ "Voicemail" \notin Leads /\ "Queue" \notin Leads
        /\ "Playback" \notin Leads /\ "Hangup" \notin Leads /\ "NoOp" \notin Leads
    BY DEF Leads
  <1>3. Line.app = "NoOp" BY DEF Line
  <1> QED BY <1>1, <1>2, <1>3 DEF Hangup

LEMMA NoServiceReaches ==
  ASSUME NEW c, NEW s, s.lines = NoService
  PROVE  Reaching(c, s)
  <1> DEFINE play == Run("Playback", {})
             three == <<Line, play, Hangup>>
  <1>1. NoService = three BY DEF NoService
  <1>2. play.app \notin Leads BY Stays
  <1> HIDE DEF play
  <1>3. ToSet(three) = {Line, play, Hangup} BY DEF ToSet
  <1> QED BY <1>1, <1>2, <1>3, Stays, StaysReach

LEMMA GroupSectionReaches ==
  ASSUME NEW c \in CompanyRecord, WellLed(c), NEW e \in ToSet(c.exts), HasRingGroup(e),
         NEW s, s.ctx = Ext(e), s.exten = Start, s.lines = RingGroup(e)
  PROVE  Reaching(c, s)
  <1> DEFINE plan == Plan(c)[<<Ext(e), Start>>]
             ring == RingGroup(e)
  <1>1. <<Ext(e), Start>> \in DOMAIN Plan(c) BY ExtKeys
  <1>2. e \in ExtRecord /\ plan = ring BY <1>1, ExtPlan DEF WellLed
  <1>3. PICK f, b : RingShape(e, ring, f, b) BY <1>2, RingGroupShape
  <1> HIDE DEF ring, plan
  <1>4. /\ ring \in Seq(LineRecord) /\ f \in Nat /\ b \in Nat /\ 1 < f /\ f < b
        /\ Len(ring) = IF e.gated THEN b + 7 ELSE b + 4
    BY <1>3 DEF RingShape
  <1>5. b + 2 \in 1 .. Len(ring) /\ b + 3 \in 1 .. Len(ring) /\ (e.gated => b + 5 \in 1 .. Len(ring))
    BY <1>4
  <1>6. /\ <<"busy">> \in Labels(plan) /\ <<"done">> \in Labels(plan)
        /\ e.gated => <<"unavailable">> \in Labels(plan)
    <2> DEFINE busy == <<"busy">>
               done == <<"done">>
               away == <<"unavailable">>
    <2>1. /\ ring[b + 3].label = busy /\ ring[b + 2].label = done
          /\ e.gated => ring[b + 5].label = away
      BY <1>2, <1>3, GroupTail
    <2>2. \A k \in 1 .. Len(ring) : ring[k].label \in Labels(plan) BY <1>2 DEF Labels
    <2> HIDE DEF busy, done, away
    <2>3. busy \in Labels(plan) /\ done \in Labels(plan) /\ (e.gated => away \in Labels(plan))
      BY <1>5, <2>1, <2>2
    <2> QED BY <2>3 DEF busy, done, away
  <1>7. ASSUME NEW l \in ToSet(ring), l.app \in Leads
        PROVE  \/ l.to = InExt(e, "busy") \/ l.to = InExt(e, "done")
               \/ e.gated /\ l.to = InExt(e, "unavailable")
    <2>1. PICK k \in 1 .. Len(ring) : l = ring[k] BY <1>4, LenProperties DEF ToSet
    <2>2. k # b + 2 BY <1>2, <1>3, <1>7, <2>1, GroupTail DEF Leads
    <2>3. AskLine(e, l) \/ RingLine(e, l) BY <1>2, <1>3, <1>7, <2>1, <2>2, GroupLine DEF Leads
    <2> QED BY <1>7, <2>3 DEF AskLine, RingLine, Leads
  <1>8. ASSUME NEW name, <<name>> \in Labels(plan), NEW l \in ToSet(ring), l.to = InExt(e, name)
        PROVE  Reaches(c, s.ctx, s.exten, l.to)
    <2> DEFINE label == <<name>>
    <2>1. InExt(e, name) = At(Ext(e), Start, label) BY DEF InExt
    <2>2. label \in Labels(plan) BY <1>8
    <2> HIDE DEF label
    <2>3. l.to.ctx = Ext(e) /\ l.to.exten = Start /\ l.to.label = label BY <1>8, <2>1 DEF At
    <2> QED BY <2>2, <2>3 DEF Reaches, plan
  <1>9. s.lines = ring BY DEF ring
  <1> QED BY <1>6, <1>7, <1>8, <1>9 DEF Reaching

LEMMA RingSectionReaches ==
  ASSUME NEW c \in CompanyRecord, WellLed(c), NEW s, RingSection(c, s)
  PROVE  Reaching(c, s)
  <1>1. PICK e \in ToSet(c.exts) :
          /\ HasRingGroup(e) /\ s.exten = Start
          /\ \/ s.ctx = Ext(e) /\ s.lines = RingGroup(e)
             \/ e.mailbox /\ s.ctx = <<"vm", e.number>> /\ s.lines = <<Run("Voicemail", {e.number})>>
    BY DEF RingSection
  <1>2. CASE s.ctx = Ext(e) /\ s.lines = RingGroup(e) BY <1>1, <1>2, GroupSectionReaches
  <1>3. CASE s.lines = <<Run("Voicemail", {e.number})>>
    <2> DEFINE box == Run("Voicemail", {e.number})
    <2>1. box.app \notin Leads /\ s.lines = <<box>> BY <1>3, Stays
    <2> HIDE DEF box
    <2>2. ToSet(<<box>>) = {box} BY Several
    <2> QED BY <2>1, <2>2, StaysReach
  <1> QED BY <1>1, <1>2, <1>3

LEMMA QueueSectionReaches ==
  ASSUME NEW c, NEW s, QueueSection(c, s)
  PROVE  Reaching(c, s)
  <1>1. PICK q \in ToSet(c.queues) :
          s.lines = <<Run("Queue", {q.name}), Hangup>> \/ s.lines = QueueTimeout(q)
    BY DEF QueueSection
  <1> DEFINE wait == Run("Queue", {q.name})
             on == Run("Queue", {q.target})
  <1>2. wait.app \notin Leads /\ on.app \notin Leads /\ Hangup.app \notin Leads /\ Line.app \notin Leads
    BY Stays
  <1>3. s.lines = <<wait, Hangup>> \/ s.lines = <<Hangup>> \/ s.lines = <<Line, on, Hangup>>
    BY <1>1 DEF QueueTimeout
  <1> HIDE DEF wait, on
  <1>4. ToSet(<<wait, Hangup>>) = {wait, Hangup} /\ ToSet(<<Hangup>>) = {Hangup} BY Several
  <1> DEFINE line == Line
             end == Hangup
  <1> HIDE DEF line, end
  <1>5. ToSet(<<line, on, end>>) = {line, on, end}
    <2>1. ToSet(<<line, on, end>>) = {<<line, on, end>>[i] : i \in 1 .. 3} BY DEF ToSet
    <2> QED BY <2>1
  <1> QED BY <1>2, <1>3, <1>4, <1>5, StaysReach DEF line, end

LEMMA FailoverReaches ==
  ASSUME NEW c \in CompanyRecord, WellLed(c), NEW s, FailoverSection(c, s)
  PROVE  Reaching(c, s)
  <1> DEFINE r == Last(c.outbound)
             out == OutboundFailover(c.outbound)
  <1>1. s.lines = <<Line, out>> \/ s.lines = <<Hangup>> BY DEF FailoverSection
  <1>2. r \in ToSet(c.outbound)
    <2>1. c.outbound \in Seq(OutboundRecord) /\ c.outbound # << >>
      BY DEF CompanyRecord, FailoverSection
    <2>2. Len(c.outbound) \in DOMAIN c.outbound BY <2>1, LenProperties
    <2> QED BY <2>2 DEF Last, ToSet
  <1>3. out.app \in Leads => Arrives(c, out.to)
    <2>1. out = Render(r.failover) \/ out = Run("Playback", {}) BY DEF OutboundFailover
    <2>2. Render(r.failover).app \in Leads => Arrives(c, Render(r.failover).to)
      BY <1>2, DestinationsAre, RenderArrives
    <2> QED BY <2>1, <2>2, Stays
  <1> HIDE DEF out
  <1>4. ToSet(<<Line, out>>) = {Line, out} /\ ToSet(<<Hangup>>) = {Hangup} BY Several
  <1>5. \A l \in ToSet(s.lines) : l.app \in Leads => l = out BY <1>1, <1>4, Stays
  <1> QED BY <1>3, <1>5 DEF Reaching, Reaches

LEMMA ChainSectionReaches ==
  ASSUME NEW c \in CompanyRecord, NEW s, ChainSection(c, s)
  PROVE  Reaching(c, s)
  <1>1. PICK i \in DOMAIN c.outbound :
          /\ s.ctx = Outbound /\ s.exten = <<c.outbound[i].pattern>>
          /\ s.lines = ChainLines(Chain(c.outbound, c.outbound[i].pattern))
    BY DEF ChainSection
  <1> QED BY <1>1, ChainReaches DEF Reaching

LEMMA TimeSectionReaches ==
  ASSUME NEW c \in CompanyRecord, WellLed(c), NEW s, TimeSection(c, s)
  PROVE  Reaching(c, s)
  BY TimeReaches DEF TimeSection, Reaching

LEMMA InboundSectionReaches ==
  ASSUME NEW c \in CompanyRecord, WellLed(c), NEW s \in ToSet(InboundSections(c))
  PROVE  Reaching(c, s)
  <1>1. CASE \E i \in DOMAIN c.inbound : s \in ToSet(InboundGroup(c.inbound, i))
    <2>1. PICK i \in DOMAIN c.inbound : s \in ToSet(InboundGroup(c.inbound, i)) BY <1>1
    <2> DEFINE match == InboundMatch(c.inbound[i])
    <2>2. InboundGroup(c.inbound, i) = Section(FromTrunk, match, GroupLines(c, match))
      BY <2>1, GroupIs, NoSection
    <2>3. \A l \in ToSet(GroupLines(c, match)) : l.app \in Leads => Reaches(c, FromTrunk, match, l.to)
      BY GroupReaches
    <2> HIDE DEF match
    <2>4. s.ctx = FromTrunk /\ s.exten = match /\ s.lines = GroupLines(c, match)
      BY <2>1, <2>2, OneSection
    <2> QED BY <2>3, <2>4 DEF Reaching
  <1>2. CASE s \in ToSet(InboundFallback(c.inbound))
    <2> DEFINE all == <<"_.">>
               here == Section(FromTrunk, Start, NoService)
               there == Section(FromTrunk, all, NoService)
    <2>1. \/ InboundFallback(c.inbound) = << >>
          \/ InboundFallback(c.inbound) = here \o << >>
          \/ InboundFallback(c.inbound) = here \o there
      BY DEF InboundFallback
    <2> HIDE DEF all
    <2>2. ASSUME s \in ToSet(here \o << >>) PROVE s.lines = NoService BY <2>2, NoMoreSections
    <2>3. ASSUME s \in ToSet(here \o there) PROVE s.lines = NoService BY <2>3, TwoSections
    <2> HIDE DEF here, there
    <2>4. s.lines = NoService BY <1>2, <2>1, <2>2, <2>3, NoSection
    <2> QED BY <2>4, NoServiceReaches
  <1>3. CASE \E a \in ToSet(c.accounts) : s \in ToSet(AccountEntry(a))
    <2>1. PICK a \in ToSet(c.accounts) : s \in ToSet(AccountEntry(a)) BY <1>3
    <2> DEFINE out == Render(a.dest)
               three == <<Line, Line, out>>
    <2>2. AccountEntry(a) = Section(FromTrunk, <<a.user>>, three) BY DEF AccountEntry
    <2>3. out.app \in Leads => Arrives(c, out.to) BY DestinationsAre, RenderArrives
    <2> HIDE DEF out
    <2>4. ToSet(three) = {Line, out} BY DEF ToSet
    <2> HIDE DEF three
    <2>5. s.lines = three BY <2>1, <2>2, OneSection
    <2> QED BY <2>3, <2>4, <2>5, Stays DEF Reaching, Reaches
  <1> QED BY <1>1, <1>2, <1>3, InboundHolds

LEMMA GotoArrives ==
  ASSUME NEW c, NEW ctx, <<ctx, Start>> \in DOMAIN Plan(c) \/ NotMade(c, ctx)
  PROVE  Arrives(c, At(ctx, Start, First))
  BY DEF Arrives, At

LEMMA EntryHolds ==
  ASSUME NEW c, NEW s \in ToSet(OutboundEntry(c))
  PROVE  /\ s.ctx = Internal /\ s.exten \in WaysOut
         /\ IF s.exten = <<"_46.">> THEN s.lines = <<Line, Goto(At(Outbound, DialledE164, First))>>
            ELSE s.lines = <<Goto(At(Outbound, Dialled, First))>>
  <1> DEFINE out == <<Goto(At(Outbound, Dialled, First))>>
             abroad == <<Line, Goto(At(Outbound, DialledE164, First))>>
             zero == [ctx |-> Internal, exten |-> <<"_0.">>, lines |-> out]
             plus == [ctx |-> Internal, exten |-> <<"_+.">>, lines |-> out]
             swede == [ctx |-> Internal, exten |-> <<"_46.">>, lines |-> abroad]
             S == {zero, plus, swede}
             p == <<zero>> \o <<plus>>
  <1>1. OutboundEntry(c) = IF c.outbound = << >> THEN << >> ELSE p \o <<swede>>
    BY DEF OutboundEntry, Section
  <1>2. /\ zero.ctx = Internal /\ zero.exten = <<"_0.">> /\ zero.lines = out
        /\ plus.ctx = Internal /\ plus.exten = <<"_+.">> /\ plus.lines = out
        /\ swede.ctx = Internal /\ swede.exten = <<"_46.">> /\ swede.lines = abroad
    OBVIOUS
  <1> HIDE DEF zero, plus, swede, out, abroad
  <1>3. <<zero>> \in Seq(S) /\ <<plus>> \in Seq(S) /\ <<swede>> \in Seq(S) OBVIOUS
  <1>4. ToSet(<<zero>>) = {zero} /\ ToSet(<<plus>>) = {plus} /\ ToSet(<<swede>>) = {swede}
    BY Several
  <1> HIDE DEF S
  <1>5. p \in Seq(S) /\ ToSet(p) = {zero} \union {plus}
    <2>1. p \in Seq(S) BY <1>3, Concat
    <2>2. ToSet(p) = ToSet(<<zero>>) \union ToSet(<<plus>>) BY <1>3, ConcatHolds
    <2> QED BY <1>4, <2>1, <2>2
  <1> HIDE DEF p
  <1>6. ToSet(p \o <<swede>>) = {zero} \union {plus} \union {swede}
    <2>1. ToSet(p \o <<swede>>) = ToSet(p) \union ToSet(<<swede>>) BY <1>3, <1>5, ConcatHolds
    <2> QED BY <1>4, <1>5, <2>1
  <1>7. s = zero \/ s = plus \/ s = swede BY <1>1, <1>6, NoSection
  <1>8. <<"_0.">> # <<"_46.">> /\ <<"_+.">> # <<"_46.">> OBVIOUS
  <1> QED BY <1>2, <1>7, <1>8 DEF WaysOut, out, abroad

LEMMA EntryReaches ==
  ASSUME NEW c, NEW s \in ToSet(OutboundEntry(c))
  PROVE  Reaching(c, s)
  <1> DEFINE to == At(Outbound, Dialled, First)
             abroad == At(Outbound, DialledE164, First)
             swede == <<"_46.">>
             out == Goto(to)
             far == Goto(abroad)
  <1>1. /\ s.ctx = Internal /\ s.exten \in WaysOut
        /\ IF s.exten = swede THEN s.lines = <<Line, far>> ELSE s.lines = <<out>>
    BY EntryHolds
  <1>2. out.to = to /\ far.to = abroad BY DEF Goto, Line
  <1> HIDE DEF out, far
  <1>3. ToSet(<<Line, far>>) = {Line, far} /\ ToSet(<<out>>) = {out} BY Several
  <1>4. ASSUME NEW l \in ToSet(s.lines), l.app \in Leads
        PROVE  l.to = IF s.exten = swede THEN abroad ELSE to
    BY <1>1, <1>2, <1>3, <1>4, Stays
  <1>5. (IF s.exten = swede THEN abroad ELSE to)
          = At(Outbound, IF s.exten = swede THEN DialledE164 ELSE Dialled, First)
    OBVIOUS
  <1> QED BY <1>1, <1>4, <1>5 DEF Reaching, Reaches

LEMMA InternalReaches ==
  ASSUME NEW c \in CompanyRecord,
         NEW s, \/ \E e \in ToSet(c.exts) : s \in ToSet(InternalEntry(e))
                \/ \E q \in ToSet(c.queues) : s \in ToSet(QueueEntry(q))
                \/ s \in ToSet(OperatorEntry(c)) \union ToSet(OutboundEntry(c))
                \/ s \in ToSet(Section(Internal, <<"_X.">>, NoService))
  PROVE  Reaching(c, s)
  <1>1. \A to : Goto(to).to = to BY DEF Goto, Line
  <1>2. \A name : Arrives(c, At(<<"queue", name>>, Start, First))
    <2> SUFFICES ASSUME NEW name PROVE Arrives(c, At(<<"queue", name>>, Start, First)) OBVIOUS
    <2> DEFINE ctx == <<"queue", name>>
    <2>1. ctx[1] = "queue" OBVIOUS
    <2> HIDE DEF ctx
    <2>2. NotMade(c, ctx) BY <2>1 DEF NotMade
    <2>3. Arrives(c, At(ctx, Start, First)) BY <2>2, GotoArrives
    <2> QED BY <2>3 DEF ctx
  <1>3. CASE \E e \in ToSet(c.exts) : s \in ToSet(InternalEntry(e))
    <2>1. PICK e \in ToSet(c.exts) : s \in ToSet(InternalEntry(e)) BY <1>3
    <2>2. CASE e.ai
      <3> DEFINE ai == Run("Stasis", {e.number})
      <3>1. InternalEntry(e) = Section(Internal, <<e.number>>, <<ai>>)
        BY <2>2 DEF InternalEntry, HasRingGroup
      <3>2. ai.app \notin Leads BY Stays
      <3> HIDE DEF ai
      <3>3. s.lines = <<ai>> BY <2>1, <3>1, OneSection
      <3>4. ToSet(<<ai>>) = {ai} BY Several
      <3> QED BY <3>2, <3>3, <3>4, StaysReach
    <2>3. CASE ~ e.ai
      <3> DEFINE go == Goto(InExt(e, "1"))
      <3>1. InternalEntry(e) = Section(Internal, <<e.number>>, <<go>>) /\ HasRingGroup(e)
        BY <2>1, <2>3, NoSection DEF InternalEntry
      <3>2. go.to = At(Ext(e), Start, First) BY <1>1 DEF InExt, First
      <3>3. <<Ext(e), Start>> \in DOMAIN Plan(c) BY <3>1, ExtKeys
      <3> HIDE DEF go
      <3>4. Arrives(c, go.to) BY <3>2, <3>3, GotoArrives
      <3>5. s.lines = <<go>> BY <2>1, <3>1, OneSection
      <3>6. ToSet(<<go>>) = {go} BY Several
      <3> QED BY <3>4, <3>5, <3>6 DEF Reaching, Reaches
    <2> QED BY <2>2, <2>3
  <1>4. CASE \E q \in ToSet(c.queues) : s \in ToSet(QueueEntry(q))
    <2>1. PICK q \in ToSet(c.queues) : s \in ToSet(QueueEntry(q)) BY <1>4
    <2> DEFINE go == Goto(At(<<"queue", q.name>>, Start, First))
    <2>2. QueueEntry(q) = Section(Internal, <<q.number>>, <<go>>) BY DEF QueueEntry
    <2>3. Arrives(c, go.to) BY <1>1, <1>2
    <2> HIDE DEF go
    <2>4. s.lines = <<go>> BY <2>1, <2>2, OneSection
    <2>5. ToSet(<<go>>) = {go} BY Several
    <2> QED BY <2>3, <2>4, <2>5 DEF Reaching, Reaches
  <1>5. CASE s \in ToSet(OperatorEntry(c))
    <2> DEFINE manual == {i \in DOMAIN c.queues : c.queues[i].manual}
               go == Goto(At(<<"queue", c.queues[Min(manual)].name>>, Start, First))
    <2>1. OperatorEntry(c) = Section(Internal, <<"0">>, <<go, Hangup>>)
      BY <1>5, NoSection DEF OperatorEntry
    <2>2. Arrives(c, go.to) BY <1>1, <1>2
    <2> HIDE DEF go
    <2>3. s.lines = <<go, Hangup>> BY <1>5, <2>1, OneSection
    <2>4. ToSet(<<go, Hangup>>) = {go, Hangup} BY Several
    <2> QED BY <2>2, <2>3, <2>4, Stays DEF Reaching, Reaches
  <1>6. CASE s \in ToSet(OutboundEntry(c)) BY <1>6, EntryReaches
  <1>7. CASE s \in ToSet(Section(Internal, <<"_X.">>, NoService))
    BY <1>7, OneSection, NoServiceReaches
  <1> QED BY <1>3, <1>4, <1>5, <1>6, <1>7

LEMMA SectionReaches ==
  ASSUME NEW c \in CompanyRecord, WellLed(c), NEW s \in ToSet(Sections(c))
  PROVE  Reaching(c, s)
  <1>1. Origin(c, s) BY SectionFrom
  <1>2. CASE \/ \E e \in ToSet(c.exts) : s \in ToSet(InternalEntry(e))
             \/ \E q \in ToSet(c.queues) : s \in ToSet(QueueEntry(q))
             \/ s \in ToSet(OperatorEntry(c)) \union ToSet(OutboundEntry(c))
             \/ s \in ToSet(Section(Internal, <<"_X.">>, NoService))
    BY <1>2, InternalReaches
  <1>3. CASE \E e \in ToSet(c.exts) : s \in ToSet(ExtSections(e))
    BY <1>3, ExtSectionsHold, RingSectionReaches
  <1>4. CASE \E q \in ToSet(c.queues) : s \in ToSet(QueueSections(q))
    BY <1>4, QueueSectionsHold, QueueSectionReaches
  <1>5. CASE \E t \in ToSet(c.times) : s \in ToSet(TimeSections(t))
    BY <1>5, TimeSectionsHold, TimeSectionReaches
  <1>6. CASE s \in ToSet(InboundSections(c)) BY <1>6, InboundSectionReaches
  <1>7. CASE s \in ToSet(OutboundSections(c))
    BY <1>7, OutboundSectionsHold, ChainSectionReaches, FailoverReaches
  <1> QED BY <1>1, <1>2, <1>3, <1>4, <1>5, <1>6, <1>7 DEF Origin

\* Every line of a dialplan.
LEMMA PlanReaches ==
  ASSUME NEW c \in CompanyRecord, WellLed(c), NEW ctx, NEW exten,
         <<ctx, exten>> \in DOMAIN Plan(c),
         NEW k \in 1 .. Len(Plan(c)[<<ctx, exten>>]), Plan(c)[<<ctx, exten>>][k].app \in Leads
  PROVE  Reaches(c, ctx, exten, Plan(c)[<<ctx, exten>>][k].to)
  <1> DEFINE secs == Sections(c)
             n == Len(secs)
             key == <<ctx, exten>>
             lines == Plan(c)[key]
  <1>1. secs \in Seq(SectionRecord) /\ DOMAIN secs = 1 .. n
    <2>1. Made(c) \subseteq SectionRecord BY DEF Made
    <2> QED BY <2>1, SectionsAre, SeqMonotonic, LenProperties
  <1>2. Plan(c) = Loaded(secs) BY DEF Plan
  <1>3. \A i \in 1 .. n : secs[i] \in ToSet(secs) BY <1>1 DEF ToSet
  <1>4. \A s \in ToSet(secs) : Reaching(c, s) BY SectionReaches
  <1>5. \A i \in 1 .. n : secs[i].lines \in Seq(LineRecord)
    <2>1. \A i \in 1 .. n : secs[i] \in SectionRecord BY <1>1, ElementOfSeq
    <2> QED BY <2>1 DEF SectionRecord
  <1> HIDE DEF secs
  <1>6. Merged(lines, secs, n, key) BY <1>1, <1>2, LoadedIs
  <1> HIDE DEF n
  <1>7. PICK i \in 1 .. n : /\ <<secs[i].ctx, secs[i].exten>> = key
                            /\ k \in 1 .. Len(secs[i].lines) /\ lines[k] = secs[i].lines[k]
    BY <1>6 DEF Merged
  <1>8. secs[i].ctx = ctx /\ secs[i].exten = exten BY <1>7
  <1>9. lines[k] \in ToSet(secs[i].lines) BY <1>5, <1>7, LenProperties DEF ToSet
  <1>10. lines[k].app \in Leads OBVIOUS
  <1> HIDE DEF lines
  <1>11. Reaches(c, ctx, exten, lines[k].to)
    BY <1>3, <1>4, <1>8, <1>9, <1>10 DEF Reaching
  <1> QED BY <1>11 DEF lines

-----------------------------------------------------------------------------
(* Where a call is lost.                                                   *)

Sought(x, cid, exten) ==
  \E i \in DOMAIN Candidates(x, cid) : Candidates(x, cid)[i] = exten

\* The extens asterisk looks for: the patterns come after the number.
LEMMA CandidatesHold ==
  ASSUME NEW x, NEW cid
  PROVE  /\ \A i \in DOMAIN Candidates(x, cid) :
              \/ Candidates(x, cid)[i] = <<x, cid>> \/ Candidates(x, cid)[i] = <<x>>
              \/ /\ x \in DOMAIN Patterns
                 /\ \E p \in ToSet(Patterns[x]) : Candidates(x, cid)[i] = <<p>>
         /\ x \in DOMAIN Patterns => \A p \in ToSet(Patterns[x]) : Sought(x, cid, <<p>>)
  <1> DEFINE known == x \in DOMAIN Patterns
             more == IF known THEN [i \in DOMAIN Patterns[x] |-> <<Patterns[x][i]>>] ELSE << >>
             one == <<x, cid>>
             two == <<x>>
             s == <<one, two>>
             all == s \o more
  <1>1. Candidates(x, cid) = all BY DEF Candidates
  <1>2. ~ known => more = << >> OBVIOUS
  <1>3. known => /\ Patterns[x] \in Seq(STRING) /\ DOMAIN Patterns[x] = 1 .. Len(Patterns[x])
                 /\ Len(Patterns[x]) \in Nat
                 /\ more = [i \in 1 .. Len(Patterns[x]) |-> <<Patterns[x][i]>>]
    <2>1. known => Patterns[x] \in Seq(STRING) BY DialplanAssumption
    <2>2. known => DOMAIN Patterns[x] = 1 .. Len(Patterns[x]) /\ Len(Patterns[x]) \in Nat
      BY <2>1, LenProperties
    <2> QED BY <2>1, <2>2
  <1> DEFINE S == {one, two} \union {<<Patterns[x][i]>> : i \in DOMAIN Patterns[x]}
  <1>4. s \in Seq(S) /\ s[1] = one /\ s[2] = two /\ Len(s) = 2
    <2> HIDE DEF one, two
    <2>1. one \in S /\ two \in S OBVIOUS
    <2> HIDE DEF S
    <2> QED BY <2>1
  <1>5. /\ more \in Seq(S)
        /\ known => /\ Len(more) = Len(Patterns[x])
                    /\ \A i \in 1 .. Len(more) : more[i] = <<Patterns[x][i]>>
    <2>1. CASE known
      <3> DEFINE n == Len(Patterns[x])
      <3>1. \A i \in 1 .. n : <<Patterns[x][i]>> \in S BY <1>3, <2>1
      <3>2. more = [i \in 1 .. n |-> <<Patterns[x][i]>>] /\ n \in Nat BY <1>3, <2>1
      <3> HIDE DEF n, more, S
      <3>3. more \in [1 .. n -> S] BY <3>1, <3>2
      <3>4. more \in Seq(S) /\ Len(more) = n BY <3>2, <3>3, SequenceOf
      <3> QED BY <3>2, <3>4 DEF n
    <2>2. CASE ~ known
      <3> HIDE DEF S, known
      <3> QED BY <1>2, <2>2
    <2> QED BY <2>1, <2>2
  <1> HIDE DEF s, more, one, two, S
  <1>6. /\ Len(more) \in Nat /\ DOMAIN all = 1 .. 2 + Len(more)
        /\ \A i \in 1 .. 2 + Len(more) : all[i] = IF i <= 2 THEN s[i] ELSE more[i - 2]
    <2>1. Len(more) \in Nat BY <1>5
    <2>0. s \in Seq(S) /\ more \in Seq(S) BY <1>4, <1>5
    <2>2. all \in Seq(S) /\ Len(all) = Len(s) + Len(more) BY <2>0
    <2>3. \A i \in 1 .. Len(s) + Len(more) :
            all[i] = IF i <= Len(s) THEN s[i] ELSE more[i - Len(s)]
      BY <2>0
    <2>4. DOMAIN all = 1 .. Len(all) BY <2>2, LenProperties
    <2> HIDE DEF all
    <2> QED BY <1>4, <2>1, <2>2, <2>3, <2>4
  <1> HIDE DEF all
  <1>7. ASSUME NEW i \in DOMAIN all
        PROVE  \/ all[i] = one \/ all[i] = two
               \/ known /\ \E p \in ToSet(Patterns[x]) : all[i] = <<p>>
    <2>1. CASE i <= 2
      <3>1. i = 1 \/ i = 2 BY <1>6, <2>1
      <3> QED BY <1>4, <1>6, <3>1
    <2>2. CASE ~ i <= 2
      <3>1. i - 2 \in 1 .. Len(more) /\ all[i] = more[i - 2] BY <1>6, <2>2
      <3>2. known BY <1>2, <3>1
      <3>3. all[i] = <<Patterns[x][i - 2]>> /\ i - 2 \in DOMAIN Patterns[x]
        BY <1>3, <1>5, <3>1, <3>2
      <3> QED BY <3>2, <3>3 DEF ToSet
    <2> QED BY <2>1, <2>2
  <1>8. ASSUME known, NEW p \in ToSet(Patterns[x]) PROVE \E i \in DOMAIN all : all[i] = <<p>>
    <2>1. PICK j \in DOMAIN Patterns[x] : p = Patterns[x][j] BY DEF ToSet
    <2>2. j \in 1 .. Len(more) /\ more[j] = <<p>> BY <1>3, <1>5, <1>8, <2>1
    <2>3. j + 2 \in DOMAIN all /\ all[j + 2] = more[(j + 2) - 2] /\ (j + 2) - 2 = j
      BY <1>6, <2>2
    <2> QED BY <2>2, <2>3
  <1> QED BY <1>1, <1>7, <1>8 DEF one, two, Sought

\* Where there is no place, there is none of these extens.
LEMMA NoPlaceIs ==
  ASSUME loaded \in DOMAIN Companies, NEW ctx, NEW x, NEW cid, NoPlace(ctx, x, cid, First)
  PROVE  /\ <<ctx, <<x, cid>>>> \notin DOMAIN Plan(Company)
         /\ <<ctx, <<x>>>> \notin DOMAIN Plan(Company)
         /\ x \in DOMAIN Patterns =>
              \A p \in ToSet(Patterns[x]) : <<ctx, <<p>>>> \notin DOMAIN Plan(Company)
  <1>1. Found(ctx, x, cid) = {} BY DEF NoPlace, Positions
  <1>2. \A i \in DOMAIN Candidates(x, cid) :
          <<ctx, Candidates(x, cid)[i]>> \notin DOMAIN Plan(Company)
    BY <1>1, PlansAre DEF Found
  <1>3. ASSUME NEW exten, <<ctx, exten>> \in DOMAIN Plan(Company),
               NEW i \in DOMAIN Candidates(x, cid), Candidates(x, cid)[i] = exten
        PROVE  FALSE
    BY <1>2, <1>3
  <1> DEFINE one == <<x, cid>>
             two == <<x>>
  <1>4. /\ 1 \in DOMAIN Candidates(x, cid) /\ 2 \in DOMAIN Candidates(x, cid)
        /\ Candidates(x, cid)[1] = one /\ Candidates(x, cid)[2] = two
    BY CandidatesAre
  <1> HIDE DEF one, two
  <1>5. <<ctx, one>> \notin DOMAIN Plan(Company) /\ <<ctx, two>> \notin DOMAIN Plan(Company)
    BY <1>3, <1>4
  <1>6. ASSUME x \in DOMAIN Patterns, NEW p \in ToSet(Patterns[x])
        PROVE  <<ctx, <<p>>>> \notin DOMAIN Plan(Company)
    <2> DEFINE exten == <<p>>
    <2>1. Sought(x, cid, exten) BY <1>6, CandidatesHold
    <2> HIDE DEF exten
    <2>2. <<ctx, exten>> \notin DOMAIN Plan(Company) BY <1>3, <2>1 DEF Sought
    <2> QED BY <2>2 DEF exten
  <1> QED BY <1>5, <1>6 DEF one, two

\* Only a line that leads elsewhere loses a call.
LEMMA GoesOn ==
  ASSUME NEW c \in CallRecord
  PROVE  NextLine(c).at # Ended
  <1>1. NextLine(c).at = NextSpot(c.at) /\ c.at \in Spot BY NextLineIs DEF CallRecord
  <1>2. NextSpot(c.at).line = c.at.line + 1 /\ c.at.line \in Nat BY <1>1 DEF Spot, NextSpot
  <1> QED BY <1>1, <1>2 DEF Ended

LEMMA LostByJump ==
  ASSUME Typed, Step, call'.at = Ended, call'.end = "lost"
  PROVE  Present /\ Here.app \in Leads /\ Here.to \in Place /\ Headed(call, call', Here.to)
  <1>1. call \in CallRecord /\ call.at # Ended BY StepIs DEF Typed
  <1>2. ASSUME NEW c \in CallRecord, call' = NextLine(c) PROVE FALSE BY <1>2, GoesOn
  <1>3. ASSUME NEW c \in CallRecord, NEW end \in Ends \ {"lost"}, call' = Leave(c, end) PROVE FALSE
    BY <1>3, LeaveIs
  <1>4. ASSUME NEW c \in CallRecord, Present, Here.app \in Leads, c.at = call.at,
               c.path = call.path, c.number = call.number, c.cid = call.cid,
               call' = Jumps(c, Here.to)
        PROVE  Here.to \in Place /\ Headed(call, call', Here.to)
    <2>1. /\ loaded \in DOMAIN Companies /\ c.at # Ended
          /\ <<c.at.ctx, c.at.exten>> \in DOMAIN Plans[loaded] /\ Here.to \in Place
      BY <1>4, HereIs DEF Typed, Present, LineRecord
    <2>2. Headed(c, call', Here.to) BY <1>4, <2>1, JumpsIs
    <2>3. Target(c, Here.to) = Target(call, Here.to) BY <1>4, Zenon DEF Target
    <2> QED BY <1>4, <2>1, <2>2, <2>3 DEF Headed
  <1>5. CASE Pass BY <1>1, <1>2, <1>5 DEF Pass
  <1>6. CASE Jump BY <1>1, <1>4, <1>6 DEF Jump, Does, Leads
  <1>7. CASE Branch
    <2>1. Present /\ Here.app = "GotoIf" BY <1>7 DEF Branch, Does
    <2>2. call' = Jumps(Blamed(call), Here.to) \/ call' = NextLine(call) BY <1>7, BranchTo
    <2> DEFINE c == Blamed(call)
    <2>3. /\ c \in CallRecord /\ c.at = call.at /\ c.path = call.path
          /\ c.number = call.number /\ c.cid = call.cid
      BY <1>1, BlamedIs DEF SameCall
    <2>4. call' = Jumps(c, Here.to) BY <1>1, <1>2, <2>2
    <2> HIDE DEF c
    <2> QED BY <1>4, <2>1, <2>3, <2>4 DEF Leads
  <1>8. CASE Ring
    <2>1. PICK c \in CallRecord :
            IF c.status = "ANSWER" THEN call' = Leave(c, "answered") ELSE call' = NextLine(c)
      BY <1>8, RingTo, RingOutTo
    <2> QED BY <1>2, <1>3, <2>1 DEF Ends
  <1>9. CASE Voicemail
    <2>1. call' = Leave(call, "voicemail") \/ call' = NextLine(call) BY <1>9 DEF Voicemail
    <2> QED BY <1>1, <1>2, <1>3, <2>1 DEF Ends
  <1>10. CASE Assist BY <1>1, <1>3, <1>10 DEF Assist, Ends
  <1>11. CASE Queue BY <1>1, <1>3, <1>11 DEF Queue, Ends
  <1>12. CASE Play BY <1>1, <1>2, <1>12 DEF Play
  <1>13. CASE Drop BY <1>1, <1>3, <1>13 DEF Drop, Ends
  <1>14. CASE RunOut BY <1>1, <1>3, <1>14 DEF RunOut, Ends
  <1> QED BY <1>5, <1>6, <1>7, <1>8, <1>9, <1>10, <1>11, <1>12, <1>13, <1>14 DEF Step

\* What a place that records do not name is: reached by the name of its exten.
LEMMA ArrivesThere ==
  ASSUME loaded \in DOMAIN Companies, NEW c, NEW to, Arrives(Company, to),
         NoPlace(to.ctx, Target(c, to), c.cid, to.label)
  PROVE  NotMade(Company, to.ctx)
  <1> DEFINE s == "s"
             fail == "failover"
             over == "hangup"
  <1>1. \E x \in {s, fail, over} : to.exten = <<x>> BY DEF Arrives, Start
  <1>2. PICK x \in {s, fail, over} : to.exten = <<x>> BY <1>1
  <1> DEFINE dialled == "${EXTEN}"
             abroad == "+${EXTEN}"
  <1>3. x # dialled /\ x # abroad OBVIOUS
  <1>9. Dialled = <<dialled>> /\ DialledE164 = <<abroad>> BY DEF Dialled, DialledE164
  <1> HIDE DEF s, fail, over, dialled, abroad
  <1>4. to.exten # Dialled /\ to.exten # DialledE164 BY <1>2, <1>3, <1>9
  <1>5. Target(c, to) = to.exten[1] BY <1>4 DEF Target
  <1>6. to.exten[1] = x BY <1>2
  <1>7. to.label = First BY DEF Arrives
  <1>8. <<to.ctx, <<x>>>> \notin DOMAIN Plan(Company) BY <1>5, <1>6, <1>7, NoPlaceIs
  <1> QED BY <1>2, <1>8 DEF Arrives

\* A way out is found by a number dialled inside that has its pattern.
OnWayOut ==
  call.steady /\ call.at # Ended /\ call.at.ctx = Internal /\ call.at.exten \in WaysOut =>
    /\ call.entry = "inside" /\ call.number \in Inside
    /\ call.at.exten[1] \in ToSet(Patterns[call.number])

LEMMA HereReaches ==
  ASSUME Typed, Present, Here.app \in Leads
  PROVE  Reaches(Company, call.at.ctx, call.at.exten, Here.to)
  <1> DEFINE ctx == call.at.ctx
             exten == call.at.exten
             plan == Plan(Company)
             k == call.at.line
  <1>1. Company \in CompanyRecord /\ Plans[loaded] = plan /\ Lines(ctx, exten) = plan[<<ctx, exten>>]
    BY PlansAre DEF Typed
  <1>2. <<ctx, exten>> \in DOMAIN plan /\ k \in 1 .. Len(plan[<<ctx, exten>>])
    BY <1>1, HereIs
  <1>3. Here = plan[<<ctx, exten>>][k] BY <1>1 DEF Here
  <1>4. WellLed(Company) BY DialplanAssumption DEF WellLed, Typed, Company
  <1>5. plan[<<ctx, exten>>][k].app \in Leads BY <1>3
  <1> HIDE DEF ctx, exten, k
  <1>6. Reaches(Company, ctx, exten, plan[<<ctx, exten>>][k].to)
    BY <1>1, <1>2, <1>4, <1>5, PlanReaches
  <1> QED BY <1>3, <1>6 DEF ctx, exten, k

LEMMA StartIsTarget ==
  ASSUME NEW c, NEW to, to.exten = Start
  PROVE  Target(c, to) = Start[1]
  <1> DEFINE s == "s"
             dialled == "${EXTEN}"
             abroad == "+${EXTEN}"
  <1>1. s # dialled /\ s # abroad OBVIOUS
  <1>2. Start = <<s>> /\ Dialled = <<dialled>> /\ DialledE164 = <<abroad>>
    BY DEF Start, Dialled, DialledE164
  <1> HIDE DEF s, dialled, abroad
  <1>3. Start # Dialled /\ Start # DialledE164 BY <1>1, <1>2
  <1> QED BY <1>3, Zenon DEF Target

LEMMA WayOutIsPattern ==
  ASSUME NEW x, NEW cid, NEW i \in DOMAIN Candidates(x, cid), Candidates(x, cid)[i] \in WaysOut
  PROVE  \/ x \in PatternsOut /\ Candidates(x, cid)[i] = <<x>>
         \/ x \in DOMAIN Patterns /\ Candidates(x, cid)[i][1] \in ToSet(Patterns[x])
  <1> DEFINE exten == Candidates(x, cid)[i]
             one == <<x, cid>>
             two == <<x>>
  <1>1. \/ exten = one \/ exten = two
        \/ x \in DOMAIN Patterns /\ \E p \in ToSet(Patterns[x]) : exten = <<p>>
    BY CandidatesHold
  <1> HIDE DEF exten
  <1>2. exten \in WaysOut BY DEF exten
  <1>3. Len(exten) = 1 /\ exten[1] \in PatternsOut BY <1>2 DEF WaysOut, PatternsOut
  <1>4. exten # one BY <1>3
  <1>5. CASE exten = two BY <1>3, <1>5 DEF exten
  <1>6. CASE x \in DOMAIN Patterns /\ \E p \in ToSet(Patterns[x]) : exten = <<p>>
    BY <1>6 DEF exten
  <1> QED BY <1>1, <1>4, <1>5, <1>6

\* A call begins in the context it is put into.
LEMMA BeginIsThere ==
  ASSUME Typed, NEW entry \in {"inside", "click", "trunk"}, NEW number \in Text, NEW cid \in Text,
         NEW ctx \in Seq(Text), Begin(NewCall(entry, number, cid), ctx), call'.at # Ended
  PROVE  call'.at.ctx = ctx
  <1>1. /\ call'.end = "none" /\ call'.at.ctx = ctx
        /\ <<ctx, call'.at.exten>> \in DOMAIN Plans[loaded]
        /\ call'.at.line = 1
    BY BeginIs
  <1> QED BY <1>1

LEMMA BeginsOnWayOut ==
  ASSUME Typed, DialInside \/ ClickToCall \/ CallIn
  PROVE  OnWayOut'
  <1>1. CASE ClickToCall \/ CallIn
    <2>1. PICK entry \in {"click", "trunk"}, number \in Text, cid \in Text, ctx \in {Outbound, FromTrunk} :
            Begin(NewCall(entry, number, cid), ctx)
      BY <1>1, NumbersAreText DEF ClickToCall, CallIn
    <2>2. ctx \in Seq(Text) BY StringsAreText
    <2>3. call'.at # Ended => call'.at.ctx = ctx BY <2>1, <2>2, BeginIsThere
    <2>4. ctx # Internal BY DEF Internal, Outbound, FromTrunk
    <2> QED BY <2>3, <2>4 DEF OnWayOut, Ended
  <1>2. CASE DialInside
    <2>1. PICK n \in Inside : Begin(NewCall("inside", n, None), Internal) BY <1>2 DEF DialInside
    <2>2. n \in Text /\ None \in Text /\ Internal \in Seq(Text) BY NumbersAreText, StringsAreText
    <2>3. call'.number = n /\ call'.entry = "inside" BY <2>1, <2>2, BeginIs
    <2>4. ASSUME call'.at # Ended, call'.at.exten \in WaysOut
          PROVE  call'.at.exten[1] \in ToSet(Patterns[n])
      <3> DEFINE i == Min(Found(Internal, n, None))
      <3>1. i \in Found(Internal, n, None) /\ call'.at.exten = Candidates(n, None)[i]
        <4>1. call'.at # Ended =>
                /\ call'.end = "none" /\ call'.at.ctx = Internal
                /\ <<Internal, call'.at.exten>> \in DOMAIN Plans[loaded]
                /\ call'.at.line = 1
                /\ LET found == Found(Internal, n, None) IN
                   /\ found # {} /\ Min(found) \in found
                   /\ call'.at.exten = Candidates(n, None)[Min(found)]
          BY <2>1, <2>2, BeginIs, Zenon
        <4> QED BY <2>4, <4>1
      <3>2. i \in DOMAIN Candidates(n, None) BY <3>1 DEF Found
      <3>3. n \notin PatternsOut BY DialplanAssumption
      <3> HIDE DEF i
      <3> QED BY <2>4, <3>1, <3>2, <3>3, WayOutIsPattern
    <2> QED BY <2>3, <2>4 DEF OnWayOut, Ended
  <1> QED BY <1>1, <1>2

LEMMA StepOnWayOut ==
  ASSUME Typed, OnWayOut, Step
  PROVE  OnWayOut'
  <1>1. /\ call.at # Ended /\ UNCHANGED <<loaded, now, ticks, reloads>>
        /\ call' \in CallRecord /\ SameCall(call, call')
        /\ call'.at = Ended \/ (Present /\ Onward(call, call'))
    BY StepIs
  <1> SUFFICES ASSUME call'.steady, call'.at # Ended, call'.at.ctx = Internal,
                      call'.at.exten \in WaysOut
               PROVE  call'.at.ctx = call.at.ctx /\ call'.at.exten = call.at.exten
    BY <1>1 DEF OnWayOut, SameCall, Ended
  <1>2. Present /\ Onward(call, call') BY <1>1
  <1>3. CASE call'.at = NextSpot(call.at)
    <2>1. call.at \in Spot BY DEF Typed, CallRecord
    <2> QED BY <1>3, <2>1 DEF NextSpot, Spot
  <1>4. CASE Here.app \in Leads /\ Jumped(call, call', Here.to)
    <2>1. /\ call'.at.ctx = Here.to.ctx
          /\ IF Here.to.ctx = call.at.ctx /\ Here.to.exten = call.at.exten
             THEN call'.at.exten = call.at.exten
             ELSE IsFound(call, call', Target(call, Here.to))
      BY <1>4 DEF Jumped, Led
    <2>2. CASE Here.to.ctx = call.at.ctx /\ Here.to.exten = call.at.exten BY <2>1, <2>2
    <2>3. CASE ~ (Here.to.ctx = call.at.ctx /\ Here.to.exten = call.at.exten)
      <3>1. Reaches(Company, call.at.ctx, call.at.exten, Here.to) BY <1>2, <1>4, HereReaches
      <3>2. Internal # Failover /\ Internal # Outbound BY DEF Internal, Failover, Outbound
      <3>3. Here.to.exten = Start BY <2>1, <2>3, <3>1, <3>2 DEF Reaches, Arrives, At
      <3>4. Target(call, Here.to) = Start[1] BY <3>3, StartIsTarget
      <3> DEFINE x == Start[1]
                 i == Min(Found(Internal, x, call.cid))
      <3>5. i \in Found(Internal, x, call.cid) /\ call'.at.exten = Candidates(x, call.cid)[i]
        BY <2>1, <2>3, <3>4 DEF IsFound
      <3>6. i \in DOMAIN Candidates(x, call.cid) BY <3>5 DEF Found
      <3>7. x \notin DOMAIN Patterns BY DialplanAssumption
      <3>8. x \notin PatternsOut BY DEF Start, PatternsOut
      <3> HIDE DEF x, i
      <3> QED BY <3>5, <3>6, <3>7, <3>8, WayOutIsPattern
    <2> QED BY <2>2, <2>3
  <1> QED BY <1>2, <1>3, <1>4 DEF Onward

\* No place for the number inside, out and in.
LEMMA NoneInside ==
  Typed /\ call.number \in Inside /\ NoPlace(Internal, call.number, call.cid, First)
    => PatternsInside = {}
  <1> SUFFICES ASSUME Typed, call.number \in Inside,
                      NoPlace(Internal, call.number, call.cid, First)
               PROVE  PatternsInside = {}
    OBVIOUS
  <1> DEFINE n == call.number
  <1>1. loaded \in DOMAIN Companies /\ Company \in CompanyRecord BY PlansAre DEF Typed
  <1>2. n \in DOMAIN Patterns BY DialplanAssumption
  <1>3. \A p \in ToSet(Patterns[n]) : <<Internal, <<p>>>> \notin DOMAIN Plan(Company)
    BY <1>1, <1>2, NoPlaceIs
  <1>4. /\ <<Internal, <<"_X.">>>> \in DOMAIN Plan(Company)
        /\ Company.outbound # << >> =>
             \A w \in WaysOut : <<Internal, w>> \in DOMAIN Plan(Company)
    BY <1>1, InternalKeys
  <1>5. \A p \in PatternsOut : <<p>> \in WaysOut BY DEF PatternsOut, WaysOut
  <1>6. ASSUME NEW p \in PatternsInside PROVE FALSE
    <2>1. p \in ToSet(Patterns[n]) BY <1>6 DEF PatternsInside
    <2>2. p = "_X." \/ (Company.outbound # << >> /\ p \in PatternsOut) BY <1>6 DEF PatternsInside
    <2>3. <<Internal, <<p>>>> \in DOMAIN Plan(Company) BY <1>4, <1>5, <2>2
    <2> QED BY <1>3, <2>1, <2>3
  <1> QED BY <1>6

LEMMA NoneOut ==
  Typed /\ NumberOut \in DOMAIN Patterns /\ NoPlace(Outbound, NumberOut, call.cid, First)
    => RoutesOut = {}
  <1> SUFFICES ASSUME Typed, NumberOut \in DOMAIN Patterns,
                      NoPlace(Outbound, NumberOut, call.cid, First)
               PROVE  RoutesOut = {}
    OBVIOUS
  <1> DEFINE n == NumberOut
             plan == Plan(Company)
  <1>1. loaded \in DOMAIN Companies /\ Company \in CompanyRecord BY PlansAre DEF Typed
  <1>2. /\ <<Outbound, <<n>>>> \notin DOMAIN plan
        /\ \A p \in ToSet(Patterns[n]) : <<Outbound, <<p>>>> \notin DOMAIN plan
    BY <1>1, NoPlaceIs
  <1>3. ASSUME NEW r \in RoutesOut PROVE FALSE
    <2>1. r \in ToSet(Company.outbound) /\ (r.pattern = n \/ Contains(Patterns[n], r.pattern))
      BY <1>3 DEF RoutesOut
    <2>2. Company.outbound # << >> BY <2>1, NoSection
    <2>3. <<Outbound, <<r.pattern>>>> \in DOMAIN plan BY <1>1, <2>1, <2>2, OutKeys
    <2>4. r.pattern = n \/ r.pattern \in ToSet(Patterns[n])
      BY <2>1, DialplanAssumption, LenProperties DEF Contains, ToSet
    <2> QED BY <1>2, <2>3, <2>4
  <1> QED BY <1>3

LEMMA NoneIn ==
  Typed /\ call.number \in Dids /\ NoPlace(FromTrunk, call.number, call.cid, First) => Unrouted
  <1> SUFFICES ASSUME Typed, call.number \in Dids,
                      NoPlace(FromTrunk, call.number, call.cid, First)
               PROVE  Unrouted
    OBVIOUS
  <1> DEFINE n == call.number
             all == "_."
  <1>1. loaded \in DOMAIN Companies /\ Company \in CompanyRecord BY PlansAre DEF Typed
  <1>2. n \in DOMAIN Patterns /\ n # None BY DialplanAssumption
  <1>3. all \in ToSet(Patterns[n])
    <2>1. Contains(Patterns[n], all) /\ Patterns[n] \in Seq(STRING) BY <1>2, DialplanAssumption
    <2> QED BY <2>1, LenProperties DEF Contains, ToSet
  <1> HIDE DEF all
  <1>4. /\ <<FromTrunk, <<n, call.cid>>>> \notin DOMAIN Plan(Company)
        /\ <<FromTrunk, <<n>>>> \notin DOMAIN Plan(Company)
        /\ \A p \in ToSet(Patterns[n]) : <<FromTrunk, <<p>>>> \notin DOMAIN Plan(Company)
    BY <1>1, <1>2, NoPlaceIs
  <1>5. <<FromTrunk, <<all>>>> \notin DOMAIN Plan(Company) BY <1>3, <1>4
  <1> SUFFICES ASSUME Company.inbound # << >>
               PROVE  /\ \A r \in ToSet(Company.inbound) :
                           ~OnlyCid(r) /\ (r.did = n => r.cid \notin {None, call.cid})
                      /\ \A a \in ToSet(Company.accounts) : a.user # n
                      /\ \E r \in ToSet(Company.inbound) : CatchAll(r)
    BY DEF Unrouted
  <1>6. /\ \A r \in ToSet(Company.inbound) : <<FromTrunk, InboundMatch(r)>> \in DOMAIN Plan(Company)
        /\ \A a \in ToSet(Company.accounts) : <<FromTrunk, <<a.user>>>> \in DOMAIN Plan(Company)
        /\ ~ (\E r \in ToSet(Company.inbound) : CatchAll(r))
             => <<FromTrunk, <<all>>>> \in DOMAIN Plan(Company)
    BY <1>1, InKeys DEF all
  <1>7. ASSUME NEW r \in ToSet(Company.inbound)
        PROVE  ~OnlyCid(r) /\ (r.did = n => r.cid \notin {None, call.cid})
    <2>1. OnlyCid(r) => InboundMatch(r) = <<all>> BY DEF OnlyCid, InboundMatch, all
    <2>2. r.did = n /\ r.cid = None => InboundMatch(r) = <<n>> BY <1>2 DEF InboundMatch
    <2>3. r.did = n /\ r.cid = call.cid /\ r.cid # None => InboundMatch(r) = <<n, call.cid>>
      BY <1>2 DEF InboundMatch
    <2> QED BY <1>4, <1>5, <1>6, <2>1, <2>2, <2>3
  <1>8. \A a \in ToSet(Company.accounts) : a.user # n BY <1>4, <1>6
  <1>9. \E r \in ToSet(Company.inbound) : CatchAll(r) BY <1>5, <1>6
  <1> QED BY <1>7, <1>8, <1>9

LEMMA BeginsEndDead ==
  ASSUME Typed, DialInside \/ ClickToCall \/ CallIn
  PROVE  DeadEnds'
  <1>1. PICK entry \in {"inside", "click", "trunk"}, n \in Text, cid \in Text, ctx \in Seq(Text) :
          /\ Begin(NewCall(entry, n, cid), ctx)
          /\ \/ entry = "inside" /\ n \in Inside /\ ctx = Internal
             \/ entry = "click" /\ n \in Outside /\ ctx = Outbound
             \/ entry = "trunk" /\ n \in Dids /\ ctx = FromTrunk
    BY NumbersAreText, StringsAreText DEF DialInside, ClickToCall, CallIn
  <1> DEFINE path == <<ctx>>
  <1>2. /\ call'.entry = entry /\ call'.number = n /\ call'.cid = cid
        /\ UNCHANGED <<loaded, now, ticks, reloads>>
    BY <1>1, BeginIs
  <1>3. call'.path = path BY <1>1, BeginIs
  <1>4. Last(path) = ctx BY DEF Last
  <1> HIDE DEF path
  <1>5. Typed' BY BeginsTyped
  <1>6. ASSUME call'.at = Ended PROVE NoPlace(ctx, n, cid, First) BY <1>1, <1>6, BeginIs
  <1>7. (NoPlace(ctx, n, cid, First))' <=> NoPlace(ctx, n, cid, First)
    BY <1>2 DEF NoPlace, Found, Positions, Plans, Lines
  <1> SUFFICES ASSUME call'.end = "lost"
               PROVE  \/ ctx = Internal /\ PatternsInside' = {}
                      \/ ctx = Outbound /\ RoutesOut' = {}
                      \/ ctx = FromTrunk /\ Unrouted'
    BY <1>3, <1>4 DEF DeadEnds, Over
  <1>8. call'.at = Ended BY <1>5 DEF Typed, Ended
  <1>9. (NoPlace(ctx, n, cid, First))' BY <1>6, <1>7, <1>8
  <1>10. CASE entry = "inside"
    <2>1. n \in Inside /\ ctx = Internal BY <1>1, <1>10
    <2>2. (call.number \in Inside /\ NoPlace(Internal, call.number, call.cid, First))'
      BY <1>2, <1>9, <2>1
    <2>3. (PatternsInside = {})' BY <1>5, <2>2, NoneInside, PTL
    <2> QED BY <2>1, <2>3
  <1>11. CASE entry = "click"
    <2>1. n \in Outside /\ ctx = Outbound BY <1>1, <1>11
    <2>2. (NumberOut = call.number)' BY <1>2, <1>11 DEF NumberOut
    <2>3. (NumberOut \in DOMAIN Patterns /\ NoPlace(Outbound, NumberOut, call.cid, First))'
      BY <1>2, <1>9, <2>1, <2>2, DialplanAssumption
    <2>4. (RoutesOut = {})' BY <1>5, <2>3, NoneOut, PTL
    <2> QED BY <2>1, <2>4
  <1>12. CASE entry = "trunk"
    <2>1. n \in Dids /\ ctx = FromTrunk BY <1>1, <1>12
    <2>2. (call.number \in Dids /\ NoPlace(FromTrunk, call.number, call.cid, First))'
      BY <1>2, <1>9, <2>1
    <2>3. Unrouted' BY <1>5, <2>2, NoneIn, PTL
    <2> QED BY <2>1, <2>3
  <1> QED BY <1>10, <1>11, <1>12

\* What a way out leads to is the number as a trunk would get it.
LEMMA WayOutIs ==
  ASSUME Typed, OnWayOut, call.steady, call.at # Ended,
         call.at.ctx = Internal, call.at.exten \in WaysOut, NEW to,
         to = At(Outbound, IF call.at.exten = <<"_46.">> THEN DialledE164 ELSE Dialled, First)
  PROVE  Target(call, to) = NumberOut /\ NumberOut \in DOMAIN Patterns
  <1> DEFINE n == call.number
             sweden == "_46."
             zero == "_0."
             plus == "_+."
  <1>1. /\ call.entry = "inside" /\ n \in Inside
        /\ call.at.exten[1] \in ToSet(Patterns[n])
    BY DEF OnWayOut
  <1>2. /\ n \in DOMAIN Patterns
        /\ n \in DOMAIN E164 => /\ ToSet(Patterns[n]) \intersect {zero, plus, sweden} = {sweden}
                                /\ E164[n] \in DOMAIN Patterns
        /\ n \notin DOMAIN E164 => sweden \notin ToSet(Patterns[n])
    BY <1>1, DialplanAssumption DEF PatternsOut
  <1>3. to.exten = IF call.at.exten = <<sweden>> THEN DialledE164 ELSE Dialled BY DEF At
  <1>4. call.at.exten \in {<<zero>>, <<plus>>, <<sweden>>} BY DEF WaysOut
  <1>5. zero # sweden /\ plus # sweden OBVIOUS
  <1>6. DialledE164 # Dialled
    <2> DEFINE dialled == "${EXTEN}"
               abroad == "+${EXTEN}"
    <2>1. dialled # abroad OBVIOUS
    <2>2. Dialled = <<dialled>> /\ DialledE164 = <<abroad>> BY DEF Dialled, DialledE164
    <2> HIDE DEF dialled, abroad
    <2> QED BY <2>1, <2>2
  <1> HIDE DEF zero, plus, sweden
  <1>7. NumberOut = IF n \in DOMAIN E164 THEN E164[n] ELSE n BY <1>1 DEF NumberOut
  <1>8. CASE call.at.exten = <<sweden>>
    <2>1. call.at.exten[1] = sweden BY <1>8
    <2>2. n \in DOMAIN E164 BY <1>1, <1>2, <2>1
    <2>3. Target(call, to) = E164[n] BY <1>3, <1>6, <1>8, Zenon DEF Target
    <2> QED BY <1>2, <1>7, <2>2, <2>3
  <1>9. CASE call.at.exten \in {<<zero>>, <<plus>>}
    <2>1. call.at.exten[1] \in {zero, plus} /\ call.at.exten # <<sweden>> BY <1>5, <1>9
    <2>2. n \notin DOMAIN E164 BY <1>1, <1>2, <1>5, <2>1
    <2>3. to.exten = Dialled BY <1>3, <2>1
    <2>4. Target(call, to) = n BY <1>6, <2>3, Zenon DEF Target
    <2> QED BY <1>2, <1>7, <2>2, <2>4
  <1> QED BY <1>4, <1>8, <1>9

LEMMA StepEndsDead ==
  ASSUME Typed, OnWayOut, Step
  PROVE  DeadEnds'
  <1>1. /\ call.at # Ended /\ UNCHANGED <<loaded, now, ticks, reloads>>
        /\ call \in CallRecord /\ SameCall(call, call') /\ Typed'
    BY StepIs, StepTyped DEF Typed
  <1>2. Company' = Company BY <1>1 DEF Company
  <1> SUFFICES ASSUME call'.end = "lost", call'.steady
               PROVE  \/ NotMade(Company', Last(call'.path))
                      \/ Last(call'.path) = Outbound /\ RoutesOut' = {}
    BY Zenon DEF DeadEnds, Over
  <1> DEFINE to == Here.to
  <1>3. call'.at = Ended BY <1>1 DEF Typed, Ended
  <1>4. Present /\ Here.app \in Leads /\ to \in Place /\ Headed(call, call', to)
    BY <1>3, LostByJump
  <1>5. Reaches(Company, call.at.ctx, call.at.exten, to) BY <1>4, HereReaches
  <1>6. loaded \in DOMAIN Companies /\ Company \in CompanyRecord
        /\ <<call.at.ctx, call.at.exten>> \in DOMAIN Plans[loaded]
        /\ Lines(call.at.ctx, call.at.exten) = Plan(Company)[<<call.at.ctx, call.at.exten>>]
    BY <1>4, PlansAre, HereIs DEF Typed
  <1> HIDE DEF to
  <1>7. ~ (to.ctx = call.at.ctx /\ to.exten = call.at.exten)
    <2> SUFFICES ASSUME to.ctx = call.at.ctx, to.exten = call.at.exten PROVE FALSE OBVIOUS
    <2>1. Positions(to.ctx, to.exten, to.label) = {} BY <1>3, <1>4 DEF Headed
    <2>2. to.label # First BY <2>1 DEF Positions
    <2>3. to.label \in Labels(Plan(Company)[<<call.at.ctx, call.at.exten>>])
      BY <1>5, <2>2 DEF Reaches, Arrives, At
    <2>4. DOMAIN Lines(to.ctx, to.exten) = 1 .. Len(Lines(to.ctx, to.exten))
      BY <1>6, PlansAre, PlanIs
    <2> QED BY <1>6, <2>1, <2>2, <2>3, <2>4 DEF Labels, Positions
  <1>8. /\ call'.path = Append(call.path, to.ctx)
        /\ NoPlace(to.ctx, Target(call, to), call.cid, to.label)
    BY <1>3, <1>4, <1>7 DEF Headed
  <1>9. Last(call'.path) = to.ctx
    <2> DEFINE S == Seq(Text)
    <2>1. call.path \in Seq(S) /\ to.ctx \in S BY <1>1, <1>4 DEF CallRecord, Place
    <2> HIDE DEF S
    <2> QED BY <1>8, <2>1, LastOfMore
  <1>10. CASE Arrives(Company, to)
    <2>1. NotMade(Company, to.ctx) BY <1>6, <1>8, <1>10, ArrivesThere
    <2> QED BY <1>2, <1>9, <2>1
  <1>11. CASE /\ call.at.ctx = Internal /\ call.at.exten \in WaysOut
              /\ to = At(Outbound, IF call.at.exten = <<"_46.">> THEN DialledE164 ELSE Dialled, First)
    <2>1. call.steady BY <1>1 DEF SameCall
    <2>2. Target(call, to) = NumberOut /\ NumberOut \in DOMAIN Patterns
      BY <1>1, <1>11, <2>1, WayOutIs
    <2>3. to.ctx = Outbound /\ to.label = First BY <1>11 DEF At
    <2>4. RoutesOut = {} BY <1>8, <2>2, <2>3, NoneOut
    <2>5. NumberOut' = NumberOut BY <1>1 DEF NumberOut, SameCall
    <2>6. RoutesOut' = RoutesOut BY <1>2, <2>5 DEF RoutesOut
    <2> QED BY <1>9, <2>3, <2>4, <2>6
  <1> QED BY <1>5, <1>7, <1>10, <1>11 DEF Reaches

LEMMA NextEndsDead == Typed /\ OnWayOut /\ DeadEnds /\ [Next]_vars => OnWayOut' /\ DeadEnds'
  <1> SUFFICES ASSUME Typed, OnWayOut, DeadEnds, [Next]_vars PROVE OnWayOut' /\ DeadEnds' OBVIOUS
  <1>1. CASE DialInside \/ ClickToCall \/ CallIn BY <1>1, BeginsOnWayOut, BeginsEndDead
  <1>2. CASE Step BY <1>2, StepOnWayOut, StepEndsDead
  <1>3. CASE HangUp
    <2>1. call'.at = Ended /\ call'.end = "gone" BY <1>3, LeaveIs DEF HangUp, Ends, Typed
    <2> QED BY <2>1 DEF OnWayOut, DeadEnds, Over, Ended
  <1>4. CASE Tick
    <2>1. /\ call'.at = call.at /\ call'.end = call.end /\ call'.entry = call.entry
          /\ call'.number = call.number /\ call'.steady = call.steady
      BY <1>4, TickIs
    <2>2. call.at # Ended BY <1>4 DEF Tick
    <2>3. call'.end = "none" BY <2>1, <2>2 DEF Typed
    <2> QED BY <2>1, <2>3 DEF OnWayOut, DeadEnds, Over, Ended
  <1>5. CASE Reload
    <2>1. ~ call'.steady BY <1>5, ReloadIs
    <2> QED BY <2>1 DEF OnWayOut, DeadEnds, Over
  <1>6. CASE UNCHANGED vars
    <2>1. UNCHANGED <<call, loaded>> BY <1>6 DEF vars
    <2> QED BY <2>1 DEF OnWayOut, DeadEnds, Over, Company, NumberOut, RoutesOut, PatternsInside,
                        Unrouted, Ended
  <1> QED BY <1>1, <1>2, <1>3, <1>4, <1>5, <1>6 DEF Next

\* A call is lost only where a record leads to a context that is not made, or with
\* a number that nothing is there for: whatever the records are, each label, exten
\* and context that a generated line jumps to is there.
THEOREM OnlyDeadEnds == Spec => []DeadEnds
  <1>1. Init => OnWayOut /\ DeadEnds
    <2> SUFFICES ASSUME Init PROVE OnWayOut /\ DeadEnds OBVIOUS
    <2>1. call.at = Ended /\ call.end = "none" BY NoCallIs DEF Init
    <2> QED BY <2>1 DEF OnWayOut, DeadEnds, Over
  <1>2. Spec => [](Typed /\ OnWayOut /\ DeadEnds)
    BY <1>1, InitTyped, NextTyped, NextEndsDead, PTL DEF Spec
  <1> QED BY <1>2, PTL

=============================================================================
