------------------------------ MODULE Dialplan ------------------------------
(***************************************************************************)
(* The dialplan that pbx.config.generator makes of a company's records:    *)
(* contexts of extens of lines, with the destinations, queues, time        *)
(* conditions and AI extensions that plugins add.                          *)
(*                                                                         *)
(* A company c is a record of its active records, each kind in the order   *)
(* the code searches it in:                                                *)
(*   exts      [number, devices (in ring order), parallel, gated, mailbox, *)
(*              ai (its entry is the assistant), follow (the assistant     *)
(*              takes unanswered calls)]                                   *)
(*   inbound   [seq, did, cid, dest]       None is an empty field          *)
(*   accounts  [user, dest]                trunks with an account route    *)
(*   outbound  [seq, pattern, gate, trunks, failover]                      *)
(*             trunks    [name, next]      next: continue_                 *)
(*   queues    [number, name, manual, timed, target]   target: the name of *)
(*             the queue a timeout leads to                                *)
(*   times     [name, gate, match, nomatch]                                *)
(* A gate is none, hours, or leaves: hours, and lines for the days off.    *)
(***************************************************************************)
EXTENDS Naturals, Sequences, SequencesExt

None == ""

\* Contexts are named without the domain they are all prefixed with.
Internal == <<"internal">>
FromTrunk == <<"from-trunk">>
Outbound == <<"outbound">>
Failover == <<"outbound-failover">>

\* The exten that was dialled, and the one of contexts that nobody dials.
Dialled == <<"${EXTEN}">>
DialledE164 == <<"+${EXTEN}">>
Start == <<"s">>

\* A place in the dialplan; the first line of an exten needs no label.
First == <<"1">>
At(ctx, exten, label) == [ctx |-> ctx, exten |-> exten, label |-> label]

Line == [label |-> << >>, app |-> "NoOp", test |-> << >>,
         to |-> At(<< >>, << >>, << >>), who |-> {}]
Labelled(label, line) == [line EXCEPT !.label = label]
Run(app, who) == [Line EXCEPT !.app = app, !.who = who]
Goto(to) == [Line EXCEPT !.app = "Goto", !.to = to]
GotoIf(test, to) == [Line EXCEPT !.app = "GotoIf", !.test = test, !.to = to]
Hangup == Run("Hangup", {})

Section(ctx, exten, lines) == <<[ctx |-> ctx, exten |-> exten, lines |-> lines]>>

\* The elements of s that are in S, in their order.
Kept(s, S) ==
  LET kept[i \in 0 .. Len(s)] ==
        IF i = 0 THEN << >>
        ELSE IF s[i] \in S THEN Append(kept[i - 1], s[i]) ELSE kept[i - 1]
  IN kept[Len(s)]

\* The lines of all x in s, one after the other.
Each(s, Op(_)) == FlattenSeq([i \in DOMAIN s |-> Op(s[i])])

\* A destination is the context it is reached in; none hangs up.
Render(dest) == IF dest = << >> THEN Hangup ELSE Goto(At(dest, Start, First))

-----------------------------------------------------------------------------
(* Extensions.                                                             *)

Ext(e) == <<"ext", e.number>>
InExt(e, label) == At(Ext(e), Start, <<label>>)

\* Mutant: the test for devices is dropped.
HasRingGroupAlways(e) == ~e.ai

HasRingGroup(e) == ~e.ai /\ e.devices # << >>

\* Mutant: an extension that is skipped for its assistant has no entry.
InternalEntryOfGroups(e) ==
  IF HasRingGroup(e) THEN Section(Internal, <<e.number>>, <<Goto(InExt(e, "1"))>>) ELSE << >>

InternalEntry(e) ==
  CASE e.ai -> Section(Internal, <<e.number>>, <<Run("Stasis", {e.number})>>)
    [] HasRingGroup(e) -> Section(Internal, <<e.number>>, <<Goto(InExt(e, "1"))>>)
    [] OTHER -> << >>

BusyGates(e) ==
  [i \in DOMAIN e.devices |-> GotoIf(<<"INUSE", e.devices[i]>>, InExt(e, "busy"))]

AvailabilityGates(e) ==
  IF e.gated THEN <<GotoIf(<<"UNAVAILABLE">>, InExt(e, "unavailable"))>> ELSE << >>

\* Mutant: an unreachable device counts as settled.
SettledByOffline(e) == <<GotoIf(<<"DIALSTATUS", "CHANUNAVAIL">>, InExt(e, "done")),
                         GotoIf(<<"DIALSTATUS", "BUSY">>, InExt(e, "busy"))>>

\* After each device but the last: the call is settled, or the next one rings.
Settled(e) == <<GotoIf(<<"DIALSTATUS", "ANSWER">>, InExt(e, "done")),
                GotoIf(<<"DIALSTATUS", "BUSY">>, InExt(e, "busy"))>>

DialLines(e) ==
  IF e.parallel THEN <<Run("Dial", ToSet(e.devices))>>
  ELSE FlattenSeq([i \in DOMAIN e.devices |->
         <<Run("Dial", {e.devices[i]})>>
           \o (IF i < Len(e.devices) THEN Settled(e) ELSE << >>)])

FollowMe(e) == Run(IF e.follow THEN "Stasis" ELSE "Voicemail", {e.number})

\* Mutant: the block is left at its default, not active.
AnnouncementNever(e) == << >>

Announcement(e) ==
  IF e.gated THEN <<Labelled(<<"unavailable">>, Run("Playback", {})),
                    Run("Voicemail", {e.number}), Hangup>>
  ELSE << >>

RingGroup(e) ==
  <<Line>> \o BusyGates(e) \o AvailabilityGates(e) \o DialLines(e)
    \o <<FollowMe(e), Hangup, Labelled(<<"done">>, Hangup),
         Labelled(<<"busy">>, Run("Voicemail", {e.number})), Hangup>>
    \o Announcement(e)

ExtSections(e) ==
  IF ~HasRingGroup(e) THEN << >>
  ELSE Section(Ext(e), Start, RingGroup(e))
         \o (IF e.mailbox
             THEN Section(<<"vm", e.number>>, Start, <<Run("Voicemail", {e.number})>>)
             ELSE << >>)

-----------------------------------------------------------------------------
(* Gates by the time of the day.                                           *)

\* GotoIfTime takes times, weekdays, days and months.  The line of a day off
\* has its day for the weekday, its month for the day, its year for the month.
HolidaySkip(gate, miss) ==
  IF gate = "leaves" THEN <<GotoIf(<<"TIME", "year for month">>, miss)>> ELSE << >>

\* Mutant: the jump for a miss is forgotten.
TimeGateThrough(gate, match, miss) ==
  IF gate = "none" THEN <<Goto(match)>>
  ELSE HolidaySkip(gate, miss) \o <<GotoIf(<<"TIME", "hours">>, match)>>

TimeGate(gate, match, miss) ==
  IF gate = "none" THEN <<Goto(match)>>
  ELSE HolidaySkip(gate, miss) \o <<GotoIf(<<"TIME", "hours">>, match), Goto(miss)>>

TimeSections(t) ==
  LET ctx == <<"time", t.name>>
      to(label) == At(ctx, Start, <<label>>)
  IN Section(ctx, Start,
       <<GotoIf(<<"TIME", "hours">>, to("in-range")), Goto(to("no-match")),
         Labelled(<<"in-range">>, Line)>>
         \o HolidaySkip(t.gate, to("no-match"))
         \o <<Render(t.match), Labelled(<<"no-match">>, Render(t.nomatch))>>)

-----------------------------------------------------------------------------
(* Queues.  Others reach a queue by its number and as a destination; its   *)
(* context is generated under another name.                                *)

QueueEntry(q) ==
  Section(Internal, <<q.number>>, <<Goto(At(<<"queue", q.name>>, Start, First))>>)

QueueTimeout(q) ==
  IF q.target = None THEN <<Hangup>> ELSE <<Line, Run("Queue", {q.target}), Hangup>>

QueueSections(q) ==
  Section(<<q.name>>, Start, <<Run("Queue", {q.name}), Hangup>>)
    \o (IF q.timed THEN Section(<<q.name>>, <<"t">>, QueueTimeout(q)) ELSE << >>)

\* Operator 0: the first queue handled by hand.
OperatorEntry(c) ==
  LET manual == {i \in DOMAIN c.queues : c.queues[i].manual} IN
  IF manual = {} THEN << >>
  ELSE Section(Internal, <<"0">>,
         <<Goto(At(<<"queue", c.queues[Min(manual)].name>>, Start, First)), Hangup>>)

-----------------------------------------------------------------------------
(* Inbound routes, grouped by what they match.                             *)

\* Mutant: the caller of a numbered route is left out.
InboundMatchDid(r) ==
  IF r.did # None THEN <<r.did>> ELSE IF r.cid # None THEN <<"_.">> ELSE Start

InboundMatch(r) ==
  IF r.did # None THEN (IF r.cid # None THEN <<r.did, r.cid>> ELSE <<r.did>>)
  ELSE IF r.cid # None THEN <<"_.">> ELSE Start

OnlyCid(r) == r.did = None /\ r.cid # None
CatchAll(r) == r.did = None /\ r.cid = None

\* Mutant: the last route of callers goes back to the first.
NextInboundRound(group, i) ==
  IF i < Len(group) THEN At(FromTrunk, InboundMatch(group[i]), <<"start", group[i + 1].seq>>)
  ELSE At(FromTrunk, InboundMatch(group[i]), First)

NextInbound(group, i) ==
  IF i < Len(group) THEN At(FromTrunk, InboundMatch(group[i]), <<"start", group[i + 1].seq>>)
  ELSE At(FromTrunk, Start, First)

InboundLines(group, i) ==
  LET r == group[i]
      own == <<"r", r.seq>>
      to == At(FromTrunk, InboundMatch(r), own)
  IN <<IF i = 1 THEN Line ELSE Labelled(<<"start", r.seq>>, Line)>>
     \o (IF OnlyCid(r)
         THEN <<GotoIf(<<"CALLERID", r.cid>>, to), Goto(NextInbound(group, i)),
                Labelled(own, Line)>>
         ELSE <<Line>>)
     \o <<Render(r.dest)>>

\* One exten per match, made where its first route is.
InboundGroup(routes, i) ==
  LET match == InboundMatch(routes[i])
      group == Kept(routes, {r \in ToSet(routes) : InboundMatch(r) = match})
  IN IF \E j \in 1 .. i - 1 : InboundMatch(routes[j]) = match THEN << >>
     ELSE Section(FromTrunk, match,
            FlattenSeq([k \in DOMAIN group |-> InboundLines(group, k)]))

NoService == <<Line, Run("Playback", {}), Hangup>>

InboundFallback(routes) ==
  IF \E i \in DOMAIN routes : CatchAll(routes[i]) THEN << >>
  ELSE Section(FromTrunk, Start, NoService)
         \o (IF \E i \in DOMAIN routes : OnlyCid(routes[i]) THEN << >>
             ELSE Section(FromTrunk, <<"_.">>, NoService))

AccountEntry(a) == Section(FromTrunk, <<a.user>>, <<Line, Line, Render(a.dest)>>)

InboundSections(c) ==
  IF c.inbound = << >> THEN << >>
  ELSE FlattenSeq([i \in DOMAIN c.inbound |-> InboundGroup(c.inbound, i)])
         \o InboundFallback(c.inbound) \o Each(c.accounts, AccountEntry)

-----------------------------------------------------------------------------
(* Outbound routes: those of a pattern are a chain, tried while their gate *)
(* misses; the trunks of a route are tried while they fail.                *)

OutLabel(r, label) == At(Outbound, <<r.pattern>>, label)
AllFailed == At(Failover, <<"failover">>, First)

\* Mutant: whether to go on is not looked at.
TrunkLinesAll(r, k) ==
  <<Run("Dial", {r.trunks[k].name})>>
  \o (IF k < Len(r.trunks) THEN <<Goto(OutLabel(r, <<"t", r.seq, k>>)),
                                  Labelled(<<"t", r.seq, k>>, Line)>>
      ELSE <<Goto(AllFailed)>>)

TrunkLines(r, k) ==
  LET t == r.trunks[k] IN
  <<Run("Dial", {t.name}),
    GotoIf(<<"DIALSTATUS", "ANSWER">>, At(Failover, <<"hangup">>, First))>>
  \o (IF k < Len(r.trunks)
      THEN <<Goto(IF t.next THEN OutLabel(r, <<"t", r.seq, k>>) ELSE AllFailed),
             Labelled(<<"t", r.seq, k>>, Line)>>
      ELSE <<Goto(AllFailed)>>)

OutboundLines(chain, i) ==
  LET r == chain[i]
      next == IF i < Len(chain) THEN OutLabel(r, <<"start", chain[i + 1].seq>>) ELSE AllFailed
  IN <<IF i = 1 THEN Line ELSE Labelled(<<"start", r.seq>>, Line)>>
     \o TimeGate(r.gate, OutLabel(r, <<"go", r.seq>>), next)
     \o <<Labelled(<<"go", r.seq>>, Line)>>
     \o FlattenSeq([k \in DOMAIN r.trunks |-> TrunkLines(r, k)])

Chain(routes, pattern) == Kept(routes, {r \in ToSet(routes) : r.pattern = pattern})

OutboundChain(routes, i) ==
  LET chain == Chain(routes, routes[i].pattern) IN
  IF \E j \in 1 .. i - 1 : routes[j].pattern = routes[i].pattern THEN << >>
  ELSE Section(Outbound, <<routes[i].pattern>>,
         FlattenSeq([k \in DOMAIN chain |-> OutboundLines(chain, k)]))

\* The destination is that of the last route of the company.
OutboundFailover(routes) ==
  IF Last(routes).failover # << >> THEN Render(Last(routes).failover)
  ELSE Run("Playback", {})

OutboundSections(c) ==
  IF c.outbound = << >> THEN << >>
  ELSE FlattenSeq([i \in DOMAIN c.outbound |-> OutboundChain(c.outbound, i)])
         \o Section(Failover, <<"failover">>, <<Line, OutboundFailover(c.outbound)>>)
         \o Section(Failover, <<"hangup">>, <<Hangup>>)

\* From the inside: 0 and +, and a Swedish number without its +.
OutboundEntry(c) ==
  IF c.outbound = << >> THEN << >>
  ELSE Section(Internal, <<"_0.">>, <<Goto(At(Outbound, Dialled, First))>>)
         \o Section(Internal, <<"_+.">>, <<Goto(At(Outbound, Dialled, First))>>)
         \o Section(Internal, <<"_46.">>, <<Line, Goto(At(Outbound, DialledE164, First))>>)

-----------------------------------------------------------------------------
(* generate_all.                                                           *)

Sections(c) ==
  Each(c.exts, InternalEntry) \o Each(c.queues, QueueEntry) \o OperatorEntry(c)
    \o OutboundEntry(c) \o Section(Internal, <<"_X.">>, NoService)
    \o Each(c.exts, ExtSections) \o InboundSections(c) \o OutboundSections(c)
    \o Each(c.queues, QueueSections) \o Each(c.times, TimeSections)

\* What Asterisk makes of the files: of two lines at one priority the first stays.
Loaded(sections) ==
  [key \in {<<s.ctx, s.exten>> : s \in ToSet(sections)} |->
     LET lines[i \in 0 .. Len(sections)] ==
           IF i = 0 THEN << >>
           ELSE IF <<sections[i].ctx, sections[i].exten>> # key THEN lines[i - 1]
           ELSE lines[i - 1] \o SubSeq(sections[i].lines, Len(lines[i - 1]) + 1,
                                       Len(sections[i].lines))
     IN lines[Len(sections)]]

Plan(c) == Loaded(Sections(c))

=============================================================================
