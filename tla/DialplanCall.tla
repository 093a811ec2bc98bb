---------------------------- MODULE DialplanCall ----------------------------
(***************************************************************************)
(* A call in the dialplan of Dialplan.tla.  What runs it is Asterisk: it   *)
(* executes the lines one after the other, and devices, trunks, schedules  *)
(* and the clock answer as they like.  The company's records may be edited *)
(* and a new dialplan loaded while the call is in it; the call then goes   *)
(* on at the same line of the exten that the new one has for it.           *)
(***************************************************************************)
EXTENDS Dialplan, FiniteSets, Integers

CONSTANTS
  Companies,   (* states the records may be in: a function                 *)
  Inside,      (* numbers dialled from a phone                             *)
  Outside,     (* numbers click-to-call dials, normalised                  *)
  Dids, Cids,  (* called and calling numbers of calls from a trunk         *)
  Patterns,    (* the patterns a number matches, the best one first        *)
  E164,        (* a Swedish number with its +                              *)
  MaxTicks,    (* bound: changes of the time of the day                    *)
  MaxReloads   (* bound: reloads of the dialplan                           *)

\* The records a dialplan is made of, in the order of their sequence numbers.
ExtRecord == [number : STRING, devices : Seq(STRING), parallel : BOOLEAN, gated : BOOLEAN,
              mailbox : BOOLEAN, ai : BOOLEAN, follow : BOOLEAN]
InboundRecord == [seq : Int, did : STRING, cid : STRING, dest : Seq(STRING)]
AccountRecord == [user : STRING, dest : Seq(STRING)]
TrunkRecord == [name : STRING, next : BOOLEAN]
OutboundRecord == [seq : Int, pattern : STRING, gate : {"none", "hours", "leaves"},
                   trunks : Seq(TrunkRecord), failover : Seq(STRING)]
QueueRecord == [number : STRING, name : STRING, manual : BOOLEAN, timed : BOOLEAN,
                target : STRING]
TimeRecord == [name : STRING, gate : {"hours", "leaves"}, match : Seq(STRING),
               nomatch : Seq(STRING)]

CompanyRecord ==
  [exts : Seq(ExtRecord), inbound : Seq(InboundRecord), accounts : Seq(AccountRecord),
   outbound : Seq(OutboundRecord), queues : Seq(QueueRecord), times : Seq(TimeRecord)]

Sorted(routes) == \A i, j \in DOMAIN routes : i < j => routes[i].seq <= routes[j].seq
Distinct(exts) == \A i, j \in DOMAIN exts : exts[i].number = exts[j].number => i = j

\* Where records lead: nowhere, to a record, or to a context that a custom
\* destination names (whose other extens and priorities are left out).
DestinationsOf(c) ==
  {r.dest : r \in ToSet(c.inbound)} \union {a.dest : a \in ToSet(c.accounts)}
    \union {r.failover : r \in ToSet(c.outbound)}
    \union {t.match : t \in ToSet(c.times)} \union {t.nomatch : t \in ToSet(c.times)}
IsDestination(d) ==
  Len(d) <= 1 \/ (Len(d) = 2 /\ d[1] \in {"ext", "vm", "queue", "time"})

PatternsOut == {"_0.", "_+.", "_46."}

\* Nobody dials a pattern or s.  A number that a trunk calls is of one digit
\* at least, those that begin with 46 are the ones that have no +.  A number
\* is of one extension of its company.
ASSUME DialplanAssumption ==
  /\ MaxTicks \in Nat /\ MaxReloads \in Nat
  /\ Inside \union Outside \union Dids \union Cids \subseteq STRING
  /\ Inside \union Outside \union Dids \subseteq DOMAIN Patterns
  /\ Inside \intersect PatternsOut = {} /\ Start[1] \notin DOMAIN Patterns
  /\ \A x \in DOMAIN Patterns : Patterns[x] \in Seq(STRING)
  /\ None \notin Dids /\ \A d \in Dids : Contains(Patterns[d], "_.")
  /\ E164 \in [DOMAIN E164 -> DOMAIN Patterns] /\ DOMAIN E164 \subseteq Inside
  /\ \A n \in Inside : IF n \in DOMAIN E164
                       THEN ToSet(Patterns[n]) \intersect PatternsOut = {"_46."}
                       ELSE "_46." \notin ToSet(Patterns[n])
  /\ \A c \in DOMAIN Companies :
       /\ Companies[c] \in CompanyRecord
       /\ Sorted(Companies[c].inbound) /\ Sorted(Companies[c].outbound)
       /\ Distinct(Companies[c].exts)
       /\ \A d \in DestinationsOf(Companies[c]) : IsDestination(d)

VARIABLES
  loaded,    (* the records the loaded dialplan was made of                *)
  now,       (* the time of the day                                        *)
  call,      (* the call                                                   *)
  ticks, reloads

vars == <<loaded, now, call, ticks, reloads>>

Plans == [c \in DOMAIN Companies |-> Plan(Companies[c])]
Company == Companies[loaded]
Lines(ctx, exten) == Plans[loaded][<<ctx, exten>>]

\* The clock: in the hours or out of them.  A year is never a month.
Times == {"hours", "night"}
Holds(test) == IF test = "hours" THEN {"hours"} ELSE {}

\* No place: the call has ended.
Ended == [ctx |-> << >>, exten |-> << >>, line |-> 0]
NoCall == [entry |-> "none", number |-> None, cid |-> None, at |-> Ended, status |-> "none",
           end |-> "none", path |-> << >>, steady |-> TRUE, rang |-> {}, why |-> {},
           tried |-> << >>, seen |-> {}]

Init ==
  /\ loaded \in DOMAIN Companies /\ now \in Times
  /\ call = NoCall /\ ticks = 0 /\ reloads = 0

-----------------------------------------------------------------------------
(* Asterisk finds an exten: the one with the caller's number, the one      *)
(* itself, the best pattern.                                               *)

Candidates(x, cid) ==
  <<<<x, cid>>, <<x>>>> \o (IF x \in DOMAIN Patterns
                            THEN [i \in DOMAIN Patterns[x] |-> <<Patterns[x][i]>>] ELSE << >>)

Found(ctx, x, cid) ==
  {i \in DOMAIN Candidates(x, cid) : <<ctx, Candidates(x, cid)[i]>> \in DOMAIN Plans[loaded]}

\* The lines of an exten that bear a label, or the first line.
Positions(ctx, exten, label) ==
  IF label = First THEN {1}
  ELSE {i \in DOMAIN Lines(ctx, exten) : Lines(ctx, exten)[i].label = label}

Leave(c, end) == [c EXCEPT !.at = Ended, !.end = end]

\* The call goes to exten x of a context, or is lost.
Enters(c, ctx, x, label) ==
  LET found == Found(ctx, x, c.cid)
      moved == [c EXCEPT !.path = Append(@, ctx)]
      exten == Candidates(x, c.cid)[Min(found)]
  IN IF found = {} \/ Positions(ctx, exten, label) = {} THEN Leave(moved, "lost")
     ELSE [moved EXCEPT !.at = [ctx |-> ctx, exten |-> exten,
                                line |-> Min(Positions(ctx, exten, label))]]

\* A jump inside the exten keeps it; ${EXTEN} is the number dialled.
Jumps(c, to) ==
  IF to.ctx = c.at.ctx /\ to.exten = c.at.exten
  THEN LET lines == Positions(to.ctx, to.exten, to.label)
       IN IF lines = {} THEN Leave(c, "lost") ELSE [c EXCEPT !.at.line = Min(lines)]
  ELSE Enters(c, to.ctx, CASE to.exten = Dialled -> c.number
                           [] to.exten = DialledE164 -> E164[c.number]
                           [] OTHER -> to.exten[1], to.label)

NextLine(c) == [c EXCEPT !.at.line = @ + 1]

-----------------------------------------------------------------------------
(* Calls begin.                                                            *)

NewCall(entry, number, cid) ==
  [NoCall EXCEPT !.entry = entry, !.number = number, !.cid = cid, !.seen = {now}]

Begin(c, ctx) ==
  /\ call = NoCall
  /\ call' = Enters(c, ctx, c.number, First)
  /\ UNCHANGED <<loaded, now, ticks, reloads>>

DialInside == \E n \in Inside : Begin(NewCall("inside", n, None), Internal)
ClickToCall == \E n \in Outside : Begin(NewCall("click", n, None), Outbound)
CallIn == \E d \in Dids, c \in Cids : Begin(NewCall("trunk", d, c), FromTrunk)

-----------------------------------------------------------------------------
(* Lines are executed.                                                     *)

\* The line the call is at; past the last one (or nowhere, after a reload) it ends.
Present ==
  /\ call.at # Ended
  /\ <<call.at.ctx, call.at.exten>> \in DOMAIN Plans[loaded]
  /\ call.at.line <= Len(Lines(call.at.ctx, call.at.exten))
Here == Lines(call.at.ctx, call.at.exten)[call.at.line]

Does(app) == Present /\ Here.app = app /\ UNCHANGED <<loaded, now, ticks, reloads>>

Pass == Does("NoOp") /\ call' = NextLine(call)

Jump == Does("Goto") /\ call' = Jumps(call, Here.to)

\* What the records do not decide, the world does: a device in use, a person away.
Outcomes(test) ==
  CASE test[1] = "TIME" -> {now \in Holds(test[2])}
    [] test[1] = "CALLERID" -> {call.cid = test[2]}
    [] test[1] = "DIALSTATUS" -> {call.status = test[2]}
    [] OTHER -> BOOLEAN

Branch ==
  /\ Does("GotoIf")
  /\ \E yes \in Outcomes(Here.test) :
       call' = IF yes
               THEN Jumps([call EXCEPT !.why = IF Here.test[1] \in {"INUSE", "UNAVAILABLE"}
                                               THEN @ \union {Here.test[1]} ELSE @], Here.to)
               ELSE NextLine(call)

\* An answered call ends with its bridge; the dialplan goes on after the others.
Ring ==
  /\ Does("Dial")
  /\ \E status \in {"ANSWER", "BUSY", "NOANSWER", "CHANUNAVAIL"} :
       LET out == call.at.ctx = Outbound
           rung == [call EXCEPT !.status = status,
                      !.rang = IF out THEN @ ELSE @ \union Here.who,
                      !.tried = IF out THEN Append(@, [who |-> Here.who, seen |-> call.seen])
                                ELSE @,
                      !.why = IF status = "BUSY" /\ ~out THEN @ \union {status} ELSE @]
       IN call' = IF status = "ANSWER" THEN Leave(rung, "answered") ELSE NextLine(rung)

\* Voicemail of an extension without a mailbox fails and the dialplan goes on.
Mailboxes == {Company.exts[i].number : i \in {j \in DOMAIN Company.exts : Company.exts[j].mailbox}}

Voicemail ==
  /\ Does("Voicemail")
  /\ call' = IF Here.who \subseteq Mailboxes THEN Leave(call, "voicemail") ELSE NextLine(call)

Assist == Does("Stasis") /\ call' = Leave(call, "assistant")
Queue == Does("Queue") /\ call' = Leave(call, "queue")
Play == Does("Playback") /\ call' = NextLine(call)
Drop == Does("Hangup") /\ call' = Leave(call, "hangup")

RunOut ==
  /\ call.at # Ended /\ ~Present
  /\ call' = Leave(call, "hangup")
  /\ UNCHANGED <<loaded, now, ticks, reloads>>

Step ==
  \/ Pass \/ Jump \/ Branch \/ Ring \/ Voicemail \/ Assist \/ Queue \/ Play \/ Drop \/ RunOut

-----------------------------------------------------------------------------
(* The world around a call.                                                *)

HangUp ==
  /\ call.at # Ended
  /\ call' = Leave(call, "gone")
  /\ UNCHANGED <<loaded, now, ticks, reloads>>

Tick ==
  /\ ticks < MaxTicks /\ call.at # Ended
  /\ now' \in Times \ {now}
  /\ ticks' = ticks + 1
  /\ call' = [call EXCEPT !.seen = @ \union {now'}]
  /\ UNCHANGED <<loaded, reloads>>

\* The number as a trunk would get it.
NumberOut ==
  IF call.entry = "inside" /\ call.number \in DOMAIN E164 THEN E164[call.number] ELSE call.number

\* The exten of the channel: what was dialled, unless the call was sent elsewhere.
OwnExten ==
  LET x == IF call.at.ctx = Outbound THEN NumberOut ELSE call.number
  IN IF Contains(Candidates(x, call.cid), call.at.exten) THEN x ELSE call.at.exten[1]

\* Where it is found in a plan: the best entry that has its line; else nowhere.
FoundIn(plan) ==
  LET entries == Candidates(OwnExten, call.cid)
      found == {i \in DOMAIN entries : /\ <<call.at.ctx, entries[i]>> \in DOMAIN plan
                                       /\ call.at.line <= Len(plan[<<call.at.ctx, entries[i]>>])}
  IN IF found = {} THEN call.at.exten ELSE entries[Min(found)]

Reload ==
  /\ reloads < MaxReloads /\ call.at # Ended
  /\ loaded' \in DOMAIN Companies \ {loaded}
  /\ reloads' = reloads + 1
  /\ call' = [call EXCEPT !.steady = FALSE, !.at.exten = FoundIn(Plans[loaded'])]
  /\ UNCHANGED <<now, ticks>>

Next == DialInside \/ ClickToCall \/ CallIn \/ Step \/ HangUp \/ Tick \/ Reload

Spec == Init /\ [][Next]_vars

\* Asterisk goes on with a call as long as it is there.
FairSpec == Spec /\ WF_vars(Step)

-----------------------------------------------------------------------------
\* What the variables hold: a call is in an exten that was made, and a Dial
\* has somebody to ring.
TypeOK ==
  /\ loaded \in DOMAIN Companies /\ now \in Times
  /\ ticks \in 0 .. MaxTicks /\ reloads \in 0 .. MaxReloads
  /\ call.entry \in {"none", "inside", "click", "trunk"}
  /\ call.at # Ended => call.end = "none" /\ call.at.line > 0 /\ now \in call.seen
  /\ call.at # Ended /\ call.steady =>
       /\ <<call.at.ctx, call.at.exten>> \in DOMAIN Plans[loaded]
       /\ call.at.line <= Len(Lines(call.at.ctx, call.at.exten)) + 1
       /\ Present /\ Here.app = "Dial" => Here.who # {}
  /\ call.end \in {"none", "answered", "voicemail", "assistant", "queue",
                   "hangup", "lost", "gone"}

-----------------------------------------------------------------------------
(* What a call may rely on, as long as no other dialplan is loaded under   *)
(* it.                                                                     *)

Over(end) == call.end = end /\ call.steady
ExtensionsOf(numbers) == {e \in ToSet(Company.exts) : e.number \in numbers}

\* Contexts that records lead to and the code does not make: of a queue, of a
\* time condition that is not active, one that a record names itself, of an
\* extension without a ring group or a mailbox.
NotMade(c, to) ==
  \/ to[1] = "queue"
  \/ to[1] = "time" /\ \A t \in ToSet(c.times) : t.name # to[2]
  \/ Len(to) = 1 /\ to \in DestinationsOf(c)
  \/ to[1] = "ext" /\ \A e \in ToSet(c.exts) : e.number = to[2] => ~HasRingGroup(e)
  \/ to[1] = "vm" /\ \A e \in ToSet(c.exts) : e.number = to[2] => ~HasRingGroup(e) \/ ~e.mailbox

\* The routes with a pattern for the number a trunk would get.
RoutesOut == {r \in ToSet(Company.outbound) :
                r.pattern = NumberOut \/ Contains(Patterns[NumberOut], r.pattern)}

\* The patterns of a number that have an entry inside.
PatternsInside ==
  ToSet(Patterns[call.number])
    \intersect ({"_X."} \union (IF Company.outbound = << >> THEN {} ELSE PatternsOut))

\* No route or account is for the called number and there is a catch-all, which
\* does not take it either.
Unrouted ==
  Company.inbound # << >> =>
    /\ \A r \in ToSet(Company.inbound) :
         ~OnlyCid(r) /\ (r.did = call.number => r.cid \notin {None, call.cid})
    /\ \A a \in ToSet(Company.accounts) : a.user # call.number
    /\ \E r \in ToSet(Company.inbound) : CatchAll(r)

\* A call is lost only where a record leads to a context that is not made,
\* from the inside with a number of no pattern, out with one no route has a
\* pattern for, and in with one that only a catch-all takes.  Every other
\* label, exten and context that is jumped to exists.
DeadEnds ==
  Over("lost") =>
    LET to == Last(call.path) IN
    \/ NotMade(Company, to)
    \/ to = Internal /\ PatternsInside = {}
    \/ to = Outbound /\ RoutesOut = {}
    \/ to = FromTrunk /\ Unrouted

\* A number of an extension or a queue, dialled inside, is never sent out to
\* a trunk, unless it is one of an extension with nothing to ring, which has
\* no entry.
InsideStaysInside ==
  call.steady /\ call.entry = "inside" /\ call.tried # << >> =>
    /\ \A e \in ExtensionsOf({call.number}) : ~e.ai /\ e.devices = << >>
    /\ \A q \in ToSet(Company.queues) : q.number # call.number

\* Where a call from a trunk belongs: to the route of its number and caller,
\* of its number, to the account, to the first route of its caller, and to a
\* catch-all when there are routes of callers.
InboundChoices ==
  LET routes == Company.inbound
      fits(did, cid) == Kept(routes, {r \in ToSet(routes) : r.did = did /\ r.cid = cid})
      account == Kept(Company.accounts, {a \in ToSet(Company.accounts) : a.user = call.number})
      ofCaller == IF call.cid = None THEN << >> ELSE fits(None, call.cid)
      rest == IF \E i \in DOMAIN routes : OnlyCid(routes[i]) THEN fits(None, None) ELSE << >>
  IN IF routes = << >> THEN << >>
     ELSE fits(call.number, call.cid) \o fits(call.number, None) \o account \o ofCaller \o rest

\* A call from a trunk goes to the destination of the best route there is
\* for it, whatever routes share its exten.
InboundByRule ==
  LET left == {i \in DOMAIN call.path : call.path[i] # FromTrunk} IN
  call.steady /\ call.entry = "trunk" =>
    /\ left # {} => InboundChoices # << >> /\ call.path[Min(left)] = Head(InboundChoices).dest
    /\ left = {} /\ call.end \in {"hangup", "lost"} =>
         InboundChoices = << >> \/ Head(InboundChoices).dest = << >>

\* Numbers and accounts are no patterns, routes of callers do not share their
\* labels, and no destination is the context of trunks.
ApartIn(c) ==
  /\ \A r \in ToSet(c.inbound) : r.did \notin {Start[1], "_."} /\ r.dest # FromTrunk
  /\ \A a \in ToSet(c.accounts) : a.user \notin {Start[1], "_."} /\ a.dest # FromTrunk
  /\ \A d \in Dids : ToSet(Patterns[d]) \intersect
       ({r.did : r \in ToSet(c.inbound)} \union {a.user : a \in ToSet(c.accounts)}) = {}
  /\ \A i, j \in DOMAIN c.inbound :
       i # j /\ OnlyCid(c.inbound[i]) /\ OnlyCid(c.inbound[j]) => c.inbound[i].seq # c.inbound[j].seq

\* The routes of a pattern do not share their labels, and no queue has the
\* context of the chains.
Apart(c) ==
  /\ \A i, j \in DOMAIN c.outbound :
       i # j /\ c.outbound[i].pattern = c.outbound[j].pattern => c.outbound[i].seq # c.outbound[j].seq
  /\ \A q \in ToSet(c.queues) : q.name # "outbound"

\* The trunk of a route with a gate is tried only by calls that were there
\* in the hours of the gate, whatever gates missed before in its chain.
GateHolds ==
  call.steady => \A i \in DOMAIN call.tried : \E r \in ToSet(Company.outbound) :
    /\ \E k \in DOMAIN r.trunks : call.tried[i].who = {r.trunks[k].name}
    /\ r.gate = "none" \/ "hours" \in call.tried[i].seen

\* A call out tries the trunks of one route in their order and goes on only
\* where the trunk says so.  It fails over only when it may try no more, or
\* when no route of its pattern was open to it or had a trunk.
TrunksInOrder ==
  LET tried == call.tried
      fits(r) == /\ Len(tried) <= Len(r.trunks)
                 /\ \A k \in DOMAIN tried : /\ tried[k].who = {r.trunks[k].name}
                                            /\ k < Len(tried) => r.trunks[k].next
      through(r) == Len(tried) = Len(r.trunks) \/ ~r.trunks[Len(tried)].next
      failed == Contains(call.path, Failover)
  IN call.steady =>
       /\ tried # << >> =>
            \E r \in RoutesOut : fits(r) /\ (failed => through(r))
       /\ tried = << >> /\ failed =>
            \E r \in RoutesOut : \A t \in ToSet(Chain(Company.outbound, r.pattern)) :
              t.gate # "none" \/ t.trunks = << >>

\* A call that an extension does not answer ends in its mailbox if it has
\* one.  The mailbox or the assistant takes it only after all devices rang,
\* unless one was busy or the person away.
UnansweredIsCaught ==
  call.path # << >> =>
    LET of == {e \in ToSet(Company.exts) : Ext(e) = Last(call.path)} IN
    /\ Over("hangup") => \A e \in of : ~e.mailbox
    /\ (Over("voicemail") \/ Over("assistant")) /\ call.why = {} =>
         \A e \in of : call.rang = ToSet(e.devices)

\* Every call leaves the dialplan at last, even if another one is loaded
\* under it: no chain of labels and jumps goes round.
EveryCallEnds == call.at # Ended ~> call.at = Ended

=============================================================================
