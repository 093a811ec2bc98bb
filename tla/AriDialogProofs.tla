--------------------------- MODULE AriDialogProofs ---------------------------
(***************************************************************************)
(* Theorems about AriDialog for every set of calls and every bound.        *)
(*                                                                         *)
(* That a dialog takes one step at a time, and that it has a next step,    *)
(* are proved of three places a step can be (with Asterisk, in an event,   *)
(* with the handler) instead of the sum of their lengths.  Inv adds which  *)
(* events can still come before a dialog begins and after a call has left, *)
(* and that the reply in the shared dictionary is that of the handler.     *)
(***************************************************************************)
EXTENDS AriDialog, SequenceTheorems, FiniteSetTheorems, TLAPS

FinishedType == {"RecordingFinished", "PlaybackFinished"}
Finished(c) == {i \in DOMAIN events : events[i].of = c /\ events[i].type \in FinishedType}

\* The dialog's step is in one place at most, and in one at least.
OnePlace(c) ==
  /\ doing[c] # << >> => Tail(doing[c]) = << >>
  /\ \A i, j \in Finished(c) : i = j
  /\ doing[c] # << >> => Finished(c) = {} /\ handler.of # c
  /\ Finished(c) # {} => handler.of # c
SomePlace(c) == doing[c] # << >> \/ Finished(c) # {} \/ handler.of = c

OneInv == \A c \in Channels : Live(c) => OnePlace(c)
NextInv == named => \A c \in Channels \ failed : Talking(c) => SomePlace(c)

\* Where finish events name no channel, no dialog gets beyond its first turn.
Answering(c) == handler = [pc |-> "answer", of |-> c]
FirstTurn(c) ==
  IF Answering(c) THEN conv[c].turn = 0 ELSE conv[c].turn = 1 \/ c \in failed
DeafInv ==
  ~ named => handler.pc # "fetch" /\ \A c \in Channels : Live(c) => FirstTurn(c)

\* Nothing has been done for a call whose StasisStart is not taken.
Fresh(c) ==
  /\ ~ conv[c].open /\ ~ conv[c].ended
  /\ doing[c] = << >> /\ Finished(c) = {} /\ handler.of # c
OutInv == \A c \in Channels : call[c] = "out" => Fresh(c) /\ \A i \in DOMAIN events : events[i].of # c
StartInv ==
  \A c \in Channels : \A i \in DOMAIN events :
    events[i] = Plain("StasisStart", c) =>
      Fresh(c) /\ call[c] # "out" /\ \A j \in 1 .. i - 1 : events[j].of # c

\* A call that is not in the application does nothing there, and StasisEnd
\* says that it left.
LeftInv ==
  /\ \A c \in Channels : call[c] # "stasis" => doing[c] = << >>
  /\ \A c \in Channels : \A i \in DOMAIN events :
       events[i] = Plain("StasisEnd", c) => call[c] = "left"

\* Only an open dialog is ended, and one that is being ended is not live.
EndedInv ==
  /\ \A c \in Channels : ~ conv[c].open => ~ conv[c].ended
  /\ \A c \in Channels :
       handler.of = c /\ handler.pc \in {"goodbye", "hangup", "redirect"} => ~ Live(c)

LostInv == ~ connected => failed = Channels

\* The dictionary holds the reply the handler is about to play, or nothing.
ReplyInv ==
  failed = {} =>
    \/ ttsUrls = << >>
    \/ /\ handler.pc = "play"
       /\ ttsUrls = <<[of |-> handler.of, turn |-> conv[handler.of].turn]>>

Inv ==
  /\ TypeOK /\ OneInv /\ NextInv /\ DeafInv /\ OutInv /\ StartInv /\ LeftInv /\ EndedInv /\ LostInv
  /\ ReplyInv /\ ReplyIsOwn

-----------------------------------------------------------------------------
(* Events and where a step is                                              *)

LEMMA EventsType ==
  ASSUME TypeOK
  PROVE  /\ events \in Seq(Event) /\ Len(events) \in Nat /\ DOMAIN events = 1 .. Len(events)
         /\ \A i \in DOMAIN events : events[i] \in Event /\ events[i].of \in Channels
  <1>1. events \in Seq(Event) BY DEF TypeOK
  <1>2. \A e \in Event : e.of \in Channels BY DEF Event
  <1> QED BY <1>1, <1>2, LenProperties, ElementOfSeq

LEMMA DoingType ==
  ASSUME TypeOK, NEW c \in Channels
  PROVE  /\ doing[c] \in Seq(Activity) /\ Len(doing[c]) \in Nat
         /\ DOMAIN doing[c] = 1 .. Len(doing[c])
         /\ doing[c] # << >> => Len(doing[c]) > 0 /\ Head(doing[c]) \in Activity
  <1>1. doing[c] \in Seq(Activity) BY DEF TypeOK
  <1> QED BY <1>1, LenProperties, EmptySeq, HeadTailProperties

\* A handler that is at work is of a call.
LEMMA AtWork ==
  ASSUME TypeOK
  PROVE  /\ handler.pc # "idle" => handler.of \in Channels /\ handler # Idle
         /\ handler.pc \in PC \union {"idle"}
         /\ handler.pc = "idle" => handler = Idle
         /\ \A pc \in PC : handler.pc # "idle" =>
              [handler EXCEPT !.pc = pc] = [pc |-> pc, of |-> handler.of]
         /\ \A c \in Channels : Idle.of # c
  BY AriAssumption DEF TypeOK, Handler, Idle, PC

LEMMA FinishedIsEvent ==
  ASSUME NEW c \in Channels, NEW a \in Activity
  PROVE  /\ FinishedEvent(c, a) \in Event /\ FinishedEvent(c, a).of = c
         /\ FinishedEvent(c, a).type \in FinishedType
  BY DEF Activity, FinishedEvent, Recorded, Plain, Event, FinishedType

\* The first event is taken; what is left moves up.
LEMMA Taken ==
  ASSUME TypeOK, NEW type, NEW c \in Channels, Take(type, c)
  PROVE  /\ events' \in Seq(Event) /\ DOMAIN events' = 1 .. Len(events) - 1
         /\ 1 \in DOMAIN events /\ events[1].of = c /\ events[1].type = type
         /\ \A i \in DOMAIN events' : i + 1 \in DOMAIN events /\ events'[i] = events[i + 1]
         /\ \A d \in Channels :
              /\ \A i \in Finished(d)' : i + 1 \in Finished(d)
              /\ \A i \in Finished(d) : i = 1 \/ i - 1 \in Finished(d)'
              /\ 1 \in Finished(d) <=> d = c /\ type \in FinishedType
  <1>1. /\ events \in Seq(Event) /\ Len(events) \in Nat /\ DOMAIN events = 1 .. Len(events)
        /\ events # << >> /\ events' = Tail(events)
    BY EventsType DEF Take
  <1>2. Len(events) > 0 BY <1>1, EmptySeq
  <1>3. /\ events' \in Seq(Event) /\ Len(events') = Len(events) - 1
        /\ \A i \in 1 .. Len(events') : events'[i] = events[i + 1]
    BY <1>1, HeadTailProperties
  <1>4. DOMAIN events' = 1 .. Len(events) - 1 BY <1>3, LenProperties
  <1>5. Head(events) = events[1] BY <1>1
  <1>6. 1 \in DOMAIN events /\ events[1].of = c /\ events[1].type = type
    BY <1>1, <1>2, <1>5 DEF Take
  <1>7. \A i \in DOMAIN events' : i + 1 \in DOMAIN events /\ events'[i] = events[i + 1]
    BY <1>1, <1>2, <1>3, <1>4
  <1>8. \A i \in DOMAIN events : i = 1 \/ (i - 1 \in DOMAIN events' /\ events'[i - 1] = events[i])
    BY <1>1, <1>2, <1>3, <1>4
  <1>9. ASSUME NEW d \in Channels
        PROVE  /\ \A i \in Finished(d)' : i + 1 \in Finished(d)
               /\ \A i \in Finished(d) : i = 1 \/ i - 1 \in Finished(d)'
               /\ 1 \in Finished(d) <=> d = c /\ type \in FinishedType
    <2>1. \A i \in Finished(d)' : i + 1 \in Finished(d) BY <1>7 DEF Finished
    <2>2. \A i \in Finished(d) : i = 1 \/ i - 1 \in Finished(d)' BY <1>8 DEF Finished
    <2>3. 1 \in Finished(d) <=> d = c /\ type \in FinishedType BY <1>6 DEF Finished
    <2> QED BY <2>1, <2>2, <2>3
  <1> QED BY <1>3, <1>4, <1>6, <1>7, <1>9

\* Events are added after those that wait, or lost with the websocket.
LEMMA Added ==
  ASSUME TypeOK, NEW es \in Seq(Event), events' = After(es)
  PROVE  /\ events' \in Seq(Event)
         /\ \A i \in DOMAIN events : i \in DOMAIN events' /\ events'[i] = events[i]
         /\ \A i \in DOMAIN events' :
              \/ i \in DOMAIN events
              \/ connected /\ \E k \in DOMAIN es : i = Len(events) + k /\ events'[i] = es[k]
         /\ connected => \A k \in DOMAIN es :
              Len(events) + k \in DOMAIN events' /\ events'[Len(events) + k] = es[k]
  <1>1. /\ events \in Seq(Event) /\ Len(events) \in Nat /\ DOMAIN events = 1 .. Len(events)
        /\ Len(es) \in Nat /\ DOMAIN es = 1 .. Len(es)
    BY EventsType, LenProperties
  <1>2. CASE ~ connected BY <1>1, <1>2 DEF After
  <1>3. CASE connected
    <2>1. events' = events \o es BY <1>3 DEF After
    <2>2. /\ events' \in Seq(Event) /\ Len(events') = Len(events) + Len(es)
          /\ \A i \in 1 .. Len(events) + Len(es) :
               events'[i] = IF i <= Len(events) THEN events[i] ELSE es[i - Len(events)]
      BY <1>1, <2>1, ConcatProperties
    <2>3. DOMAIN events' = 1 .. Len(events) + Len(es) BY <2>2, LenProperties
    <2>4. \A i \in DOMAIN events : i \in DOMAIN events' /\ events'[i] = events[i]
      BY <1>1, <2>2, <2>3
    <2>5. \A k \in DOMAIN es :
            Len(events) + k \in DOMAIN events' /\ events'[Len(events) + k] = es[k]
      <3> SUFFICES ASSUME NEW k \in DOMAIN es
                   PROVE  /\ Len(events) + k \in DOMAIN events'
                          /\ events'[Len(events) + k] = es[k]
        OBVIOUS
      <3>1. Len(events) + k \in 1 .. Len(events) + Len(es) /\ ~ (Len(events) + k <= Len(events))
        BY <1>1
      <3>2. (Len(events) + k) - Len(events) = k BY <1>1
      <3> QED BY <2>2, <2>3, <3>1, <3>2
    <2>6. ASSUME NEW i \in DOMAIN events', i \notin DOMAIN events
          PROVE  \E k \in DOMAIN es : i = Len(events) + k /\ events'[i] = es[k]
      <3>1. i - Len(events) \in DOMAIN es /\ i = Len(events) + (i - Len(events))
        BY <1>1, <2>3, <2>6
      <3> QED BY <2>5, <3>1
    <2> QED BY <1>3, <2>2, <2>4, <2>5, <2>6
  <1> QED BY <1>2, <1>3

\* A turn is counted in no other way than by _start_record.
LEMMA DeafKept ==
  ASSUME Inv, UNCHANGED <<named, conv>>, failed \subseteq failed',
         \/ handler' = handler
         \/ /\ handler.pc # "answer" \/ handler.of \in failed'
            /\ handler'.pc \notin {"answer", "fetch"}
  PROVE  DeafInv'
  <1> SUFFICES ASSUME ~ named
               PROVE  handler'.pc # "fetch" /\ \A c \in Channels : Live(c)' => FirstTurn(c)'
    BY DEF DeafInv
  <1>1. handler.pc # "fetch" BY DEF Inv, DeafInv
  <1>2. ASSUME NEW c \in Channels, Live(c)' PROVE FirstTurn(c)'
    <2>1. FirstTurn(c) BY <1>2 DEF Inv, DeafInv, Live
    <2> QED BY <2>1 DEF FirstTurn, Answering
  <1> QED BY <1>1, <1>2

-----------------------------------------------------------------------------
(* Asterisk and the callers                                                *)

\* On a call in the application something ends, and events say so.  What the
\* dialog waits for goes from Asterisk into an event.
LEMMA AddStep ==
  ASSUME Inv, TypeOK', NEW c \in Channels, NEW es \in Seq(Event), events' = After(es),
         call[c] = "stasis", call'[c] \in {"stasis", "left"},
         \A k \in DOMAIN es :
           /\ es[k].of = c /\ es[k].type # "StasisStart"
           /\ es[k].type = "StasisEnd" => call'[c] = "left"
           /\ es[k].type \in FinishedType => k = 1 /\ doing[c] # << >>,
         \A d \in Channels \ {c} : call'[d] = call[d] /\ doing'[d] = doing[d],
         \/ doing'[c] = doing[c] /\ \A k \in DOMAIN es : es[k].type \notin FinishedType
         \/ doing'[c] = << >>
         \/ doing[c] # << >> /\ doing'[c] = Tail(doing[c]),
         call'[c] = "left" => doing'[c] = << >>,
         call'[c] = "stasis" =>
           \/ doing'[c] = doing[c]
           \/ \E k \in DOMAIN es : es[k].type \in FinishedType,
         UNCHANGED <<conv, ttsUrls, line, failed>>,
         handler' = handler
           \/ (handler' = Idle /\ handler.of = c /\ call'[c] = "left"
                /\ handler.pc \notin {"answer", "play"})
  PROVE  Inv'
  <1> USE DEF Inv, line
  <1>1. /\ \A i \in DOMAIN events : i \in DOMAIN events' /\ events'[i] = events[i]
        /\ \A i \in DOMAIN events' :
             \/ i \in DOMAIN events
             \/ connected /\ \E k \in DOMAIN es : i = Len(events) + k /\ events'[i] = es[k]
        /\ connected => \A k \in DOMAIN es :
             Len(events) + k \in DOMAIN events' /\ events'[Len(events) + k] = es[k]
    BY Added
  <1>2. /\ Len(events) \in Nat /\ DOMAIN events = 1 .. Len(events)
        /\ \A i \in DOMAIN events : events[i].of \in Channels
    BY EventsType
  <1>3. \A d \in Channels \ {c} : Finished(d)' = Finished(d)
    BY <1>1 DEF Finished
  <1>4. /\ Finished(c) \subseteq Finished(c)'
        /\ \A i \in Finished(c)' : i \in Finished(c) \/ (i = Len(events) + 1 /\ doing[c] # << >>)
        /\ (\A k \in DOMAIN es : es[k].type \notin FinishedType) => Finished(c)' = Finished(c)
    BY <1>1 DEF Finished
  <1>5. \A d \in Channels : handler'.of = d => handler.of = d BY AtWork
  <1>6. \A d \in Channels : Live(d)' = Live(d) BY DEF Live
  <1>7. doing[c] = << >> => doing'[c] = << >> /\ Finished(c)' = Finished(c)
    BY <1>4
  <1>8. OneInv'
    <2> SUFFICES ASSUME NEW d \in Channels, Live(d) PROVE OnePlace(d)'
      BY <1>6 DEF OneInv
    <2>1. OnePlace(d) BY DEF OneInv
    <2>2. CASE d # c BY <1>3, <1>5, <2>1, <2>2 DEF OnePlace
    <2>3. CASE d = c /\ doing[c] = << >> BY <1>5, <1>7, <2>1, <2>3 DEF OnePlace
    <2>4. CASE d = c /\ doing[c] # << >>
      <3>1. Tail(doing[c]) = << >> /\ Finished(c) = {} /\ handler'.of # c
        BY <1>5, <2>1, <2>4 DEF OnePlace
      <3>2. \A i, j \in Finished(c)' : i = j BY <1>4, <3>1
      <3>3. CASE doing'[c] = << >> BY <2>4, <3>1, <3>2, <3>3 DEF OnePlace
      <3>4. CASE doing'[c] = doing[c] /\ \A k \in DOMAIN es : es[k].type \notin FinishedType
        <4>1. Finished(c)' = {} BY <1>4, <3>1, <3>4
        <4> QED BY <2>4, <3>1, <3>4, <4>1 DEF OnePlace
      <3> QED BY <3>1, <3>3, <3>4
    <2> QED BY <2>2, <2>3, <2>4
  <1>9. NextInv'
    <2> SUFFICES ASSUME named, NEW d \in Channels \ failed, Talking(d)' PROVE SomePlace(d)'
      BY DEF NextInv
    <2>1. CASE d # c
      <3>1. SomePlace(d) BY <1>6, <2>1 DEF NextInv, Talking
      <3>2. handler.of = d => handler'.of = d BY <2>1
      <3> QED BY <1>3, <2>1, <3>1, <3>2 DEF SomePlace
    <2>2. CASE d = c
      <3>1. call'[c] = "stasis" /\ handler' = handler BY <2>2 DEF Talking
      <3>2. SomePlace(c) BY <1>6, <2>2, <3>1 DEF NextInv, Talking
      <3>3. CASE doing'[c] = doing[c] BY <1>4, <2>2, <3>1, <3>2, <3>3 DEF SomePlace
      <3>4. ASSUME NEW k \in DOMAIN es, es[k].type \in FinishedType PROVE SomePlace(d)'
        <4>1. connected BY DEF LostInv
        <4>2. Len(events) + k \in Finished(c)' BY <1>1, <3>4, <4>1 DEF Finished
        <4> QED BY <2>2, <4>2 DEF SomePlace
      <3> QED BY <3>1, <3>3, <3>4
    <2> QED BY <2>1, <2>2
  <1>10. \A d \in Channels : Fresh(d) => Fresh(d)' BY <1>3, <1>5, <1>7 DEF Fresh
  <1>11. OutInv' BY <1>1, <1>10 DEF OutInv
  <1>12. StartInv'
    <2> SUFFICES ASSUME NEW d \in Channels, NEW i \in DOMAIN events', events'[i] = Plain("StasisStart", d)
                 PROVE  Fresh(d)' /\ call'[d] # "out" /\ \A j \in 1 .. i - 1 : events'[j].of # d
      BY DEF StartInv, Plain
    <2>1. i \in DOMAIN events /\ events'[i] = events[i] BY <1>1 DEF Plain
    <2>2. Fresh(d) /\ call[d] # "out" /\ \A j \in 1 .. i - 1 : events[j].of # d
      BY <2>1 DEF StartInv
    <2>3. \A j \in 1 .. i - 1 : j \in DOMAIN events BY <1>2, <2>1
    <2> QED BY <1>1, <1>10, <2>2, <2>3
  <1>13. LeftInv'
    <2>1. \A d \in Channels : call'[d] # "stasis" => doing'[d] = << >> BY DEF LeftInv
    <2>2. ASSUME NEW d \in Channels, NEW i \in DOMAIN events', events'[i] = Plain("StasisEnd", d)
          PROVE  call'[d] = "left"
      <3>1. CASE i \in DOMAIN events
        <4>1. call[d] = "left" BY <1>1, <2>2, <3>1 DEF LeftInv
        <4> QED BY <4>1
      <3>2. CASE i \notin DOMAIN events BY <1>1, <2>2, <3>2 DEF Plain
      <3> QED BY <3>1, <3>2
    <2> QED BY <2>1, <2>2 DEF LeftInv, Plain
  <1>14. EndedInv'
    <2>1. handler'.pc \in {"goodbye", "hangup", "redirect"} => handler' = handler BY DEF Idle
    <2> QED BY <1>6, <2>1 DEF EndedInv
  <1>15. LostInv' BY DEF LostInv
  <1>16. ReplyInv' BY DEF ReplyInv
  <1>17. ReplyIsOwn'
    <2>1. \A d \in Channels : \A i \in DOMAIN doing'[d] : \E j \in DOMAIN doing[d] : doing'[d][i] = doing[d][j]
      <3> SUFFICES ASSUME NEW i \in DOMAIN doing'[c]
                   PROVE  \E j \in DOMAIN doing[c] : doing'[c][i] = doing[c][j]
        OBVIOUS
      <3>1. CASE doing'[c] = doing[c] BY <3>1
      <3>2. CASE doing'[c] = << >> BY <3>2
      <3>3. CASE doing[c] # << >> /\ doing'[c] = Tail(doing[c])
        <4>1. /\ doing[c] \in Seq(Activity) /\ Len(doing[c]) \in Nat
              /\ DOMAIN doing[c] = 1 .. Len(doing[c])
          BY DoingType
        <4>2. /\ DOMAIN Tail(doing[c]) = 1 .. Len(doing[c]) - 1
              /\ \A j \in DOMAIN Tail(doing[c]) : Tail(doing[c])[j] = doing[c][j + 1]
          BY <3>3, <4>1, HeadTailProperties, LenProperties
        <4>3. i + 1 \in DOMAIN doing[c] /\ doing'[c][i] = doing[c][i + 1] BY <3>3, <4>1, <4>2
        <4> QED BY <4>3
      <3> QED BY <3>1, <3>2, <3>3
    <2> QED BY <2>1 DEF ReplyIsOwn
  <1>18. DeafInv' BY DeafKept DEF Idle
  <1> QED BY <1>8, <1>9, <1>11, <1>12, <1>13, <1>14, <1>15, <1>16, <1>17, <1>18

LEMMA FinishStep ==
  ASSUME Inv, NEW c \in Channels, Finish(c)
  PROVE  Inv'
  <1> USE DEF Inv, line, ghosts, daemon
  <1> DEFINE e == FinishedEvent(c, Head(doing[c]))
             es == <<e>>
  <1>1. /\ call[c] = "stasis" /\ doing[c] # << >> /\ doing' = [doing EXCEPT ![c] = Tail(@)]
        /\ events' = After(es) /\ UNCHANGED <<call, keys, line, conv, ttsUrls, handler, failed, faults>>
    BY DEF Finish
  <1>2. doing[c] \in Seq(Activity) /\ Head(doing[c]) \in Activity BY <1>1, DoingType
  <1>3. e \in Event /\ e.of = c /\ e.type \in FinishedType BY <1>2, FinishedIsEvent
  <1> HIDE DEF e
  <1>4. es \in Seq(Event) BY <1>3
  <1>5. /\ doing'[c] = Tail(doing[c]) /\ \A d \in Channels \ {c} : doing'[d] = doing[d]
    BY <1>1 DEF TypeOK
  <1>6. TypeOK'
    <2>1. Tail(doing[c]) \in Seq(Activity) BY <1>1, <1>2, HeadTailProperties
    <2>2. doing' \in [Channels -> Seq(Activity)] BY <1>1, <2>1 DEF TypeOK
    <2>3. events' \in Seq(Event) BY <1>1, <1>4, Added
    <2> QED BY <1>1, <2>2, <2>3 DEF TypeOK
  <1>7. \A k \in DOMAIN es : k = 1 /\ es[k] = e OBVIOUS
  <1>8. \E k \in DOMAIN es : es[k] = e OBVIOUS
  <1>9. e.type # "StasisStart" /\ e.type # "StasisEnd" BY <1>3 DEF FinishedType
  <1> HIDE DEF es
  <1> QED BY <1>1, <1>3, <1>4, <1>5, <1>6, <1>7, <1>8, <1>9, AddStep

LEMMA PressStep ==
  ASSUME Inv, NEW c \in Channels, NEW digit \in EndKeys, Press(c, digit)
  PROVE  Inv'
  <1> USE DEF Inv, line, ghosts, daemon
  <1> DEFINE e == Dtmf(c, digit)
             es == <<e>>
  <1>1. /\ call[c] = "stasis" /\ keys[c] < MaxKeys /\ keys' = [keys EXCEPT ![c] = @ + 1]
        /\ events' = After(es) /\ UNCHANGED <<call, doing, line, conv, ttsUrls, handler, failed, faults>>
    BY DEF Press
  <1>2. e \in Event /\ e.of = c /\ e.type = "ChannelDtmfReceived" BY DEF Dtmf, Event
  <1> HIDE DEF e
  <1>3. es \in Seq(Event) BY <1>2
  <1>4. TypeOK'
    <2>1. keys' \in [Channels -> 0 .. MaxKeys] BY <1>1, AriAssumption DEF TypeOK
    <2>2. events' \in Seq(Event) BY <1>1, <1>3, Added
    <2> QED BY <1>1, <2>1, <2>2 DEF TypeOK
  <1>5. \A k \in DOMAIN es : es[k].of = c /\ es[k].type = "ChannelDtmfReceived" BY <1>2
  <1> HIDE DEF es
  <1> QED BY <1>1, <1>3, <1>4, <1>5, AddStep DEF FinishedType

\* A call leaves because the caller hung up or a handler ended it.
LEMMA LeaveStep ==
  ASSUME Inv, NEW c \in Channels, call[c] = "stasis", Leave(c),
         UNCHANGED <<keys, line, conv, ttsUrls, ghosts>>,
         handler' = handler
           \/ (handler' = Idle /\ handler.of = c /\ handler.pc \notin {"answer", "play"})
  PROVE  Inv'
  <1> USE DEF Inv, line, ghosts
  <1>1. call' = [call EXCEPT ![c] = "left"] /\ doing' = [doing EXCEPT ![c] = << >>]
    BY DEF Leave
  <1>2. /\ call'[c] = "left" /\ doing'[c] = << >>
        /\ \A d \in Channels \ {c} : call'[d] = call[d] /\ doing'[d] = doing[d]
    BY <1>1 DEF TypeOK
  <1>3. PICK es \in LeaveEvents(c) : events' = After(es) BY DEF Leave
  <1>4. Plain("StasisEnd", c) \in Event BY DEF Plain, Event
  <1>5. /\ es \in Seq(Event)
        /\ \A k \in DOMAIN es :
             /\ es[k].of = c /\ es[k].type # "StasisStart"
             /\ es[k].type \in FinishedType => k = 1 /\ doing[c] # << >>
    <2>1. CASE es = <<Plain("StasisEnd", c)>> BY <1>4, <2>1 DEF Plain, FinishedType
    <2>2. CASE doing[c] # << >> /\ es = <<FinishedEvent(c, Head(doing[c])), Plain("StasisEnd", c)>>
      <3>1. Head(doing[c]) \in Activity BY <2>2, DoingType
      <3> DEFINE e == FinishedEvent(c, Head(doing[c]))
      <3>2. e \in Event /\ e.of = c /\ e.type \in FinishedType BY <3>1, FinishedIsEvent
      <3>3. es = <<e, Plain("StasisEnd", c)>> BY <2>2
      <3> HIDE DEF e
      <3>4. es \in Seq(Event) BY <1>4, <3>2, <3>3
      <3>5. DOMAIN es = {1, 2} /\ es[1] = e /\ es[2] = Plain("StasisEnd", c) BY <3>3
      <3> QED BY <2>2, <3>2, <3>4, <3>5 DEF Plain, FinishedType
    <2> QED BY <1>3, <2>1, <2>2 DEF LeaveEvents
  <1>6. TypeOK'
    <2>1. events' \in Seq(Event) BY <1>3, <1>5, Added
    <2>2. << >> \in Seq(Activity) OBVIOUS
    <2>3. handler' \in Handler BY DEF TypeOK, Handler, Idle
    <2> QED BY <1>1, <2>1, <2>2, <2>3 DEF TypeOK
  <1> QED BY <1>2, <1>3, <1>5, <1>6, AddStep

\* StasisStart is the first event of its call.
LEMMA EnterStep ==
  ASSUME Inv, NEW c \in Channels, Enter(c)
  PROVE  Inv'
  <1> USE DEF Inv, line, ghosts, daemon
  <1> DEFINE e == Plain("StasisStart", c)
             es == <<e>>
  <1>1. /\ call[c] = "out" /\ connected /\ call' = [call EXCEPT ![c] = "stasis"] /\ events' = After(es)
        /\ UNCHANGED <<doing, keys, line, conv, ttsUrls, handler, failed, faults>>
    BY DEF Enter
  <1>2. e \in Event /\ e.of = c /\ e.type = "StasisStart" BY DEF Plain, Event
  <1> HIDE DEF e
  <1>3. es \in Seq(Event) /\ DOMAIN es = {1} /\ es[1] = e BY <1>2
  <1> HIDE DEF es
  <1>4. /\ events' \in Seq(Event)
        /\ \A i \in DOMAIN events : i \in DOMAIN events' /\ events'[i] = events[i]
        /\ \A i \in DOMAIN events' :
             \/ i \in DOMAIN events
             \/ i = Len(events) + 1 /\ events'[i] = e
    BY <1>1, <1>3, Added
  <1>5. /\ Len(events) \in Nat /\ DOMAIN events = 1 .. Len(events)
        /\ \A i \in DOMAIN events : events[i].of \in Channels
    BY EventsType
  <1>6. TypeOK' BY <1>1, <1>4 DEF TypeOK
  <1>7. call'[c] = "stasis" /\ \A d \in Channels \ {c} : call'[d] = call[d] BY <1>1 DEF TypeOK
  <1>8. \A d \in Channels : Finished(d)' = Finished(d) BY <1>2, <1>4 DEF Finished, FinishedType
  <1>9. \A d \in Channels : Fresh(d)' = Fresh(d) BY <1>1, <1>8 DEF Fresh
  <1>10. Fresh(c) /\ \A i \in DOMAIN events : events[i].of # c BY <1>1 DEF OutInv
  <1>11. OneInv' BY <1>1, <1>8 DEF OneInv, OnePlace, Live
  <1>12. NextInv'
    <2>1. ~ Live(c)' BY <1>1, <1>10 DEF Live, Fresh
    <2> QED BY <1>1, <1>7, <1>8, <2>1 DEF NextInv, SomePlace, Talking, Live
  <1>13. OutInv' BY <1>2, <1>4, <1>7, <1>9 DEF OutInv
  <1>14. StartInv'
    <2> SUFFICES ASSUME NEW d \in Channels, NEW i \in DOMAIN events', events'[i] = Plain("StasisStart", d)
                 PROVE  Fresh(d)' /\ call'[d] # "out" /\ \A j \in 1 .. i - 1 : events'[j].of # d
      BY DEF StartInv, Plain
    <2>1. CASE i \in DOMAIN events
      <3>1. Fresh(d) /\ call[d] # "out" /\ \A j \in 1 .. i - 1 : events[j].of # d
        BY <1>4, <2>1 DEF StartInv
      <3>2. \A j \in 1 .. i - 1 : j \in DOMAIN events BY <1>5, <2>1
      <3> QED BY <1>4, <1>7, <1>9, <3>1, <3>2
    <2>2. CASE i = Len(events) + 1 /\ events'[i] = e
      <3>1. d = c BY <1>2, <2>2 DEF Plain
      <3>2. \A j \in 1 .. i - 1 : j \in DOMAIN events BY <1>5, <2>2
      <3> QED BY <1>4, <1>7, <1>9, <1>10, <3>1, <3>2
    <2> QED BY <1>4, <2>1, <2>2
  <1>15. LeftInv'
    <2>1. \A d \in Channels : call'[d] # "stasis" => doing'[d] = << >> BY <1>1, <1>7 DEF LeftInv
    <2>2. ASSUME NEW d \in Channels, NEW i \in DOMAIN events', events'[i] = Plain("StasisEnd", d)
          PROVE  call'[d] = "left"
      <3>1. i \in DOMAIN events BY <1>2, <1>4, <2>2 DEF Plain
      <3>2. call[d] = "left" BY <1>4, <2>2, <3>1 DEF LeftInv
      <3> QED BY <1>1, <1>7, <3>2
    <2> QED BY <2>1, <2>2 DEF LeftInv, Plain
  <1>16. EndedInv' /\ LostInv' /\ ReplyInv' /\ ReplyIsOwn' /\ DeafInv'
    BY <1>1, DeafKept DEF EndedInv, LostInv, ReplyInv, ReplyIsOwn, Live
  <1> QED BY <1>6, <1>11, <1>12, <1>13, <1>14, <1>15, <1>16

\* With the websocket every call's events are lost.
LEMMA SocketLostStep ==
  ASSUME Inv, SocketLost
  PROVE  Inv'
  <1> USE DEF Inv, daemon
  <1>1. /\ connected' = FALSE /\ failed' = Channels /\ faults' = faults + 1 /\ faults < MaxFaults
        /\ UNCHANGED <<call, doing, keys, named, events, conv, ttsUrls, handler>>
    BY DEF SocketLost
  <1>2. TypeOK'
    <2>1. faults' \in 0 .. MaxFaults BY <1>1, AriAssumption DEF TypeOK
    <2>2. connected' \in BOOLEAN BY <1>1
    <2> QED BY <1>1, <2>1, <2>2 DEF TypeOK
  <1>3. OneInv' BY <1>1 DEF OneInv, OnePlace, Finished, Live
  <1>4. NextInv' /\ LostInv' BY <1>1 DEF NextInv, LostInv
  <1>5. OutInv' /\ StartInv' BY <1>1 DEF OutInv, StartInv, Fresh, Finished
  <1>6. LeftInv' BY <1>1 DEF LeftInv
  <1>7. EndedInv' BY <1>1 DEF EndedInv, Live
  <1>8. failed' = {} => failed = {} BY <1>1 DEF TypeOK
  <1>9. ReplyInv' /\ ReplyIsOwn' BY <1>1, <1>8 DEF ReplyInv, ReplyIsOwn
  <1>10. DeafInv' BY <1>1, DeafKept DEF TypeOK
  <1> QED BY <1>2, <1>3, <1>4, <1>5, <1>6, <1>7, <1>9, <1>10

-----------------------------------------------------------------------------
(* A handler goes on                                                       *)

\* The reply is dropped, or kept for the handler that is about to play it, and
\* a dialog whose turn changes has nothing left to hear.
LEMMA HandlerStep ==
  ASSUME Inv, TypeOK', NEW c \in Channels, handler.of = c,
         UNCHANGED <<call, events, line>>, failed \subseteq failed',
         \A d \in Channels \ {c} : conv'[d] = conv[d] /\ doing'[d] = doing[d],
         conv'[c].open = conv[c].open, conv'[c].ended = conv[c].ended,
         handler' = Idle \/ handler'.of = c,
         handler'.pc \in {"goodbye", "hangup", "redirect"} => ~ Live(c),
         call[c] # "stasis" => doing'[c] = doing[c],
         Live(c) =>
           \/ doing'[c] = doing[c]
           \/ handler' = Idle /\ \E a : doing'[c] = Append(doing[c], a),
         Talking(c) /\ c \notin failed' => handler'.of = c \/ doing'[c] # << >>,
         DeafInv', ReplyInv', ReplyIsOwn'
  PROVE  Inv'
  <1> USE DEF Inv, line
  <1>1. \A d \in Channels : handler'.of = d => d = c BY AtWork
  <1>2. \A d \in Channels : Finished(d)' = Finished(d) BY DEF Finished
  <1>3. \A d \in Channels : Live(d)' = Live(d) BY DEF Live
  <1>4. OneInv'
    <2> SUFFICES ASSUME NEW d \in Channels, Live(d) PROVE OnePlace(d)'
      BY <1>3 DEF OneInv
    <2>1. OnePlace(d) BY DEF OneInv
    <2>2. CASE d # c BY <1>1, <1>2, <2>1, <2>2 DEF OnePlace
    <2>3. CASE d = c /\ doing'[c] = doing[c] BY <1>2, <2>1, <2>3 DEF OnePlace
    <2>4. CASE d = c /\ handler' = Idle /\ \E a : doing'[c] = Append(doing[c], a)
      <3>1. doing[c] = << >> /\ Finished(c) = {} BY <2>1, <2>4 DEF OnePlace
      <3>2. PICK a : doing'[c] = Append(doing[c], a) BY <2>4
      <3>3. doing'[c] = <<a>> BY <3>1, <3>2
      <3>4. Tail(<<a>>) = << >> OBVIOUS
      <3>5. handler'.of # c BY <2>4, AtWork
      <3> QED BY <1>2, <2>4, <3>1, <3>3, <3>4, <3>5 DEF OnePlace
    <2> QED BY <2>2, <2>3, <2>4
  <1>5. NextInv'
    <2> SUFFICES ASSUME named, NEW d \in Channels \ failed', Talking(d)' PROVE SomePlace(d)'
      BY DEF NextInv
    <2>1. Talking(d) BY <1>3 DEF Talking
    <2>2. CASE d # c
      <3>1. SomePlace(d) /\ handler.of # d BY <2>1, <2>2 DEF NextInv
      <3> QED BY <1>2, <2>2, <3>1 DEF SomePlace
    <2>3. CASE d = c BY <2>1, <2>3 DEF SomePlace
    <2> QED BY <2>2, <2>3
  <1>6. \A d \in Channels : Fresh(d) => Fresh(d)' BY <1>1, <1>2 DEF Fresh
  <1>7. OutInv' /\ StartInv' BY <1>6 DEF OutInv, StartInv
  <1>8. LeftInv' BY DEF LeftInv
  <1>9. EndedInv'
    <2>1. \A d \in Channels : ~ conv'[d].open => ~ conv'[d].ended BY DEF EndedInv
    <2> QED BY <1>1, <1>3, <2>1 DEF EndedInv
  <1>10. LostInv' BY DEF LostInv, TypeOK
  <1> QED BY <1>4, <1>5, <1>7, <1>8, <1>9, <1>10

\* What a request did to the call and to what is known of failures.
LEMMA Requested ==
  ASSUME TypeOK, NEW c \in Channels, UNCHANGED ghosts \/ Refused(c) \/ (\E pc \in PC : Raised(pc)),
         handler.of = c
  PROVE  /\ failed \subseteq failed' /\ failed' \subseteq Channels
         /\ faults' \in 0 .. MaxFaults
  BY AriAssumption DEF TypeOK, ghosts, Refused, Raised

\* _start_record counts a turn of a live dialog, in which nothing is played.
LEMMA StartRecordStep ==
  ASSUME Inv, handler.pc \in {"answer", "fetch"}, StartRecord(handler.of),
         UNCHANGED <<asterisk, events, ttsUrls>>, UNCHANGED ghosts \/ Refused(handler.of)
  PROVE  Inv'
  <1> USE DEF Inv, line, asterisk
  <1> DEFINE c == handler.of
  <1>1. c \in Channels BY AtWork
  <1>2. failed \subseteq failed' /\ failed' \subseteq Channels /\ faults' \in 0 .. MaxFaults
    BY <1>1, Requested
  <1>3. \/ Live(c) /\ conv' = [conv EXCEPT ![c].turn = @ + 1] /\ handler' = [pc |-> "record", of |-> c]
        \/ ~ Live(c) /\ conv' = conv /\ handler' = Idle
    BY DEF StartRecord, Return
  <1> HIDE DEF c
  <1>4. TypeOK'
    <2>1. conv' \in [Channels -> Conversation]
      <3>1. conv[c] \in Conversation BY <1>1 DEF TypeOK
      <3>2. [conv[c] EXCEPT !.turn = @ + 1] \in Conversation BY <3>1 DEF Conversation
      <3>3. conv' = conv \/ conv' = [conv EXCEPT ![c] = [conv[c] EXCEPT !.turn = @ + 1]] BY <1>3
      <3> QED BY <1>1, <3>2, <3>3 DEF TypeOK
    <2>2. handler' \in Handler BY <1>1, <1>3 DEF Handler, PC, Idle
    <2> QED BY <1>2, <2>1, <2>2 DEF TypeOK
  <1>5. /\ conv'[c].open = conv[c].open /\ conv'[c].ended = conv[c].ended
        /\ \A d \in Channels \ {c} : conv'[d] = conv[d]
        /\ ~ Live(c) => conv'[c] = conv[c]
    BY <1>1, <1>3 DEF TypeOK, Conversation
  <1>6. Live(c) => doing[c] = << >> BY <1>1 DEF OneInv, OnePlace, c
  <1>7. ttsUrls = << >> \/ failed # {} BY DEF ReplyInv
  <1>8. ReplyInv' BY <1>2, <1>7 DEF ReplyInv
  <1>9. ReplyIsOwn'
    <2>1. \A d \in Channels : doing[d] = << >> \/ conv'[d] = conv[d] BY <1>5, <1>6
    <2>2. DOMAIN << >> = {} OBVIOUS
    <2> QED BY <1>2, <2>1, <2>2 DEF ReplyIsOwn
  <1>10. handler' = Idle \/ handler'.of = c BY <1>3
  <1>11. handler'.pc \notin {"goodbye", "hangup", "redirect"} BY <1>3 DEF Idle
  <1>12. Talking(c) => handler'.of = c BY <1>3 DEF Talking
  <1>13. DeafInv'
    <2> SUFFICES ASSUME ~ named
                 PROVE  handler'.pc # "fetch" /\ \A d \in Channels : Live(d)' => FirstTurn(d)'
      BY DEF DeafInv
    <2>1. handler = [pc |-> "answer", of |-> c] BY AtWork DEF DeafInv, c, Handler, TypeOK, Idle
    <2>2. handler'.pc \in {"record", "idle"} BY <1>3 DEF Idle
    <2>3. ASSUME NEW d \in Channels, d = c, Live(d)' PROVE FirstTurn(d)'
      <3>1. Live(d) BY <1>5, <2>3 DEF Live
      <3>2. conv[d].turn = 0 BY <2>1, <2>3, <3>1 DEF DeafInv, FirstTurn, Answering
      <3>3. conv'[d].turn = 1 BY <1>3, <2>3, <3>1, <3>2 DEF TypeOK, Conversation
      <3> QED BY <2>2, <3>3 DEF FirstTurn, Answering
    <2>4. ASSUME NEW d \in Channels \ {c}, Live(d)' PROVE FirstTurn(d)'
      <3>1. FirstTurn(d) /\ ~ Answering(d) BY <1>5, <2>1, <2>4 DEF DeafInv, Live, Answering
      <3> QED BY <1>2, <1>5, <2>2, <3>1 DEF FirstTurn, Answering
    <2> QED BY <2>2, <2>3, <2>4
  <1> QED BY <1>1, <1>2, <1>4, <1>5, <1>8, <1>9, <1>10, <1>11, <1>12, <1>13, HandlerStep DEF c

\* Asterisk is asked to record or to play, accepts or refuses, and the handler
\* returns (after a goodbye it goes on).
LEMMA BeginStep ==
  ASSUME Inv, NEW c \in Channels, handler.of = c, NEW a \in Activity,
         handler.pc # "answer",
         \/ call[c] = "stasis" /\ UNCHANGED ghosts /\ doing' = [doing EXCEPT ![c] = Append(@, a)]
         \/ Refused(c),
         UNCHANGED <<keys, line, conv, call, events>>,
         handler' = Idle \/ (handler' = [pc |-> "hangup", of |-> c] /\ ~ Live(c)),
         ttsUrls' \in Seq(Audio \ {NoAudio}), failed = {} => ttsUrls' = << >>,
         a.kind = "play" /\ failed = {} =>
           a.audio \in {NoAudio, [of |-> c, turn |-> conv[c].turn]}
  PROVE  Inv'
  <1> USE DEF Inv, line
  <1>1. UNCHANGED ghosts \/ Refused(c) OBVIOUS
  <1>2. failed \subseteq failed' /\ failed' \subseteq Channels /\ faults' \in 0 .. MaxFaults
    BY <1>1, Requested
  <1>3. /\ \/ call[c] = "stasis" /\ doing'[c] = Append(doing[c], a)
           \/ Refused(c) /\ doing' = doing
        /\ \A d \in Channels \ {c} : doing'[d] = doing[d]
    BY DEF TypeOK, Refused
  <1>4. /\ doing[c] \in Seq(Activity) /\ Append(doing[c], a) \in Seq(Activity)
        /\ Append(doing[c], a) # << >>
    BY DoingType, AppendProperties
  <1>5. TypeOK'
    <2>1. doing' \in [Channels -> Seq(Activity)] BY <1>3, <1>4 DEF TypeOK, Refused
    <2>2. handler' \in Handler BY DEF Handler, Idle, PC
    <2> QED BY <1>2, <2>1, <2>2 DEF TypeOK
  <1>6. ReplyInv' BY <1>2 DEF ReplyInv
  <1>7. ReplyIsOwn'
    <2>1. \A i \in DOMAIN Append(doing[c], a) :
            \/ Append(doing[c], a)[i] = a
            \/ i \in DOMAIN doing[c] /\ Append(doing[c], a)[i] = doing[c][i]
      BY <1>4, AppendProperties, LenProperties
    <2>2. \A d \in Channels : \A i \in DOMAIN doing'[d] :
            \/ d = c /\ doing'[d][i] = a
            \/ i \in DOMAIN doing[d] /\ doing'[d][i] = doing[d][i]
      BY <1>3, <2>1
    <2> QED BY <1>2, <2>2 DEF ReplyIsOwn
  <1>8. Talking(c) /\ c \notin failed' => doing'[c] # << >>
    BY <1>3, <1>4 DEF Talking, Refused
  <1>9. handler' = Idle \/ handler'.of = c OBVIOUS
  <1>10. handler'.pc \in {"goodbye", "hangup", "redirect"} => ~ Live(c) BY DEF Idle
  <1>11. DeafInv' BY <1>2, DeafKept DEF Idle
  <1> QED BY <1>2, <1>3, <1>5, <1>6, <1>7, <1>8, <1>9, <1>10, <1>11, HandlerStep

LEMMA RecordStep ==
  ASSUME Inv, Record
  PROVE  Inv'
  <1> USE DEF Inv, line
  <1> DEFINE c == handler.of
             a == Recording(conv[c].turn)
  <1>1. c \in Channels BY AtWork DEF Record
  <1>2. a \in Activity /\ a.kind = "record" BY <1>1 DEF TypeOK, Conversation, Recording, Activity
  <1>3. /\ handler' = Idle /\ UNCHANGED <<keys, line, conv, call, events>>
        /\ \/ call[c] = "stasis" /\ UNCHANGED ghosts /\ doing' = [doing EXCEPT ![c] = Append(@, a)]
           \/ Refused(c)
    BY DEF Record, Return, Accepted, Begin, Refused
  <1>4. ttsUrls' \in Seq(Audio \ {NoAudio}) /\ (failed = {} => ttsUrls' = << >>)
    BY DEF Record, TypeOK, ReplyInv
  <1>5. handler.of = c /\ handler.pc # "answer" BY DEF Record
  <1> HIDE DEF c, a
  <1> QED BY <1>1, <1>2, <1>3, <1>4, <1>5, BeginStep

\* The audio that is played is the handler's own reply, if no request failed.
LEMMA PlayStep ==
  ASSUME Inv, PlayReply
  PROVE  Inv'
  <1> USE DEF Inv, line
  <1> DEFINE c == handler.of
             audio == IF ttsUrls = << >> THEN NoAudio ELSE Head(ttsUrls)
             a == Playing(audio)
  <1>1. c \in Channels BY AtWork DEF PlayReply
  <1>2. ttsUrls \in Seq(Audio \ {NoAudio}) BY DEF TypeOK
  <1>3. audio \in Audio BY <1>2, HeadTailProperties DEF Audio, NoAudio
  <1>4. a \in Activity /\ a.audio = audio BY <1>3 DEF Playing, Activity
  <1>5. /\ handler' = Idle /\ UNCHANGED <<keys, line, conv, call, events>>
        /\ \/ call[c] = "stasis" /\ UNCHANGED ghosts /\ doing' = [doing EXCEPT ![c] = Append(@, a)]
           \/ Refused(c)
        /\ ttsUrls' = IF ttsUrls = << >> THEN ttsUrls ELSE Tail(ttsUrls)
    BY DEF PlayReply, Return, Accepted, Begin, Refused
  <1>6. failed = {} => ttsUrls \in {<< >>, <<[of |-> c, turn |-> conv[c].turn]>>}
    BY DEF ReplyInv
  <1>7. /\ ttsUrls' \in Seq(Audio \ {NoAudio})
        /\ failed = {} => ttsUrls' = << >> /\ audio \in {NoAudio, [of |-> c, turn |-> conv[c].turn]}
    BY <1>2, <1>5, <1>6, HeadTailProperties
  <1>8. handler.of = c /\ handler.pc # "answer" BY DEF PlayReply
  <1> HIDE DEF c, audio, a
  <1> QED BY <1>1, <1>4, <1>5, <1>7, <1>8, BeginStep

LEMMA GoodbyeStep ==
  ASSUME Inv, Goodbye
  PROVE  Inv'
  <1> USE DEF Inv, line
  <1> DEFINE c == handler.of
             a == Playing(NoAudio)
  <1>1. c \in Channels BY AtWork DEF Goodbye
  <1>2. a \in Activity /\ a.audio = NoAudio BY DEF Playing, Activity, Audio
  <1>3. handler' = [pc |-> "hangup", of |-> c] BY AtWork DEF Goodbye, Goto, PC
  <1>4. /\ UNCHANGED <<keys, line, conv, call, events>>
        /\ \/ call[c] = "stasis" /\ UNCHANGED ghosts /\ doing' = [doing EXCEPT ![c] = Append(@, a)]
           \/ Refused(c)
    BY DEF Goodbye, Accepted, Begin, Refused
  <1>5. ttsUrls' \in Seq(Audio \ {NoAudio}) /\ (failed = {} => ttsUrls' = << >>)
    BY DEF Goodbye, TypeOK, ReplyInv
  <1>6. ~ Live(c) BY <1>1 DEF Goodbye, EndedInv
  <1>7. handler.of = c /\ handler.pc # "answer" BY DEF Goodbye
  <1> HIDE DEF c, a
  <1> QED BY <1>1, <1>2, <1>3, <1>4, <1>5, <1>6, <1>7, BeginStep

\* A request breaks, or the handler sends its next one.
LEMMA MoveStep ==
  ASSUME Inv,
         \/ FetchAudio \/ HearNothing \/ HearWords \/ ReplyWithAudio \/ ReplyWithoutAudio
         \/ \E pc \in PC : Raised(pc)
  PROVE  Inv'
  <1> USE DEF Inv, line
  <1> DEFINE c == handler.of
             own == [of |-> c, turn |-> conv[c].turn]
  <1>1. c \in Channels
    BY AtWork DEF FetchAudio, HearNothing, HearWords, ReplyWithAudio, ReplyWithoutAudio, Raised, PC
  <1>2. UNCHANGED <<asterisk, events, conv>>
    BY DEF FetchAudio, HearNothing, HearWords, ReplyWithAudio, ReplyWithoutAudio, Raised
  <1>3. UNCHANGED ghosts \/ \E pc \in PC : Raised(pc)
    BY DEF FetchAudio, HearNothing, HearWords, ReplyWithAudio, ReplyWithoutAudio
  <1>4. failed \subseteq failed' /\ failed' \subseteq Channels /\ faults' \in 0 .. MaxFaults
    BY <1>1, <1>3, Requested
  <1>5. \/ \E pc \in {"stt", "dialog", "play"} : handler' = [pc |-> pc, of |-> c]
        \/ handler' = Idle /\ c \in failed'
    BY AtWork DEF FetchAudio, HearNothing, HearWords, ReplyWithAudio, ReplyWithoutAudio, Raised,
                  Goto, Return, PC
  <1>6. ttsUrls' = ttsUrls
        \/ (ttsUrls' = Append(ttsUrls, own) /\ handler.pc = "dialog" /\ handler' = [pc |-> "play", of |-> c])
    BY AtWork DEF FetchAudio, HearNothing, HearWords, ReplyWithAudio, ReplyWithoutAudio, Raised,
                  Goto, PC
  <1>7. own \in Audio \ {NoAudio}
    BY <1>1, AriAssumption DEF Audio, NoAudio, TypeOK, Conversation
  <1>8. handler.of = c /\ own = [of |-> c, turn |-> conv[c].turn] OBVIOUS
  <1>9. handler.pc # "play" \/ \E pc \in PC : Raised(pc)
    BY DEF FetchAudio, HearNothing, HearWords, ReplyWithAudio, ReplyWithoutAudio
  <1> HIDE DEF c, own
  <1>10. TypeOK'
    <2>1. ttsUrls' \in Seq(Audio \ {NoAudio})
      <3>1. ttsUrls \in Seq(Audio \ {NoAudio}) BY DEF TypeOK
      <3>2. Append(ttsUrls, own) \in Seq(Audio \ {NoAudio}) BY <1>7, <3>1, AppendProperties
      <3> QED BY <1>6, <3>1, <3>2
    <2>2. handler' \in Handler BY <1>1, <1>5 DEF Handler, Idle, PC
    <2> QED BY <1>2, <1>4, <2>1, <2>2 DEF TypeOK, asterisk
  <1>11. ReplyInv'
    <2> SUFFICES ASSUME failed' = {}
                 PROVE  \/ ttsUrls' = << >>
                        \/ /\ handler'.pc = "play"
                           /\ ttsUrls' = <<[of |-> handler'.of, turn |-> conv'[handler'.of].turn]>>
      BY DEF ReplyInv
    <2>1. failed = {} BY <1>4
    <2>2. ~ \E pc \in PC : Raised(pc) BY DEF Raised
    <2>3. ttsUrls = << >> BY <1>9, <2>1, <2>2 DEF ReplyInv
    <2>4. Append(<< >>, own) = <<own>> OBVIOUS
    <2> QED BY <1>2, <1>6, <1>8, <2>3, <2>4
  <1>12. ReplyIsOwn' BY <1>2, <1>4 DEF ReplyIsOwn, asterisk
  <1>13. handler' = Idle \/ handler'.of = c BY <1>5
  <1>14. handler'.pc \notin {"goodbye", "hangup", "redirect"} BY <1>5 DEF Idle
  <1>15. c \notin failed' => handler'.of = c BY <1>5
  <1>16. UNCHANGED <<call, doing, events, line, conv>> BY <1>2 DEF asterisk
  <1>17. DeafInv'
    <2>1. handler.pc # "answer" \/ handler.of \in failed'
      BY DEF FetchAudio, HearNothing, HearWords, ReplyWithAudio, ReplyWithoutAudio, Raised
    <2>2. handler'.pc \notin {"answer", "fetch"} BY <1>5 DEF Idle
    <2> QED BY <1>4, <1>16, <2>1, <2>2, DeafKept
  <1> QED BY <1>17, <1>1, <1>4, <1>8, <1>10, <1>11, <1>12, <1>13, <1>14, <1>15, <1>16, HandlerStep

-----------------------------------------------------------------------------
(* The next event is taken                                                 *)

\* What happens at the call of the event; the others only see it go.
LEMMA TakeStep ==
  ASSUME Inv, NEW type, NEW c \in Channels, Take(type, c),
         conv' \in [Channels -> Conversation], \A d \in Channels \ {c} : conv'[d] = conv[d],
         handler' \in Handler, handler' = Idle \/ handler'.of = c,
         conv'[c].ended => conv'[c].open,
         handler'.pc \in {"goodbye", "hangup", "redirect"} => ~ Live(c)',
         Live(c)' => doing[c] = << >> /\ Finished(c)' = {},
         named /\ Live(c)' => handler'.of = c,
         ~ named => handler'.pc # "fetch" /\ (Live(c)' => FirstTurn(c)'),
         conv'[c].turn = conv[c].turn \/ doing[c] = << >>
  PROVE  Inv'
  <1> USE DEF Inv, line
  <1>1. /\ events' \in Seq(Event) /\ DOMAIN events' = 1 .. Len(events) - 1
        /\ 1 \in DOMAIN events /\ events[1].of = c
        /\ \A i \in DOMAIN events' : i + 1 \in DOMAIN events /\ events'[i] = events[i + 1]
        /\ \A d \in Channels :
             /\ \A i \in Finished(d)' : i + 1 \in Finished(d)
             /\ \A i \in Finished(d) : i = 1 \/ i - 1 \in Finished(d)'
             /\ 1 \in Finished(d) => d = c
    BY Taken
  <1>2. Len(events) \in Nat /\ DOMAIN events = 1 .. Len(events) BY EventsType
  <1>3. handler = Idle /\ UNCHANGED <<call, doing, keys, line, ttsUrls, failed, faults>>
    BY DEF Take, asterisk, ghosts
  <1>4. \A d \in Channels \ {c} : handler.of # d /\ handler'.of # d BY <1>3, AtWork
  <1>5. \A d \in Channels \ {c} : Live(d)' = Live(d) BY DEF Live
  <1>6. TypeOK' BY <1>1, <1>3 DEF TypeOK
  <1>7. \A d \in Channels : \A i \in Finished(d)' : i \in Nat
    BY <1>1, <1>2 DEF Finished
  <1>8. OneInv'
    <2> SUFFICES ASSUME NEW d \in Channels, Live(d)' PROVE OnePlace(d)'
      BY DEF OneInv
    <2>1. CASE d = c BY <1>3, <2>1 DEF OnePlace
    <2>2. CASE d # c
      <3>1. OnePlace(d) BY <1>5, <2>2 DEF OneInv
      <3>2. \A i, j \in Finished(d)' : i + 1 = j + 1 BY <1>1, <3>1 DEF OnePlace
      <3>3. \A i, j \in Finished(d)' : i = j BY <1>7, <3>2
      <3>4. Finished(d) = {} => Finished(d)' = {} BY <1>1
      <3> QED BY <1>3, <1>4, <2>2, <3>1, <3>3, <3>4 DEF OnePlace
    <2> QED BY <2>1, <2>2
  <1>9. NextInv'
    <2> SUFFICES ASSUME named, NEW d \in Channels \ failed, Talking(d)' PROVE SomePlace(d)'
      BY <1>3 DEF NextInv
    <2>1. CASE d = c BY <2>1 DEF Talking, SomePlace
    <2>2. CASE d # c
      <3>1. Talking(d) BY <1>3, <1>5, <2>2 DEF Talking
      <3>2. doing[d] # << >> \/ Finished(d) # {}
        BY <1>4, <2>2, <3>1 DEF NextInv, SomePlace
      <3>3. Finished(d) # {} => Finished(d)' # {} BY <1>1, <2>2
      <3> QED BY <1>3, <3>2, <3>3 DEF SomePlace
    <2> QED BY <2>1, <2>2
  <1>10. \A d \in Channels \ {c} : Fresh(d) => Fresh(d)'
    BY <1>1, <1>3, <1>4 DEF Fresh
  <1>11. OutInv'
    <2> SUFFICES ASSUME NEW d \in Channels, call[d] = "out"
                 PROVE  Fresh(d)' /\ \A i \in DOMAIN events' : events'[i].of # d
      BY <1>3 DEF OutInv
    <2>1. Fresh(d) /\ \A i \in DOMAIN events : events[i].of # d BY DEF OutInv
    <2> QED BY <1>1, <1>10, <2>1
  <1>12. StartInv'
    <2> SUFFICES ASSUME NEW d \in Channels, NEW i \in DOMAIN events', events'[i] = Plain("StasisStart", d)
                 PROVE  Fresh(d)' /\ call[d] # "out" /\ \A j \in 1 .. i - 1 : events'[j].of # d
      BY <1>3 DEF StartInv, Plain
    <2>1. i \in Nat /\ i > 0 /\ i + 1 \in DOMAIN events /\ events[i + 1] = Plain("StasisStart", d)
      BY <1>1, <1>2
    <2>2. Fresh(d) /\ call[d] # "out" /\ \A j \in 1 .. (i + 1) - 1 : events[j].of # d
      BY <2>1 DEF StartInv
    <2>3. 1 \in 1 .. (i + 1) - 1 /\ \A j \in 1 .. i - 1 : j \in DOMAIN events' /\ j + 1 \in 1 .. (i + 1) - 1
      BY <1>1, <1>2, <2>1
    <2>4. d # c BY <1>1, <2>2, <2>3
    <2>5. ASSUME NEW j \in 1 .. i - 1 PROVE events'[j].of # d
      <3>1. j \in DOMAIN events' /\ j + 1 \in 1 .. (i + 1) - 1 BY <2>3
      <3>2. events'[j] = events[j + 1] BY <1>1, <3>1
      <3>3. events[j + 1].of # d BY <2>2, <3>1
      <3> QED BY <3>2, <3>3
    <2> QED BY <1>10, <2>2, <2>4, <2>5
  <1>13. LeftInv'
    <2>1. ASSUME NEW d \in Channels, NEW i \in DOMAIN events', events'[i] = Plain("StasisEnd", d)
          PROVE  call[d] = "left"
      BY <1>1, <2>1 DEF LeftInv
    <2> QED BY <1>3, <2>1 DEF LeftInv, Plain
  <1>14. EndedInv'
    <2>1. \A d \in Channels : conv'[d].ended => conv'[d].open BY DEF EndedInv
    <2>2. \A d \in Channels : handler'.of = d => d = c BY <1>4
    <2> QED BY <2>1, <2>2 DEF EndedInv
  <1>15. LostInv' BY <1>3 DEF LostInv
  <1>16. ReplyInv'
    <2>1. failed = {} => ttsUrls = << >> BY <1>3 DEF ReplyInv, Idle
    <2> QED BY <1>3, <2>1 DEF ReplyInv
  <1>17. ReplyIsOwn'
    <2>1. \A d \in Channels : doing[d] = << >> \/ conv'[d].turn = conv[d].turn OBVIOUS
    <2>2. DOMAIN << >> = {} OBVIOUS
    <2> QED BY <1>3, <2>1, <2>2 DEF ReplyIsOwn
  <1>18. DeafInv'
    <2> SUFFICES ASSUME ~ named, NEW d \in Channels \ {c}, Live(d)' PROVE FirstTurn(d)'
      BY <1>3 DEF DeafInv
    <2>1. FirstTurn(d) /\ ~ Answering(d) BY <1>3, <1>5 DEF DeafInv, Answering, Idle
    <2>2. ~ Answering(d)' BY <1>4 DEF Answering
    <2> QED BY <1>3, <2>1, <2>2 DEF FirstTurn
  <1> QED BY <1>6, <1>8, <1>9, <1>11, <1>12, <1>13, <1>14, <1>15, <1>16, <1>17, <1>18

\* StasisStart is taken while the call's dialog is fresh.
LEMMA StartsFresh ==
  ASSUME Inv, NEW c \in Channels, OnStasisStart(c)
  PROVE  Fresh(c)
  <1>1. 1 \in DOMAIN events /\ events[1].of = c /\ events[1].type = "StasisStart"
    BY Taken DEF Inv, OnStasisStart
  <1>2. events[1] = Plain("StasisStart", c)
    <2>1. events[1] \in Event BY <1>1, EventsType DEF Inv
    <2> QED BY <1>1, <2>1 DEF Event, Plain
  <1> QED BY <1>1, <1>2 DEF Inv, StartInv

LEMMA StartStep ==
  ASSUME Inv, NEW c \in Channels, OnStasisStart(c)
  PROVE  Inv'
  <1> USE DEF Inv, line
  <1>1. /\ Take("StasisStart", c) /\ handler' = [pc |-> "answer", of |-> c]
        /\ conv' = [conv EXCEPT ![c] = [open |-> TRUE, turn |-> 0, ended |-> FALSE]]
    BY DEF OnStasisStart
  <1>2. /\ conv' \in [Channels -> Conversation] /\ ~ conv'[c].ended
        /\ \A d \in Channels \ {c} : conv'[d] = conv[d]
    BY <1>1 DEF TypeOK, Conversation
  <1>3. handler' \in Handler BY <1>1 DEF Handler, PC
  <1>4. doing[c] = << >> /\ Finished(c)' = {} BY <1>1, StartsFresh, Taken DEF Fresh
  <1>5. FirstTurn(c)' BY <1>1 DEF FirstTurn, Answering, TypeOK
  <1> QED BY <1>1, <1>2, <1>3, <1>4, <1>5, TakeStep

LEMMA EndStep ==
  ASSUME Inv, NEW c \in Channels, OnStasisEnd(c)
  PROVE  Inv'
  <1> USE DEF Inv, line
  <1>1. /\ Take("StasisEnd", c) /\ handler' = Idle /\ conv' = [conv EXCEPT ![c] = NoConversation]
    BY DEF OnStasisEnd, Take
  <1>2. /\ conv' \in [Channels -> Conversation] /\ ~ conv'[c].ended /\ ~ conv'[c].open
        /\ \A d \in Channels \ {c} : conv'[d] = conv[d]
    BY <1>1 DEF TypeOK, Conversation, NoConversation
  <1>3. handler' \in Handler BY <1>1 DEF Handler, Idle
  <1>4. 1 \in DOMAIN events /\ events[1].of = c /\ events[1].type = "StasisEnd"
    BY <1>1, Taken
  <1>5. events[1] = Plain("StasisEnd", c)
    <2>1. events[1] \in Event BY <1>4, EventsType
    <2> QED BY <1>4, <2>1 DEF Event, Plain
  <1>6. doing[c] = << >> BY <1>4, <1>5 DEF LeftInv
  <1>7. ~ Live(c)' BY <1>2 DEF Live
  <1>8. handler'.pc # "fetch" BY <1>1 DEF Idle
  <1> QED BY <1>1, <1>2, <1>3, <1>6, <1>7, <1>8, TakeStep

\* Of a live dialog the event was the one step.
LEMMA FinishedIsTaken ==
  ASSUME Inv, NEW type \in FinishedType, NEW c \in Channels, Take(type, c), Live(c)
  PROVE  doing[c] = << >> /\ Finished(c)' = {}
  <1> USE DEF Inv, line
  <1>1. OnePlace(c) BY DEF OneInv
  <1>2. /\ 1 \in Finished(c) /\ \A i \in Finished(c)' : i + 1 \in Finished(c)
        /\ DOMAIN events' = 1 .. Len(events) - 1
    BY Taken
  <1>3. \A i \in Finished(c)' : i + 1 = 1 BY <1>1, <1>2 DEF OnePlace
  <1>4. \A i \in Finished(c)' : i \in Nat /\ i > 0 BY <1>2, EventsType DEF Finished
  <1>5. Finished(c)' = {} BY <1>3, <1>4
  <1> QED BY <1>1, <1>2, <1>5 DEF OnePlace

\* An event without a channel leaves a dialog where it is.
LEMMA Dropped ==
  ASSUME Inv, NEW type, NEW c \in Channels, Take(type, c), conv' = conv, handler' = Idle
  PROVE  ~ named => handler'.pc # "fetch" /\ (Live(c)' => FirstTurn(c)')
  <1> SUFFICES ASSUME ~ named, Live(c)' PROVE FirstTurn(c)'
    BY DEF Idle
  <1>1. handler = Idle /\ failed' = failed BY DEF Take, ghosts
  <1>2. FirstTurn(c) BY DEF Inv, DeafInv, Live
  <1> QED BY <1>1, <1>2 DEF FirstTurn, Answering

LEMMA RecordedStep ==
  ASSUME Inv, NEW c \in Channels, OnRecordingFinished(c)
  PROVE  Inv'
  <1> USE DEF Inv, line
  <1>1. /\ Take("RecordingFinished", c) /\ conv' = conv
        /\ handler' = IF named /\ Live(c) THEN [pc |-> "fetch", of |-> c] ELSE Idle
    BY DEF OnRecordingFinished
  <1>2. handler' \in Handler /\ handler'.pc \notin {"goodbye", "hangup", "redirect"}
    BY <1>1 DEF Handler, Idle, PC
  <1>3. Live(c)' = Live(c) BY <1>1 DEF Live
  <1>4. Live(c) => doing[c] = << >> /\ Finished(c)' = {}
    BY <1>1, FinishedIsTaken DEF FinishedType
  <1>5. conv' \in [Channels -> Conversation] /\ (conv[c].ended => conv[c].open)
    BY <1>1 DEF TypeOK, EndedInv
  <1>6. ~ named => handler'.pc # "fetch" /\ (Live(c)' => FirstTurn(c)') BY <1>1, Dropped
  <1> QED BY <1>1, <1>2, <1>3, <1>4, <1>5, <1>6, TakeStep

LEMMA PlayedStep ==
  ASSUME Inv, NEW c \in Channels, OnPlaybackFinished(c)
  PROVE  Inv'
  <1> USE DEF Inv, line
  <1>1. /\ Take("PlaybackFinished", c)
        /\ \/ /\ named /\ Live(c) /\ conv' = [conv EXCEPT ![c].turn = @ + 1]
              /\ handler' = [pc |-> "record", of |-> c]
           \/ ~ (named /\ Live(c)) /\ conv' = conv /\ handler' = Idle
    BY DEF OnPlaybackFinished, StartRecord, Return
  <1>2. handler' \in Handler /\ handler'.pc \notin {"goodbye", "hangup", "redirect"}
    BY <1>1 DEF Handler, Idle, PC
  <1>3. conv' \in [Channels -> Conversation]
    <2>1. conv[c] \in Conversation BY DEF TypeOK
    <2>2. [conv[c] EXCEPT !.turn = @ + 1] \in Conversation BY <2>1 DEF Conversation
    <2>3. conv' = conv \/ conv' = [conv EXCEPT ![c] = [conv[c] EXCEPT !.turn = @ + 1]] BY <1>1
    <2> QED BY <2>2, <2>3 DEF TypeOK
  <1>4. /\ conv'[c].open = conv[c].open /\ conv'[c].ended = conv[c].ended
        /\ \A d \in Channels \ {c} : conv'[d] = conv[d]
        /\ ~ (named /\ Live(c)) => conv'[c] = conv[c]
    BY <1>1 DEF TypeOK, Conversation
  <1>5. Live(c)' = Live(c) BY <1>4 DEF Live
  <1>6. Live(c) => doing[c] = << >> /\ Finished(c)' = {}
    BY <1>1, FinishedIsTaken DEF FinishedType
  <1>7. conv'[c].ended => conv'[c].open BY <1>4 DEF EndedInv
  <1>8. ~ named => handler'.pc # "fetch" /\ (Live(c)' => FirstTurn(c)') BY <1>1, Dropped
  <1> QED BY <1>1, <1>2, <1>3, <1>4, <1>5, <1>6, <1>7, <1>8, TakeStep

LEMMA DtmfStep ==
  ASSUME Inv, NEW c \in Channels, OnDtmf(c)
  PROVE  Inv'
  <1> USE DEF Inv, line
  <1>1. /\ Take("ChannelDtmfReceived", c)
        /\ conv' = IF conv[c].open THEN [conv EXCEPT ![c].ended = TRUE] ELSE conv
        /\ handler' = [pc |-> "redirect", of |-> c] \/ handler' = [pc |-> "goodbye", of |-> c]
    BY DEF OnDtmf
  <1>2. handler' \in Handler BY <1>1 DEF Handler, PC
  <1>3. conv' \in [Channels -> Conversation]
    <2>1. conv[c] \in Conversation BY DEF TypeOK
    <2>2. [conv[c] EXCEPT !.ended = TRUE] \in Conversation BY <2>1 DEF Conversation
    <2>3. conv' = conv \/ conv' = [conv EXCEPT ![c] = [conv[c] EXCEPT !.ended = TRUE]] BY <1>1
    <2> QED BY <2>2, <2>3 DEF TypeOK
  <1>4. /\ conv'[c].turn = conv[c].turn /\ conv'[c].open = conv[c].open
        /\ conv[c].open => conv'[c].ended
        /\ ~ conv[c].open => conv'[c] = conv[c]
        /\ \A d \in Channels \ {c} : conv'[d] = conv[d]
    BY <1>1 DEF TypeOK, Conversation
  <1>5. ~ Live(c)' BY <1>4 DEF Live
  <1>6. conv'[c].ended => conv'[c].open BY <1>4 DEF EndedInv
  <1>7. (handler' = Idle \/ handler'.of = c) /\ handler'.pc # "fetch" BY <1>1
  <1> QED BY <1>1, <1>2, <1>3, <1>4, <1>5, <1>6, <1>7, TakeStep

-----------------------------------------------------------------------------
(* The invariant                                                           *)

LEMMA Start == Init => Inv
  <1> SUFFICES ASSUME Init PROVE Inv OBVIOUS
  <1> USE DEF Init
  <1>1. << >> \in Seq(Activity) /\ << >> \in Seq(Event) /\ << >> \in Seq(Audio \ {NoAudio})
    OBVIOUS
  <1>2. TypeOK BY <1>1, AriAssumption DEF TypeOK, Handler, Idle, Conversation, NoConversation
  <1>3. \A c \in Channels : Fresh(c)
    <2>1. \A c \in Channels : Finished(c) = {} BY DEF Finished
    <2>2. \A c \in Channels : handler.of # c BY AriAssumption DEF Idle
    <2> QED BY <2>1, <2>2 DEF Fresh, NoConversation
  <1>4. OneInv /\ NextInv BY <1>3 DEF OneInv, NextInv, Talking, Live, Fresh
  <1>5. OutInv /\ StartInv BY <1>3 DEF OutInv, StartInv
  <1>6. LeftInv /\ LostInv /\ ReplyInv /\ ReplyIsOwn BY DEF LeftInv, LostInv, ReplyInv, ReplyIsOwn
  <1>7. EndedInv /\ DeafInv BY <1>3 DEF EndedInv, DeafInv, Fresh, Live, Idle
  <1> QED BY <1>2, <1>4, <1>5, <1>6, <1>7 DEF Inv

LEMMA Stutters ==
  ASSUME Inv, UNCHANGED vars
  PROVE  Inv'
  <1> USE DEF Inv, vars, line, asterisk, daemon, ghosts
  <1>1. TypeOK' BY DEF TypeOK
  <1>2. OneInv' BY DEF OneInv, OnePlace, Finished, Live
  <1>3. NextInv' BY DEF NextInv, SomePlace, Finished, Talking, Live
  <1>4. OutInv' /\ StartInv' BY DEF OutInv, StartInv, Fresh, Finished
  <1>5. LeftInv' /\ LostInv' BY DEF LeftInv, LostInv
  <1>6. EndedInv' /\ DeafInv' BY DEF EndedInv, DeafInv, FirstTurn, Answering, Live
  <1>7. ReplyInv' /\ ReplyIsOwn' BY DEF ReplyInv, ReplyIsOwn
  <1> QED BY <1>1, <1>2, <1>3, <1>4, <1>5, <1>6, <1>7

LEMMA NextKeeps ==
  ASSUME Inv, [Next]_vars
  PROVE  Inv'
  <1> USE DEF Inv, line
  <1>1. ASSUME NEW c \in Channels, Enter(c) \/ Finish(c) PROVE Inv'
    BY <1>1, EnterStep, FinishStep
  <1>2. ASSUME NEW c \in Channels, HangUp(c) PROVE Inv'
    <2>1. /\ call[c] = "stasis" /\ Leave(c)
          /\ UNCHANGED <<keys, line, conv, ttsUrls, ghosts, handler>>
      BY <1>2 DEF HangUp, daemon
    <2> QED BY <2>1, LeaveStep
  <1>3. ASSUME NEW c \in Channels, NEW d \in EndKeys, Press(c, d) PROVE Inv'
    BY <1>3, PressStep
  <1>4. CASE TakeEvent
    BY <1>4, StartStep, EndStep, RecordedStep, PlayedStep, DtmfStep DEF TakeEvent
  <1>5. CASE Answer \/ FetchNothing
    <2>1. /\ handler.pc \in {"answer", "fetch"} /\ StartRecord(handler.of)
          /\ UNCHANGED <<asterisk, events, ttsUrls>> /\ (UNCHANGED ghosts \/ Refused(handler.of))
      BY <1>5 DEF Answer, FetchNothing, Accepted
    <2> QED BY <2>1, StartRecordStep
  <1>6. CASE Record \/ PlayReply \/ Goodbye BY <1>6, RecordStep, PlayStep, GoodbyeStep
  <1>7. CASE Hangup \/ Redirect
    <2> DEFINE c == handler.of
    <2>1. /\ c \in Channels /\ handler.pc \in {"hangup", "redirect"} /\ handler' = Idle
          /\ UNCHANGED <<keys, line, conv, ttsUrls>>
      BY <1>7, AtWork DEF Hangup, Redirect, Return
    <2>2. \/ call[c] = "stasis" /\ UNCHANGED ghosts /\ Leave(c)
          \/ Refused(c)
      BY <1>7 DEF Hangup, Redirect, Accepted
    <2>3. handler.of = c OBVIOUS
    <2> HIDE DEF c
    <2>4. CASE call[c] = "stasis" /\ UNCHANGED ghosts /\ Leave(c) BY <2>1, <2>3, <2>4, LeaveStep
    <2>5. CASE Refused(c)
      <3>1. UNCHANGED <<call, doing, events>> BY <2>5 DEF Refused
      <3>2. failed \subseteq failed' /\ failed' \subseteq Channels /\ faults' \in 0 .. MaxFaults
        BY <2>1, <2>3, <2>5, Requested
      <3>3. TypeOK' BY <2>1, <3>1, <3>2 DEF TypeOK, Handler, Idle
      <3>4. ReplyInv'
        <4>1. ttsUrls = << >> \/ failed # {} BY <2>1 DEF ReplyInv
        <4> QED BY <2>1, <3>2, <4>1 DEF ReplyInv
      <3>5. ReplyIsOwn' BY <2>1, <3>1, <3>2 DEF ReplyIsOwn
      <3>6. ~ Live(c) BY <2>1, <2>3 DEF EndedInv
      <3>7. handler'.pc \notin {"goodbye", "hangup", "redirect"} BY <2>1 DEF Idle
      <3>8. DeafInv' BY <2>1, <3>2, DeafKept DEF Idle
      <3> QED BY <2>1, <2>3, <3>1, <3>2, <3>3, <3>4, <3>5, <3>6, <3>7, <3>8, HandlerStep DEF Talking
    <2> QED BY <2>2, <2>4, <2>5
  <1>8. CASE FetchAudio \/ HearNothing \/ HearWords \/ ReplyWithAudio \/ ReplyWithoutAudio \/ Raise
    BY <1>8, MoveStep DEF Raise
  <1>9. CASE SocketLost BY <1>9, SocketLostStep
  <1>10. CASE UNCHANGED vars BY <1>10, Stutters
  <1> QED BY <1>1, <1>2, <1>3, <1>4, <1>5, <1>6, <1>7, <1>8, <1>9, <1>10 DEF Next, Handle

LEMMA Invariance == Spec => []Inv
  BY Start, NextKeeps, PTL DEF Spec

-----------------------------------------------------------------------------
(* What holds of the receptionist                                          *)

\* Every variable of Asterisk and of the daemon keeps its type; the dictionary
\* of replies holds audio that was made.
THEOREM TypeCorrect == Spec => []TypeOK
  <1>1. Inv => TypeOK BY DEF Inv
  <1> QED BY <1>1, Invariance, PTL

\* A live dialog has one step at a time, although a recording or a playback is
\* started from four places, none of which looks whether one is going on.
THEOREM OneTurn == Spec => []NoTwoTurns
  <1>1. Inv => NoTwoTurns
    <2> SUFFICES ASSUME Inv, NEW c \in Channels, Talking(c) PROVE Steps(c) <= 1
      BY DEF NoTwoTurns
    <2>1. OnePlace(c) BY DEF Inv, OneInv, Talking
    <2>2. Steps(c) = Len(doing[c]) + Cardinality(Finished(c)) + (IF handler.of = c THEN 1 ELSE 0)
      BY DEF Steps, Finished, FinishedType
    <2>3. Len(doing[c]) = 0 \/ (Len(doing[c]) = 1 /\ doing[c] # << >>)
      <3>1. doing[c] \in Seq(Activity) BY DoingType DEF Inv
      <3>2. CASE doing[c] = << >> BY <3>2, EmptySeq
      <3>3. CASE doing[c] # << >>
        <4>1. Len(Tail(doing[c])) = Len(doing[c]) - 1 /\ Len(doing[c]) \in Nat
          BY <3>1, <3>3, HeadTailProperties, LenProperties
        <4>2. Len(Tail(doing[c])) = 0 BY <2>1, <3>3, EmptySeq DEF OnePlace
        <4> QED BY <3>3, <4>1, <4>2
      <3> QED BY <3>2, <3>3
    <2>4. Cardinality(Finished(c)) = 0 \/ (Cardinality(Finished(c)) = 1 /\ Finished(c) # {})
      <3>1. CASE Finished(c) = {} BY <3>1, FS_EmptySet
      <3>2. ASSUME NEW i \in Finished(c) PROVE Cardinality(Finished(c)) = 1
        <4>1. Finished(c) = {i} BY <2>1 DEF OnePlace
        <4> QED BY <4>1, FS_Singleton
      <3> QED BY <3>1, <3>2
    <2> QED BY <2>1, <2>2, <2>3, <2>4 DEF OnePlace
  <1> QED BY <1>1, Invariance, PTL

\* Where finish events name their channel, a dialog always has its next step
\* with Asterisk, in an event or with the handler, until the caller leaves,
\* presses an end key or a request fails.  Where they do not, the only dialogs
\* without a next step are those past their first recording.
THEOREM NeverStalls == Spec => []NoStall
  <1>1. Inv => NoStall
    <2> SUFFICES ASSUME Inv, NEW c \in Channels \ failed, Talking(c), named \/ conv[c].turn # 1
                 PROVE  Steps(c) >= 1
      BY DEF NoStall
    <2>1. SomePlace(c)
      <3>1. CASE named BY <3>1 DEF Inv, NextInv
      <3>2. CASE ~ named
        <4>1. Answering(c) BY <3>2 DEF Inv, DeafInv, FirstTurn, Talking
        <4> QED BY <4>1 DEF Answering, SomePlace
      <3> QED BY <3>1, <3>2
    <2>2. Steps(c) = Len(doing[c]) + Cardinality(Finished(c)) + (IF handler.of = c THEN 1 ELSE 0)
      BY DEF Steps, Finished, FinishedType
    <2>3. Len(doing[c]) \in Nat /\ (doing[c] # << >> => Len(doing[c]) >= 1)
      BY DoingType DEF Inv
    <2>4. IsFiniteSet(Finished(c))
      <3>1. Finished(c) \subseteq 1 .. Len(events) /\ Len(events) \in Nat
        BY EventsType DEF Finished, Inv
      <3>2. IsFiniteSet(1 .. Len(events)) BY <3>1, FS_Interval
      <3> QED BY <3>1, <3>2, FS_Subset
    <2>5. Cardinality(Finished(c)) \in Nat /\ (Finished(c) # {} => Cardinality(Finished(c)) >= 1)
      <3>1. Cardinality(Finished(c)) \in Nat BY <2>4, FS_CardinalityType
      <3>2. Cardinality(Finished(c)) = 0 <=> Finished(c) = {} BY <2>4, FS_EmptySet
      <3> QED BY <3>1, <3>2
    <2> QED BY <2>1, <2>2, <2>3, <2>5 DEF SomePlace
  <1> QED BY <1>1, Invariance, PTL

\* _play_reply takes the first audio of a dictionary all calls share; until a
\* request fails it is the reply to what that caller said last.
THEOREM ReplyMatches == Spec => []ReplyIsOwn
  <1>1. Inv => ReplyIsOwn BY DEF Inv
  <1> QED BY <1>1, Invariance, PTL

\* Whatever is still recorded, played or on its way when # or 0 is pressed, the
\* dialog counts no more turns and stays ended.
THEOREM EndIsFinal == Spec => EndedIsFinal
  <1> DEFINE Final(c) == conv[c].ended /\ conv'[c].open =>
                           conv'[c].ended /\ conv'[c].turn = conv[c].turn
  <1>1. ASSUME Inv, [Next]_vars
        PROVE  [\A c \in Channels : Final(c)]_vars
    <2>0. Inv /\ TypeOK BY <1>1 DEF Inv
    <2>1. CASE UNCHANGED conv BY <2>1
    <2>2. ASSUME NEW c \in Channels, OnStasisStart(c) PROVE \A d \in Channels : Final(d)
      <3>1. ~ conv[c].ended BY <2>0, <2>2, StartsFresh DEF Fresh
      <3>2. \A d \in Channels \ {c} : conv'[d] = conv[d] BY <2>0, <2>2 DEF OnStasisStart, TypeOK
      <3> QED BY <3>1, <3>2
    <2>3. ASSUME NEW c \in Channels, OnStasisEnd(c) PROVE \A d \in Channels : Final(d)
      <3>1. ~ conv'[c].open /\ \A d \in Channels \ {c} : conv'[d] = conv[d]
        BY <2>0, <2>3 DEF OnStasisEnd, NoConversation, TypeOK
      <3> QED BY <3>1
    <2>4. ASSUME NEW c \in Channels, OnDtmf(c) PROVE \A d \in Channels : Final(d)
      <3>1. /\ conv'[c].turn = conv[c].turn /\ (conv[c].ended => conv'[c].ended)
            /\ \A d \in Channels \ {c} : conv'[d] = conv[d]
        BY <2>0, <2>4 DEF OnDtmf, TypeOK, Conversation
      <3> QED BY <3>1
    <2>5. ASSUME NEW c \in Channels, StartRecord(c) PROVE \A d \in Channels : Final(d)
      <3>1. conv[c].ended => conv'[c] = conv[c] BY <2>5 DEF StartRecord, Live
      <3>2. \A d \in Channels \ {c} : conv'[d] = conv[d] BY <2>0, <2>5 DEF StartRecord, TypeOK
      <3> QED BY <3>1, <3>2
    <2>6. CASE TakeEvent
      BY <2>1, <2>2, <2>3, <2>4, <2>5, <2>6
        DEF TakeEvent, OnRecordingFinished, OnPlaybackFinished
    <2>7. CASE Answer \/ FetchNothing
      <3>1. handler.of \in Channels /\ StartRecord(handler.of)
        BY <2>0, <2>7, AtWork DEF Answer, FetchNothing
      <3> QED BY <2>5, <3>1
    <2>8. CASE ~ TakeEvent /\ ~ (Answer \/ FetchNothing)
      <3>1. UNCHANGED conv
        BY <1>1, <2>8
          DEF Next, vars, daemon, Enter, Finish, HangUp, Press, Handle, Record, PlayReply, Goodbye,
              Hangup, Redirect, FetchAudio, HearNothing, HearWords, ReplyWithAudio,
              ReplyWithoutAudio, Raise, Raised, SocketLost
      <3> QED BY <2>1, <3>1
    <2> QED BY <2>6, <2>7, <2>8
  <1> QED BY <1>1, Invariance, PTL DEF Spec, EndedIsFinal

=============================================================================
