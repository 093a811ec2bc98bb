----------------------------- MODULE AriDialog -----------------------------
(***************************************************************************)
(* The AI receptionist of the daemon: ARIClient.run and Receptionist.      *)
(*                                                                         *)
(* ARIClient takes one event off the websocket, awaits its handler to the  *)
(* end, and only then takes the next.  A handler gives way at each request *)
(* it sends: to Asterisk, to the transcriber, to Odoo.  While one turn of  *)
(* one caller is transcribed and answered, every other event waits, the    *)
(* same caller's key presses included, and the calls themselves go on.     *)
(*                                                                         *)
(* The daemon finds the dialog of an event by the channel in it.  Asterisk *)
(* puts none into RecordingFinished and PlaybackFinished, which name their *)
(* recording or playback only; `named' says whether it would.              *)
(*                                                                         *)
(* An audio file is known by the call and the turn it was synthesised for; *)
(* NoAudio is the stock sound.  What was said is left out.  Asterisk, the  *)
(* transcriber and Odoo are modelled by how the daemon uses them.          *)
(***************************************************************************)
EXTENDS Naturals, Sequences, FiniteSets

CONSTANTS
  Channels,      (* calls, each entering the application once              *)
  HasTransfer,   (* transfer_context and transfer_exten are configured     *)
  MaxTurns,      (* bound: recordings a caller sits through                *)
  MaxKeys,       (* bound: # and 0 pressed in one call                     *)
  MaxFaults      (* bound: refused or raised requests, lost websocket      *)

ASSUME AriAssumption ==
  /\ "nobody" \notin Channels
  /\ HasTransfer \in BOOLEAN
  /\ MaxTurns \in Nat /\ MaxKeys \in Nat /\ MaxFaults \in Nat

VARIABLES
  call,        (* where each call is: out, stasis or left                  *)
  doing,       (* what Asterisk records or plays on each call, in order    *)
  keys,        (* end keys pressed in each call                            *)
  connected,   (* the websocket is open                                    *)
  named,       (* events that something finished name their channel        *)
  events,      (* events of the websocket not yet taken                    *)
  conv,        (* Receptionist.conversations                               *)
  ttsUrls,     (* Receptionist._tts_urls, in order of insertion            *)
  handler,     (* where the handler of the current event is                *)
  failed,      (* calls for which a request failed while they were up      *)
  faults       (* faults that have happened                                *)

line == <<connected, named>>
asterisk == <<call, doing, keys, line>>
daemon == <<conv, ttsUrls, handler>>
ghosts == <<failed, faults>>
vars == <<asterisk, events, daemon, ghosts>>

EndKeys == {"#", "0"}
NoAudio == [of |-> "nobody", turn |-> 0]
Audio == [of : Channels, turn : Nat] \union {NoAudio}

Activity == [kind : {"record"}, turn : Nat] \union [kind : {"play"}, audio : Audio]
Recording(n) == [kind |-> "record", turn |-> n]
Playing(a) == [kind |-> "play", audio |-> a]

Event ==
  [type : {"StasisStart", "StasisEnd", "PlaybackFinished"}, of : Channels]
    \union [type : {"ChannelDtmfReceived"}, of : Channels, digit : EndKeys]
    \union [type : {"RecordingFinished"}, of : Channels, turn : Nat]
Plain(type, c) == [type |-> type, of |-> c]
Dtmf(c, d) == [type |-> "ChannelDtmfReceived", of |-> c, digit |-> d]
Recorded(c, n) == [type |-> "RecordingFinished", of |-> c, turn |-> n]

Conversation == [open : BOOLEAN, turn : Nat, ended : BOOLEAN]
NoConversation == [open |-> FALSE, turn |-> 0, ended |-> FALSE]

\* The request a handler is waiting for.
PC == {"answer", "record", "fetch", "stt", "dialog", "play", "goodbye", "hangup", "redirect"}
Handler == [pc : PC, of : Channels] \union {[pc |-> "idle", of |-> "nobody"]}
Idle == [pc |-> "idle", of |-> "nobody"]

TypeOK ==
  /\ call \in [Channels -> {"out", "stasis", "left"}]
  /\ doing \in [Channels -> Seq(Activity)]
  /\ keys \in [Channels -> 0 .. MaxKeys]
  /\ connected \in BOOLEAN /\ named \in BOOLEAN
  /\ events \in Seq(Event)
  /\ conv \in [Channels -> Conversation]
  /\ ttsUrls \in Seq(Audio \ {NoAudio})
  /\ handler \in Handler
  /\ failed \subseteq Channels
  /\ faults \in 0 .. MaxFaults

Init ==
  /\ call = [c \in Channels |-> "out"]
  /\ doing = [c \in Channels |-> << >>]
  /\ keys = [c \in Channels |-> 0]
  /\ connected = TRUE /\ named \in BOOLEAN
  /\ events = << >>
  /\ conv = [c \in Channels |-> NoConversation]
  /\ ttsUrls = << >>
  /\ handler = Idle
  /\ failed = {}
  /\ faults = 0

-----------------------------------------------------------------------------
(* Asterisk and the callers                                                *)

\* The events reach the daemon as long as the websocket is open.
After(es) == IF connected THEN events \o es ELSE events

FinishedEvent(c, a) ==
  IF a.kind = "record" THEN Recorded(c, a.turn) ELSE Plain("PlaybackFinished", c)

Enter(c) ==
  /\ call[c] = "out" /\ connected
  /\ call' = [call EXCEPT ![c] = "stasis"]
  /\ events' = After(<<Plain("StasisStart", c)>>)
  /\ UNCHANGED <<doing, keys, line, daemon, ghosts>>

\* The caller stopped talking, or the audio was played to its end.
Finish(c) ==
  /\ call[c] = "stasis" /\ doing[c] # << >>
  /\ Head(doing[c]).kind = "record" => Head(doing[c]).turn < MaxTurns
  /\ doing' = [doing EXCEPT ![c] = Tail(@)]
  /\ events' = After(<<FinishedEvent(c, Head(doing[c]))>>)
  /\ UNCHANGED <<call, keys, line, daemon, ghosts>>

Press(c, d) ==
  /\ call[c] = "stasis" /\ keys[c] < MaxKeys
  /\ keys' = [keys EXCEPT ![c] = @ + 1]
  /\ events' = After(<<Dtmf(c, d)>>)
  /\ UNCHANGED <<call, doing, line, daemon, ghosts>>

\* What Asterisk sends when a call leaves: what it was doing there may be
\* reported as finished first.
LeaveEvents(c) ==
  {<<Plain("StasisEnd", c)>>} \union
    (IF doing[c] = << >> THEN {}
     ELSE {<<FinishedEvent(c, Head(doing[c])), Plain("StasisEnd", c)>>})

Leave(c) ==
  /\ call' = [call EXCEPT ![c] = "left"]
  /\ doing' = [doing EXCEPT ![c] = << >>]
  /\ \E es \in LeaveEvents(c) : events' = After(es)

HangUp(c) ==
  /\ call[c] = "stasis"
  /\ Leave(c)
  /\ UNCHANGED <<keys, line, daemon, ghosts>>

\* ARIClient.run returns and nobody starts it again.  What had arrived is
\* still handled.
SocketLost ==
  /\ connected /\ faults < MaxFaults
  /\ connected' = FALSE
  /\ failed' = Channels
  /\ faults' = faults + 1
  /\ UNCHANGED <<call, doing, keys, named, events, daemon>>

-----------------------------------------------------------------------------
(* Requests to Asterisk                                                    *)

Goto(pc) == handler' = [handler EXCEPT !.pc = pc]
Return == handler' = Idle

\* The call is up and Asterisk does what it is asked to.
Accepted(c) == call[c] = "stasis" /\ UNCHANGED ghosts

\* rest() logs a status of 400 and above and returns None, as it does for a
\* call that has gone; the handler goes on.
Refused(c) ==
  /\ \/ call[c] # "stasis" /\ UNCHANGED ghosts
     \/ /\ call[c] = "stasis" /\ faults < MaxFaults
        /\ faults' = faults + 1 /\ failed' = failed \union {c}
  /\ UNCHANGED <<call, doing, events>>

\* The connection breaks: the handler ends there and run() logs it.
Raised(pc) ==
  /\ handler.pc = pc
  /\ faults < MaxFaults
  /\ faults' = faults + 1 /\ failed' = failed \union {handler.of}
  /\ Return
  /\ UNCHANGED <<asterisk, events, conv, ttsUrls>>

Begin(c, a) ==
  /\ doing' = [doing EXCEPT ![c] = Append(@, a)]
  /\ UNCHANGED <<call, events>>

-----------------------------------------------------------------------------
(* Handlers                                                                *)

\* _handle_event takes an event of this type for call c.
Take(type, c) ==
  /\ handler = Idle
  /\ events # << >> /\ Head(events).type = type /\ Head(events).of = c
  /\ events' = Tail(events)
  /\ UNCHANGED <<asterisk, ttsUrls, ghosts>>

\* The mutant: the dialog of an ended call goes on.
Open(c) == conv[c].open

\* on_recording_finished and on_playback_finished return early otherwise.
Live(c) == conv[c].open /\ ~ conv[c].ended

OnStasisStart(c) ==
  /\ Take("StasisStart", c)
  /\ conv' = [conv EXCEPT ![c] = [open |-> TRUE, turn |-> 0, ended |-> FALSE]]
  /\ handler' = [pc |-> "answer", of |-> c]

OnStasisEnd(c) ==
  /\ Take("StasisEnd", c)
  /\ conv' = [conv EXCEPT ![c] = NoConversation]
  /\ UNCHANGED handler

OnRecordingFinished(c) ==
  /\ Take("RecordingFinished", c)
  /\ handler' = IF named /\ Live(c) THEN [pc |-> "fetch", of |-> c] ELSE Idle
  /\ UNCHANGED conv

\* _start_record counts the turn, then sends the request.
StartRecord(c) ==
  IF Live(c)
  THEN /\ conv' = [conv EXCEPT ![c].turn = @ + 1]
       /\ handler' = [pc |-> "record", of |-> c]
  ELSE Return /\ UNCHANGED conv

OnPlaybackFinished(c) ==
  /\ Take("PlaybackFinished", c)
  /\ IF named THEN StartRecord(c) ELSE Return /\ UNCHANGED conv

\* _end_dialog for #, _transfer_human for 0: without a number to transfer to
\* they are the same.
OnDtmf(c) ==
  /\ Take("ChannelDtmfReceived", c)
  /\ conv' = IF conv[c].open THEN [conv EXCEPT ![c].ended = TRUE] ELSE conv
  /\ handler' = [pc |-> IF Head(events).digit = "0" /\ HasTransfer
                        THEN "redirect" ELSE "goodbye", of |-> c]

Answer ==
  /\ handler.pc = "answer"
  /\ StartRecord(handler.of)
  /\ Accepted(handler.of) \/ Refused(handler.of)
  /\ UNCHANGED <<asterisk, events, ttsUrls>>

Record ==
  LET c == handler.of IN
  /\ handler.pc = "record"
  /\ Return
  /\ \/ Accepted(c) /\ Begin(c, Recording(conv[c].turn))
     \/ Refused(c)
  /\ UNCHANGED <<keys, line, conv, ttsUrls>>

\* The mutant: an empty recording just ends the handler.
FetchNothingStops ==
  /\ handler.pc = "fetch"
  /\ Return
  /\ UNCHANGED <<asterisk, events, conv, ttsUrls, ghosts>>

\* The recording is empty or cannot be had, and another is started.
FetchNothing ==
  /\ handler.pc = "fetch"
  /\ StartRecord(handler.of)
  /\ UNCHANGED <<asterisk, events, ttsUrls, ghosts>>

FetchAudio ==
  /\ handler.pc = "fetch"
  /\ Goto("stt")
  /\ UNCHANGED <<asterisk, events, conv, ttsUrls, ghosts>>

\* The mutant: a new recording is started beside the reply.
HearNothingTwice ==
  /\ handler.pc = "stt"
  /\ Goto("play")
  /\ Begin(handler.of, Recording(conv[handler.of].turn))
  /\ UNCHANGED <<keys, line, conv, ttsUrls, ghosts>>

\* No words, or the transcriber failed: the reply asks again.
HearNothing ==
  /\ handler.pc = "stt"
  /\ Goto("play")
  /\ UNCHANGED <<asterisk, events, conv, ttsUrls, ghosts>>

HearWords ==
  /\ handler.pc = "stt"
  /\ Goto("dialog")
  /\ UNCHANGED <<asterisk, events, conv, ttsUrls, ghosts>>

\* Odoo answers with speech.
ReplyWithAudio ==
  LET c == handler.of IN
  /\ handler.pc = "dialog"
  /\ ttsUrls' = Append(ttsUrls, [of |-> c, turn |-> conv[c].turn])
  /\ Goto("play")
  /\ UNCHANGED <<asterisk, events, conv, ghosts>>

\* The mutant: the missing speech is stored as well.
ReplyWithNothing ==
  /\ handler.pc = "dialog"
  /\ ttsUrls' = Append(ttsUrls, NoAudio)
  /\ Goto("play")
  /\ UNCHANGED <<asterisk, events, conv, ghosts>>

\* Odoo answers without speech, or fails: "One moment, I will transfer you."
ReplyWithoutAudio ==
  /\ handler.pc = "dialog"
  /\ Goto("play")
  /\ UNCHANGED <<asterisk, events, conv, ttsUrls, ghosts>>

\* The mutant: the audio is not dropped once it has been played.
PlayAndKeep ==
  LET c == handler.of
      audio == IF ttsUrls = << >> THEN NoAudio ELSE Head(ttsUrls) IN
  /\ handler.pc = "play"
  /\ Return
  /\ \/ Accepted(c) /\ Begin(c, Playing(audio))
     \/ Refused(c)
  /\ UNCHANGED <<keys, line, conv, ttsUrls>>

\* _play_reply: the first audio in the dictionary, dropped once the request
\* returned.
PlayReply ==
  LET c == handler.of
      audio == IF ttsUrls = << >> THEN NoAudio ELSE Head(ttsUrls) IN
  /\ handler.pc = "play"
  /\ Return
  /\ \/ Accepted(c) /\ Begin(c, Playing(audio))
     \/ Refused(c)
  /\ ttsUrls' = IF ttsUrls = << >> THEN ttsUrls ELSE Tail(ttsUrls)
  /\ UNCHANGED <<keys, line, conv>>

\* The mutant: nothing follows the goodbye.
GoodbyeOnly ==
  LET c == handler.of IN
  /\ handler.pc = "goodbye"
  /\ Return
  /\ \/ Accepted(c) /\ Begin(c, Playing(NoAudio))
     \/ Refused(c)
  /\ UNCHANGED <<keys, line, conv, ttsUrls>>

Goodbye ==
  LET c == handler.of IN
  /\ handler.pc = "goodbye"
  /\ Goto("hangup")
  /\ \/ Accepted(c) /\ Begin(c, Playing(NoAudio))
     \/ Refused(c)
  /\ UNCHANGED <<keys, line, conv, ttsUrls>>

Hangup ==
  /\ handler.pc = "hangup"
  /\ Return
  /\ \/ Accepted(handler.of) /\ Leave(handler.of)
     \/ Refused(handler.of)
  /\ UNCHANGED <<keys, line, conv, ttsUrls>>

Redirect ==
  /\ handler.pc = "redirect"
  /\ Return
  /\ \/ Accepted(handler.of) /\ Leave(handler.of)
     \/ Refused(handler.of)
  /\ UNCHANGED <<keys, line, conv, ttsUrls>>

-----------------------------------------------------------------------------
TakeEvent ==
  \E c \in Channels :
    \/ OnStasisStart(c)
    \/ OnStasisEnd(c)
    \/ OnRecordingFinished(c)
    \/ OnPlaybackFinished(c)
    \/ OnDtmf(c)

Handle ==
  \/ Answer \/ Record \/ PlayReply \/ Goodbye \/ Hangup \/ Redirect
  \/ FetchNothing \/ FetchAudio
  \/ HearNothing \/ HearWords
  \/ ReplyWithAudio \/ ReplyWithoutAudio

Raise ==
  \E pc \in PC \ {"stt", "dialog"} : Raised(pc)

Next ==
  \/ \E c \in Channels : Enter(c) \/ Finish(c) \/ HangUp(c)
  \/ \E c \in Channels, d \in EndKeys : Press(c, d)
  \/ TakeEvent
  \/ Handle
  \/ Raise
  \/ SocketLost

\* The event loop takes what has arrived, and every request returns: aiohttp
\* ends each within its total timeout.
Fairness == WF_vars(TakeEvent) /\ WF_vars(Handle)

Spec == Init /\ [][Next]_vars /\ Fairness

-----------------------------------------------------------------------------
(* Properties                                                              *)

\* What will make the dialog of call c take its next step: Asterisk is busy
\* on the call, has reported that it finished, or the handler is at work.
Steps(c) ==
  Len(doing[c])
    + Cardinality({i \in DOMAIN events :
        events[i].of = c /\ events[i].type \in {"RecordingFinished", "PlaybackFinished"}})
    + (IF handler.of = c THEN 1 ELSE 0)

Talking(c) == call[c] = "stasis" /\ Live(c)

\* A dialog is one loop.  Two of its steps never overlap (Receptionist starts
\* a recording or a playback from four places, none of which looks whether one
\* is going on), so a reply is never recorded as the caller's words.
NoTwoTurns == \A c \in Channels : Talking(c) => Steps(c) <= 1

\* A caller who has neither hung up nor pressed an end key always has a next
\* step coming, unless a request of that very call failed: no timer of the
\* daemon would ever wake the dialog.  Where the event that ends a recording
\* names no channel, as Asterisk's does not, the first recording is the last
\* step there is.
NoStall ==
  \A c \in Channels \ failed :
    Talking(c) => Steps(c) >= 1 \/ (~ named /\ conv[c].turn = 1)

\* As long as no request failed, a caller hears the reply to what was just
\* said in that call and no other, although _play_reply takes the first audio
\* of a dictionary all the calls share.
ReplyIsOwn ==
  failed = {} =>
    \A c \in Channels : \A i \in DOMAIN doing[c] :
      doing[c][i].kind = "play" =>
        doing[c][i].audio \in {NoAudio, [of |-> c, turn |-> conv[c].turn]}

\* After # or 0 a dialog is not taken up again: no turn is counted and nothing
\* clears the mark, whatever was recorded, played or on its way by then.
EndedIsFinal ==
  [][\A c \in Channels :
       conv[c].ended /\ conv'[c].open =>
         conv'[c].ended /\ conv'[c].turn = conv[c].turn]_vars

KeyWaits(c) == \E i \in DOMAIN events :
  events[i].type = "ChannelDtmfReceived" /\ events[i].of = c

\* An end key takes the caller out of the dialog in the end, even one pressed
\* in the middle of a turn, unless a request of the call failed.
KeyIsHonoured ==
  \A c \in Channels : KeyWaits(c) ~> (call[c] = "left" \/ c \in failed)

=============================================================================
