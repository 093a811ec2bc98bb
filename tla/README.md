# odoo-pbx in TLA+

odoo-pbx lets Odoo administer an Asterisk telephone exchange for several
tenants. Odoo modules (`pbx_base`, `pbx_tenant`, `pbx_ai`, `pbx_hr`, the
plugins) keep the configuration and the call history; `pbx_ami_daemon`, one
asyncio process beside Asterisk, writes the configuration, watches Asterisk by
AMI and ARI, and POSTs events back; RabbitMQ carries configuration and
transcription jobs between them.

This directory holds TLA+ modules translated from that code, TLC configurations
that check them on small instances, and TLAPS proofs of most of their safety
properties for every instance. `PROJECT.json` lists the runs, the
mutants that show each property can fail, the source lines of each definition,
the hazards of the code and the places where it differs from its own
documentation.

## 1. Inventory

| Component | State | Operations | Talks to |
|---|---|---|---|
| Configuration sync, Odoo: `pbx_mq.py`, `pbx_config_dirty_mixin.py`, `res_company.py`, end of `pbx_config_generator.py`, `_handle_config_ack` | configuration records, `config_dirty`, `pbx_config_version`, `pbx_config_applied_version`, sync error, parameter `pbx.config.version.<domain>` | edit, sync (generate, number, publish, commit), confirmation | RabbitMQ; webhook |
| ConfigConsumer, `daemon.py` 692-883 | files in `tenants/`, `.state.json`, tasks in flight | apply a message: compare, write, reload, save, acknowledge | RabbitMQ, disk, Asterisk, webhook |
| Voicemail delivery, `daemon.py` 139-178, 368-456, 547-631 | `MailboxMarker`, spool, AMI connection | handle MessageWaiting: read newest file, decide, POST | Asterisk, webhook |
| Voicemail inbox, `voicemail_service.py`, `pbx_ai.py` | `pbx.call`, attachments, transcription jobs | store a voicemail, ask for a transcript, store it | webhook, RabbitMQ, transcriber |
| Call history, `_handle_cdr_call`, `pbx_call.py` | `pbx.call`, `res.partner` | log or upgrade a call from a leg | webhook |
| ARI receptionist, `ari.py` | conversations, speech not played yet | one handler per ARI event, turns | Asterisk, transcriber, Odoo |
| Number plan, `pbx_numbering.py`, `pbx_extension.py`, `hr_employee.py`, plugins' `create`/`write` | extensions, services, employees, links of users | allocate, check, assign, renumber | each other |
| Dialplan generator, rest of `pbx_config_generator.py`, routes, plugins' contexts | none: a function of the records | render contexts, gates, failover | Asterisk, which runs calls through the result |
| AMI connection and tenant detection, `daemon.py` 185-366, 547-577, `amain` | socket, read buffer, known domains | connect, log in, read events, find their tenant, post them, connect again | Asterisk, disk, RabbitMQ, webhook |
| AMI commands, `daemon.py` 639-685, `pbx_mq.py`, `action_click_to_call` | commands in RabbitMQ | publish, write to the AMI socket, acknowledge | RabbitMQ, Asterisk |
| State cache, health server | last event per device | publish | nobody reads it |
| Availability, provisioning, administration, billing, CRM, helpdesk, 46elks, panel | nothing of their own that outlives a request | requests | Odoo |

What is hard in them, and what makes each correct:

* **Deploy.** Tasks of the consumer overlap at their awaits; the message leaves
  before its transaction commits; the broker delivers again; a crash may fall
  between two files; acknowledgements overtake each other. Correct: versions
  only grow, a recorded version was written completely, Odoo never believes
  more than the disk holds, what was sent is confirmed in the end.
* **Voicemail.** The event says only that a mailbox changed; the marker lives in
  memory; POSTs are given up after five seconds; jobs leave before the commit.
  Correct: each recording gets in once, at most one is lost per start, and a
  transcript is of its own recording.
* **Call history.** Legs in any order, also at the same time; keys built from
  channel names that start again. Correct: one row per call that shows who
  answered, and never forgets it.
* **Receptionist.** One loop handles the events of all calls, each with requests
  that take minutes; the speech table is shared. Correct: one step of a dialog
  at a time, always a next one, the reply of this caller, and a way out.
* **Number plan.** Two ideas of "taken" (with and without archived records),
  numbers across models, swaps during renumbering. Correct: given numbers are
  accepted and unique, and renumbering follows the hierarchy.
* **Dialplan.** Jumps between contexts that several modules render, labels made
  from sequence numbers, time gates, and a clock and a dialplan that change under
  a call. Correct: a jump without a target happens only where it is known to,
  every call ends, calls from a trunk go where the best route says, trunks are
  tried in order and in their hours, and the mailbox is reached.
* **AMI.** Two tasks write to one socket that may close or reset at any await,
  one of them before the other has logged in; an error of RabbitMQ looks like one
  of AMI; domains are read once per connection. Correct: the link comes back by
  itself, and an event reaches its own tenant, whole.

## 2. Plan

1. *Deploy* (done): `ConfigBus`, `ConfigSync`, `ConfigConsumer`, composed in
   `ConfigDeploy`, abstract specification `ConfigRegister`, proofs in
   `ConfigDeployProofs`.
2. *Voicemail* (done): `VoicemailPost`, `VoicemailDaemon`, `VoicemailInbox`,
   composed in `VoicemailDelivery`.
3. *Call history* (done): `CallLog`.
4. *Receptionist* (done): `AriDialog`.
5. *Number plan* (done): `NumberPlan`.
6. *Dialplan* (done): `Dialplan`, the generator as a function from the records
   of a company to lines, and `DialplanCall`, a call that runs through them.
7. *AMI* (done): `AmiBridge`, the connection, tenant detection, posting of
   events, and commands.
8. *Abstract specifications* still to state: a mailbox that hands over each
   recording at most once (implemented by `VoicemailDelivery`), a history with
   one row per call (implemented by `CallLog` without POSTs given up).
9. *Proofs*: done for all modules (section 6). Still to write: the other safety
   properties of the dialplan (`TrunksInOrder` from the shape of a chain, as
   `GateHolds` is, `InboundByRule` from which sections of `from-trunk` there
   are); the refinements of item 8; `RenumberedIsByRank`, which needs what the
   walk in `Ordered` computes (that different places get different texts is
   proved).

## 3. Modules and code

State that exists only for the properties (what happened so far) is marked in
the VARIABLES of each module.

**ConfigBus** is what both sides of a deploy share: published messages, the
durable queue, confirmations on their way, and the budget of faults. File text
is abstracted to the number of the edit it was generated from, a message is
known by its place in the order of publication.

**ConfigSync** is Odoo: `Edit` is a create, write or unlink of a configuration
record with the dirty mixin; `SyncBegin`, `Publish`/`PublishFails`, `Commit`,
`Conflict`, `Rollback` are the stages of one `sync_current_company` request
(the publish is not undone by a rollback); `HandleAck` is `_handle_config_ack`;
`SyncState` is the computed field. Only one sync at a time can be past the row
lock of the version parameter.

**ConfigConsumer** is the daemon: one slot per running task, with one action
from await to await: `Skip`/`Write`/`WriteFails` (no await between the
comparison and the last file), `Reload`, `Save`/`SaveFails`, `Acknowledge`,
`Release`; and the faults `Crash`, `BrokerReconnect`, `AmiDown`/`AmiUp`.
**ConfigDeploy** composes the two; **ConfigRegister** is the abstract
specification, a register of offered, recorded and confirmed versions.

**VoicemailPost** (shared POSTs and faults), **VoicemailDaemon** (spool, MWI
events, marker, one POST at a time, reconnects, restarts) and **VoicemailInbox**
(one transaction per POST, both places that ask for a transcript, results) are
composed in **VoicemailDelivery**. `Repeat`, `Seed` and `Send` are the three
outcomes logged by `_publish_voicemail`.

**CallLog** has the legs of inbound (ring group), outbound (trunk failover) and
internal calls, the daemon's POSTs, and `_handle_cdr_call` as `Ignore`, `Create`
and `Upgrade`, which read a snapshot, and `Commit`, which makes it last and
sends a transaction that replaced the same row back to its start.

**AriDialog** has Asterisk's side (calls enter, recordings and playbacks end,
keys, hang-ups), the ordered events of the websocket, and the handler: `On...`
take an event as `_handle_event` does, and each request of the handler (`answer`,
`record`, `fetch`, `stt`, `dialog`, `play`, `goodbye`, `hangup`, `redirect`) is
an action of its own, as the calls go on while it waits. A request is accepted,
refused (`rest` returns None and the handler goes on) or raises (`Raised`: `run`
logs it and the handler ends there). `_handle_event` looks for the channel of
every event in `event["channel"]`, which Asterisk's RecordingFinished and
PlaybackFinished do not have. `named` says whether such events name their
channel, and is either from the start: FALSE is the program against Asterisk as
it is, where `OnRecordingFinished` and `OnPlaybackFinished` do nothing and each
dialog ends behind its first recording; TRUE is what the handlers were written
for, and the only way to check what they would do.

**NumberPlan** has the records of one company and one action per transaction:
`HireEmployee`, `AssignExtension`, `RenumberOrganization` (all three steps and
both phases), create, write and archive of extensions and services with the
check or, when the company is not among the values, without it. A number is the
sequence of its digits, since the code compares text. `Renumbered` is
`_renumber_company` as it goes: `Moved` gives the employees' extensions their
temporary numbers one write after the other, `Flushed` is a flush, at which the
unique constraint looks at every number there is, and `Phase` with `Wanted` writes
the final ones, for a second flush. An extension two employees share is written
twice. A temporary number is a text of its own form for each extension, which no
digits make. Functions of the code that
change several records (`Created`, `UserWritten`, `Assigned`, `Renumbered`) are
operators from state to state; an error in any of them is an error of the whole
transaction. `Power` is `10 ** width`, and `first` and `ById` are the first
elements and the order of a search by number and by id.

**Dialplan** translates the generator: a company is a record of its active
records, and each operator renders one kind of section (`RingGroup`,
`InboundGroup`, `OutboundChain`, `TimeSections`, `QueueSections`...) as a sequence
of lines, each with a label, an application and what it needs of its arguments.
Names of contexts and labels are tuples of what they are put together from, so
two are equal exactly where the texts of the code are. `Sections` is
`generate_all`; `Loaded` is what Asterisk makes of it, where a second line at a
place that is taken is dropped. The exten `t` of a timed queue is `QueueTimeout`. Companies are members of `CompanyRecord`, with the
routes in the order of their sequence.

**DialplanCall** is one call in it. It begins inside, by click-to-call or from a
trunk, and each line is an action: `Pass`, `Jump`, `Branch`, `Ring`,
`Voicemail`, `Assist`, `Queue`, `Play`, `Drop`. Devices, trunks, schedules and
the caller do as they like, the clock moves (`Tick`), and another state of the
records may be deployed while the call is in the old one (`Reload`: its number is
looked up again in the context it is in, and another pattern may carry it on). The history
kept in the call (contexts, devices, trunks, the times it has seen) is for the
properties.

**AmiBridge** has Asterisk with its socket (`Emit`, `Stop`, `Reset`, `Booted`),
`amain` from await to await (`Connect`, `Banner`, `Login`, `LoginRefused`,
`LoginBroken`, `Retry`), `EventConsumer` (`ReadPart`, `Skip`, `Take`, `Post`,
`PostFails`, `PublishFails`, `LinkEnds`) and `CommandServer` (`Deliver`, `Acknowledge`), which
writes to the same socket without asking where `amain` is. A POST that fails is
logged and not repeated; Odoo may have the event all the same. The process dies where
an exception is raised that `amain` does not catch (`Dies`), and systemd starts it
again (`Restart`). A domain is a member of a set with a relation `PrefixesOf`.

## 4. Runs

| Run | Instance | Distinct states | Shows |
|---|---|---|---|
| `deploy_faults` | 2 files (one of a plugin), 2 edits, 2 syncs, 2 tasks, any 2 of 7 kinds of faults | 641 thousand | `RecordedWasWritten`, `CommittedWasPublished`, `DeployImplementsRegister` |
| `deploy_crash` | 3 syncs, 2 edits, 2 tasks, a crash, failed publish or rollback, fairness | 341 thousand | `DiskIsRecorded`, `LoadedIsDisk`, `SentIsConfirmed` |
| `voicemail` | 2 mailboxes (one Odoo does not know), 3 voicemails, 1 change by a user, any fault of 8 kinds, fairness | 662 thousand | `DeliveredOnce`, `AtMostOneLostPerStart`, `TranscriptIsOwn`, `NewestIsHandled` |
| `call_log` | 2 calls of any kind, 2 extensions, up to 2 trunks, any 3 faults | 2.8 million | `InboundLoggedOnce`, `AnsweredIsShown`, `AnsweredStays`, `OnePartnerPerNumber` |
| `ari_dialog` | 2 calls of 3 turns, a key each, a fault, finish events with and without their channel, fairness | 877 thousand | `NoTwoTurns`, `NoStall`, `ReplyIsOwn`, `EndedIsFinal`, `KeyIsHonoured` |
| `number_plan` | 3 employees, 3 extensions, 2 services, 2 edits by hand, digits 0 to 2 | 426 thousand | `GivenIsAccepted`, `RenumberIsPossible`, `RenumberedIsByRank`, `PlannedStaysUnique` |
| `dialplan` | one call in any of 7 companies, the clock moves twice, a reload, fairness | 84 thousand | `DeadEnds`, `InsideStaysInside`, `InboundByRule`, `GateHolds`, `TrunksInOrder`, `UnansweredIsCaught`, `EveryCallEnds` |
| `ami_bridge` | 2 tenants (the domain of one begins with the other), 2 events, 1 command, any 2 faults of 6 kinds, fairness | 163 thousand | `TenantIsOwn`, `LinkRecovers`, `EventIsPosted` |

Runs that end with a violation, each the counterexample of a statement in the
repository:

| Run | Statement | What happens |
|---|---|---|
| `deploy_reconnect` | `DiskIsRecorded` (daemon.py:718) | after a broker reconnect an older message overtakes the task of a newer one, and its files end up under the newer version |
| `deploy_clean` | `CleanIsDeployed` (res_company.py:123) | the confirmation clears the flag of an edit made after the snapshot |
| `deploy_fresh` | `PublishedIsFresh` (pbx_mq.py:137) | a sync started over after a conflict publishes its version again, with other files, and they are skipped |
| `dialplan_chain` | `GateHolds` (pbx_config_generator.py:638) | two routes of one pattern left at the default sequence have equal labels: the second one dials the trunk of the first outside its hours |

`SentIsConfirmed`, `LoadedIsDisk` and `DiskIsRecorded` are checked for the faults
under which the code can promise them: a lost acknowledgement is never repeated,
a reload that fails is only logged, and a broker reconnect is the violation
above.

**Why the bounds are enough.** A stale task needs two messages and two tasks; a
version that is overtaken needs a third sync, and a third edit shows nothing
new, since files are replaced whole. Voicemail hazards need the newest, the one
before it, and one more to come back to; the second mailbox shows that markers
are apart. A ring group of two devices has all orders of an answered and a missed
leg, and a second call reuses channel names. Speech left in the receptionist's
shared table shows in the next turn or in the other call, which they only have where finish
events are `named`. Three employees are a
tree with siblings, a chain or two trees, and the third one makes numbers wider;
with Radix 3 and MinWidth 1 the number space runs full within the bounds; two
services can have one number between them, and two employees swap theirs. The
companies of the dialplan have one part of the records each in all its variants
(ring groups in order and at once, with and without mailbox, gate, devices,
assistant; routes by number, caller, both and none; chains of gates with trunks
that do and do not go on), since the generator renders them apart; the clock moves
into the hours and out again between a gate and the next, and the reload goes
between any two companies; a caller may withhold the number, and what is dialled
inside has every form a pattern makes a difference of (a number of one digit, with
0, with 46, with + and without an entry). Two faults of the AMI link are what it takes to have a
reset followed by a connection that fails again, or a boot cut short by a stop;
the second event is the one behind the lost one, and a domain that begins with
the other is the case in which the match is ambiguous. Bounds
are CONSTANTS named Max..., and each is a guard of the action it bounds.

`CHECK_DEADLOCK FALSE` is in every configuration because a system in which all
bounded inputs have happened and everything is handled rightly stops.

## 5. Fairness

Weak fairness, and only for what something drives: tasks of the event loop that
can go on (asyncio), a message the broker can deliver, a request Odoo has begun
(a worker ends it, or its limit does), a POST on its way, and requests of the
receptionist, each of which aiohttp ends by its total timeout. In
`DialplanCall` Asterisk goes on executing lines (`Step`). In `AmiBridge` besides
the tasks: systemd starts the daemon again (`Restart=always` in its unit), and
somebody starts Asterisk again when it is down (`StartAsterisk`), without which no
link can recover. Users, callers, Asterisk's own events and faults owe nothing.
`SentIsConfirmed`, `NewestIsHandled`, `KeyIsHonoured`, `EveryCallEnds`,
`LinkRecovers` and `EventIsPosted` rest on it. Everything else is checked and
proved without.

## 6. Proofs

Every theorem is about every value of the constants (all sets of files,
mailboxes, channels, domains, every radix, every bound, every set of fault
kinds), from the named assumptions of the modules alone. An invariant `P` that is
not inductive is proved by way of an `Inv` that implies it, one step per action.

**ConfigDeployProofs**: `TypeCorrect`, `RecordedIsWritten`,
`CommittedIsPublished` and the refinement `DeployIsRegister`. `Inv` adds to
`TypeOK` what is on its way: `WrittenInv` (a task past its writes carries a
message that was written, and so is the recorded version), `PublishedInv` (a
transaction that has sent holds the version of a published message, and the
company's committed version is one), `ConfirmedInv` (what a task is about to
confirm, and what an acknowledgement "applied" or "skipped" carries, is a version
not above the recorded one, and the version the company takes for applied is not
above it either). For the refinement each step is an `Offer` (`Publish`), a
`Record` (`Save` of a newer version), a `Confirm` (`HandleAck`) or leaves the
register alone.

In the same module `DiskIsWhatIsRecorded` and `AsteriskRunsTheDisk`, under
hypotheses on the set of fault kinds, since the code does not promise more: with
a broker reconnect the run `deploy_reconnect` violates the first, a file that
cannot be written leaves others of its version behind, and a reload that fails
is only logged, so the second also excludes `"ami"`. Crashes, failed and lost
publishes, rollbacks and any overlap of tasks are in. The order comes from
`HoldInv` (tasks hold messages before those in the queue), `VersionInv` (a
message that has a higher version before it is stale already when it is
published) and `DiskInv` (the disk holds the files of the latest message a task
has written, or, after a crash, a message that will be written is to come).

**VoicemailProofs**: `TypeCorrect`, `NeverTwice`, `LossIsBounded`,
`TranscriptMatches`. `Inv` ties a POST, the call made of it and the jobs made of
that together (`RecordInv`, `JobInv`), says which voicemails are of which mailbox
(`OwnInv`), that a marker is as late as all that was delivered (`MarkInv`), and
that a mailbox without a mark has one loss to come, which is what makes the count
inductive (`LostInv`).

**CallLogProofs**: `TypeCorrect`, `LoggedOnce`, `AnswererIsShown`,
`ContactIsOne`, `RowStaysAnswered`. A leg is in one place at a time (`PlaceInv`),
the daemon waits for the one Odoo has unless its call was given up (`WaitInv`),
and a transaction that made a row still knows no other of its call when it
commits, one that replaces a row found it not answered (`TxnInv`).

**AriDialogProofs**: `TypeCorrect`, `OneTurn`, `NeverStalls`, `ReplyMatches`,
`EndIsFinal`. The properties add up lengths; the proof says instead that a step
is with Asterisk, in an event or with the handler, in one of them at most
(`OneInv`) and in one at least (`NextInv`), and that without the channel in finish
events no dialog gets beyond its first recording (`DeafInv`), which is the
exception in `NeverStalls`. `Inv` adds which events can still come
before a dialog begins and after a call has left, and that the shared table holds
the handler's reply or nothing. The channel `"nobody"`, of which the handler is
when it is idle, is assumed not to be a caller's.

**AmiBridgeProofs**: `TypeCorrect`, `EventsGoToTheirTenant`. Only the last message
of a socket is cut short (`PartInv`), and the rest of it, which stays in the
buffer across a reconnect, meets no event: FullyBooted comes first (`BufferInv`).

**NumberPlanProofs**: `TypeCorrect`, `AllocatorIsAccepted`,
`SwapsAreNeverRefused`, `PlannedNumbersAreUnique`. `TypeOK` is inductive as it
stands, but says that links lead to extensions there are and managers are older
than their reports, so each operator from state to state has a lemma that its
result is `Sound`. The helpers are recursive functions and folds; what they
return for every input (`PowerIs`, `TextType`, `ByIdIs`, `OrderedIs`,
`AllAssignedIs`) comes from **RecursionLemmas**. The CHOOSEs of
the model (the first free number and the first free extension) are shown to have
a witness the same way. The allocator is then accepted because it avoids archived
numbers too (`AssignedIs`).

`SwapsAreNeverRefused` follows a renumbering through its writes. Every
employee is in the order (`EveryoneIs`), so phase 1 leaves none of their
extensions at a number that is wanted (`MovedIs`), and its flush is accepted, since
temporary numbers differ from each other and from every other number
(`MovedIsAccepted`). Phase 2 gives no two extensions one number, as different
places have different texts (`TextDiffers`, from the digits of a number and their
weights, `PowerRises` and the lemmas about quotients); that its writes do this one
by one is `PhaseIs`, by `RecursionOn`. What can be in the way at the second flush
is then only an extension nobody has (`RenumberedIs`).

**RecursionLemmas** are about recursive functions, folds and `FlattenSeq` in
general, for the number plan and the dialplan. They go by least counterexamples:
the library's theorem that `<` is well-founded takes no operator, so
`LeastNatural` follows from it, and induction is a set of counterexamples that
has no least element. `RecursionOn` says that a function defined by recursion on
numbers exists, `FlattenIs` and `FlattenFrom` what elements a flattened sequence
has and from which part each one is.

**DialplanProofs**: `TypeCorrect`, `InsideKept`, `GatesHold`, `UnansweredCaught`,
`OnlyDeadEnds`, for every company, every dialled number and any number of
reloads. Some lemmas are about the generator, which is a function: every line of every section may stand there
(`Fitting`: a line inside leads inside unless its exten is one of `WaysOut`, a
line elsewhere enters the chain of a pattern only at its start), and what `Loaded`
keeps is a section that was made, in particular a context of outbound routes
holds the whole chain of its pattern (`PlanIs`). The others are about the
call: `StepIs` says what a line can do to it, and the invariants follow.
`Typed` adds to `TypeOK` that a call of a loaded dialplan is at a section there
is. `Inward`: a call to a number with an entry of its own (`ServedHasEntry`; it is
found before any pattern) is inside and in no way out; `DialplanAssumption`
says that nobody dials a pattern such as `_0.` itself. `Gated`: in a chain a line
is of one route and before its gate or behind it (`ChainIsShaped`), no line before
the gate goes on to the next one behind it, so what is behind it is reached by
its label alone, from the gate in its hours. That needs the labels of the routes
of a pattern to be different, and is the hypothesis `Apart` of `GatesHold`: TLC
evaluates it for the companies of the run `dialplan`, and without it the run
`dialplan_chain` is the counterexample. `Caught`, for `UnansweredCaught`: a
call that has entered the context of an extension and whose records have stayed
as they are is at a line of its ring group, which is the lines of all its devices
in order or one line for all of them and then the mailbox, and the devices whose
lines it is past have rung. `OnWayOut`, for `OnlyDeadEnds`: in the context of
outbound routes a call is there with the number it would go out with, and what is
inside of it or in a time condition was put there by a section of the same
company. Everything else comes from `PlanReaches`, about the generator alone: a
line that leads on leads to a label of its own section, to a context that is made,
or to one a record names (`NotMade`), and `DeadEnds` is where that leaves a call.

Model-checked only: liveness and everything under fairness (`SentIsConfirmed`,
`NewestIsHandled`, `KeyIsHonoured`, `EveryCallEnds`, `LinkRecovers`,
`EventIsPosted`); `RenumberedIsByRank`, which is about what the recursion of
`Ordered` computes and not only of what type it is; of the dialplan
`InboundByRule` and `TrunksInOrder`.

## 7. Assumptions about the surroundings

Odoo runs requests at REPEATABLE READ and repeats one that fails to serialise;
writing the version parameter takes a row lock until the end of the transaction.
`aio_pika` starts a task per delivery, and `connect_robust` delivers
unacknowledged messages again while old tasks run on. Asterisk sends the events
of one connection in order; app_voicemail keeps the files of a folder numbered
without gaps. RecordingFinished and PlaybackFinished events carry the recording
or the playback alone; both these and events with a channel are checked. A webhook
URL is configured. Numbers are digits, so nobody types one that begins with `tmp-`.

The dialplan: Asterisk looks an exten up with the caller's number, then exactly,
then by pattern, the more specific first (`Patterns` gives the order); of two
lines at one priority or with one label the first counts; GotoIfTime takes times,
weekdays, days and months; an answered Dial ends the call with its bridge; a call
goes on at the same context and priority after a reload, at the exten its number then
finds there. `DialplanAssumption`
says what is taken of numbers: nobody dials a pattern or the exten `s`; every
number from a trunk matches the pattern of the catch-all; a number without + that
begins with 46, and no other, is made one with +; extensions of a company have
different numbers (a constraint of the table); and a destination is a context of
its own or one of an extension, mailbox, queue or time condition. The passing run
has distinct sequences within a chain (`Apart`), and no time condition that leads to
itself: nothing in the code forbids either, and the first is the violation of
section 4.

AMI: a socket closed by Asterisk delivers what was sent and then its end, and
the first write after that resets it; on a reset, reads and drains raise. The
publisher raises a ConnectionError when RabbitMQ has gone. Asterisk sends
FullyBooted to whoever is or gets logged in.

## 8. Differences between code and documentation

`PROJECT.json` lists them under `findings`; those with a run are in section 4.
Others were read in the code while it was modelled:

* `publish()` reports a failure by its result, which `_publish_transcribe_job`
  does not look at, so the documented fallback is never taken (pbx_ai.py:128).
* The message that seeds the marker is never delivered later (README.md:121).
* An unanswered inbound call shows the first extension rung, not the last
  (pbx_webhook_service.py:236).
* One play request that raises shifts every later reply of every call by one
  (ari.py:403), and the answer of `/pbx/ai/dialog` comes in a JSON-RPC envelope
  in which `_dialog` finds no status (ari.py:388).
* A dialog of the receptionist does not get beyond its first recording: the ends of
  recordings and playbacks are looked up by a channel these events do not have
  (ari.py:183), so the loop the docstring describes (ari.py:8) is never taken up.
* `emergency_route` is read by nothing: the route is ordered by its sequence, not
  tried first as its help says (pbx_outbound_route.py:54).
* The extension of an archived employee counts as free and is shared with a new
  one; renumbering then gives the active employee the archived one's number
  (hr_employee.py:96). Levels are ordered by the manager's place first
  (hr_employee.py:111).
* `MailboxMarker` remembers one hash per mailbox: when the newest voicemail is
  deleted, the one before it is sent again (README.md:122).
* An outbound call that fails over to a second trunk has two rows in the history
  (pbx_webhook_service.py:318).
* A number is checked only when the company is among the values, which it is not
  in the forms: an extension and a service can get one number
  (pbx_extension.py:59). `NumberPlan` has both kinds of write, and its properties
  are about numbers that were checked.
* Days off never match: their line has the day in the field of weekdays, the
  month in that of days and the year in that of months
  (pbx_config_generator.py:769). `GateHolds` is therefore about hours only.
* The context of a queue is generated under another name than the one its number,
  operator 0 and destinations jump to (pbx_queue.py:162), and conference rooms and
  IVRs cannot be deployed at all (pbx_conference.py:102, pbx_ivr.py:6).
* A catch-all inbound route takes no call that has a number, unless a route of
  callers leads there (pbx_config_generator.py:618), and a lower sequence does not
  win over a more specific exten (544). `DeadEnds` and `InboundByRule` state what
  holds instead.
* One failover destination, that of the last route, serves all outbound routes
  (pbx_config_generator.py:781).
* The daemon ends, instead of connecting again, when a reset connection is
  followed by one that fails, and when a socket ends during the login
  (daemon.py:222). A connection whose other side vanished is not noticed, since
  nothing is sent (270). The listening button does nothing (664).

Also noticed, without a statement they contradict: two tenants' events mix where
the domain of one begins with that of the other, depending on the order of a set;
an extension without devices that is dialled from inside with a number like 01 goes
out by a trunk; the operator panel calls a method `_current_tenant` that is
nowhere defined, and originates calls from endpoints PJSIP/<domain>-<number> that
the generator does not make any more; a device keeps the name made of the number
its extension had; the number of an archived device cannot be given again; every MWI without audio makes
another `pbx.call`; a transcription result may come before its call is committed
and is dropped; two jobs are published for a voicemail that both the service and
the hook want transcribed; the file of a plugin without records stays on disk;
the sync state "clean" cannot be reached; the ARI websocket is not reopened once
it is lost, and every dialog in progress then stalls; an event whose POST fails is
logged and lost (daemon.py:501); a user removed from an
extension keeps the link to it.

## 9. What is not modelled

* Of the dialplan: feature codes, strip and prepend of digits, caller IDs and
  recording (lines that neither jump nor dial), IVRs and conferences, which the
  code cannot deploy, custom destinations other than `s,1` of a context, and the pjsip, voicemail and queue files, which are text
  without control. Devices are names.
* Of the AMI bridge: the matches of tenants by @domain and SIP/domain, the state
  cache, which no device name of today's generator reaches and nobody reads, the
  health server, and what an AMI action does to a channel.
* Availability (its answer is a gate that may go either way), provisioning,
  billing, CRM, helpdesk, SMS, the panel's JavaScript: single requests,
  rendering, or calls to services outside the repository.
* File text, SIP passwords and device user names, durations and timestamps,
  activities, notifications, the language model behind a transcript or a reply.
* More than one tenant in one module; concurrent transactions of the number
  plan (two allocations at once across models are a write skew that no
  constraint catches).
* `CoworkerApp` (ari.py 441-622), which repeats `Receptionist` line by line and
  is never created.
