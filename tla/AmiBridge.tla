----------------------------- MODULE AmiBridge ------------------------------
(***************************************************************************)
(* The daemon between Asterisk's manager interface (AMI) and Odoo: the     *)
(* connection and its reconnects (AMIConnection, amain), the events it     *)
(* posts to the tenants' Odoo (EventConsumer), and the commands it takes   *)
(* from RabbitMQ (CommandServer).                                          *)
(*                                                                         *)
(* A socket breaks in two ways.  Asterisk closes it: what was sent before  *)
(* is read, then its end; writing to it resets it.  Or it is reset: reads  *)
(* and drains raise ConnectionResetError.                                  *)
(***************************************************************************)
EXTENDS Naturals, Sequences, FiniteSets, SequencesExt

CONSTANTS
  Tenants,       (* domains                                                *)
  PrefixesOf,    (* the domains a domain begins with, itself included      *)
  FaultKinds,    (* of stop, reset, crash, broker, publish, webhook        *)
  MaxFaults,     (* bound: faults                                          *)
  MaxEvents,     (* bound: events Asterisk sends                           *)
  MaxCommands    (* bound: commands Odoo publishes                         *)

ASSUME BridgeAssumption ==
  /\ PrefixesOf \in [Tenants -> SUBSET Tenants]
  /\ \A t \in Tenants : t \in PrefixesOf[t]
  /\ MaxFaults \in Nat /\ MaxEvents \in Nat /\ MaxCommands \in Nat

VARIABLES
  asterisk,   (* down, booting or up                                       *)
  disk,       (* tenants whose files are on disk                           *)
  sock,       (* what Asterisk sent and the daemon has not read            *)
  pc,         (* where amain is                                            *)
  writer,     (* AMIConnection._writer: none, open, half (closed by the    *)
              (* other side) or broken                                     *)
  early,      (* what was written on the socket before Login               *)
  buffer,     (* AMIConnection._buffer: <<an event cut short>> or << >>    *)
  known,      (* EventConsumer.known_domains                               *)
  current,    (* <<the event being posted>> or << >>                       *)
  queue,      (* commands in RabbitMQ                                      *)
  unacked,    (* commands written and not acknowledged                     *)
  posted,     (* history: what Odoo got                                    *)
  cut,        (* history: events lost with a socket, a process, a publish  *)
              (* or a POST                                                 *)
  served,     (* history: tenants on disk when the daemon last logged in   *)
  eager,      (* history: a login found Asterisk still booting             *)
  sent, told, faults

linkVars == <<pc, writer, early, known, served, eager>>
eventVars == <<sock, buffer, current, posted, cut>>
commandVars == <<queue, unacked, told>>
vars == <<asterisk, disk, linkVars, eventVars, commandVars, sent, faults>>

Boot == [id |-> 0, tenants |-> {}, whole |-> TRUE]     (* FullyBooted *)
Event == [id : 0 .. MaxEvents, tenants : SUBSET Tenants, whole : BOOLEAN]
Posting == [event : Event, tenant : Tenants]

\* What the variables hold.  Whoever waits to connect again, or is to be
\* restarted, has given up the old socket.
TypeOK ==
  /\ asterisk \in {"down", "booting", "up"} /\ disk \subseteq Tenants
  /\ sock \in Seq(Event) /\ buffer \in Seq(Event) /\ Len(buffer) <= 1
  /\ pc \in {"connect", "banner", "login", "events", "posting", "backoff", "dead"}
  /\ writer \in {"none", "open", "half", "broken"} /\ early \in BOOLEAN
  /\ known \subseteq disk /\ served \subseteq disk /\ eager \in BOOLEAN
  /\ current \in Seq(Posting) /\ posted \in Seq(Posting)
  /\ pc \in {"backoff", "dead"} => writer = "none"
  /\ Len(current) = IF pc = "posting" THEN 1 ELSE 0
  /\ {queue[i] : i \in DOMAIN queue} \union unacked \subseteq 1 .. told
  /\ cut \subseteq 1 .. sent /\ sent <= MaxEvents /\ told <= MaxCommands /\ faults <= MaxFaults

Init ==
  /\ asterisk = "up" /\ disk \in (SUBSET Tenants) \ {{}}
  /\ sock = << >> /\ buffer = << >> /\ current = << >> /\ posted = << >> /\ cut = {}
  /\ pc = "connect" /\ writer = "none" /\ early = FALSE
  /\ known = {} /\ served = {} /\ eager = FALSE
  /\ queue = << >> /\ unacked = {}
  /\ sent = 0 /\ told = 0 /\ faults = 0

Fault(kind) == kind \in FaultKinds /\ faults < MaxFaults /\ faults' = faults + 1

LoggedIn == pc \in {"events", "posting"} /\ writer = "open"
Ids(events) == {e.id : e \in ToSet(events)} \ {0}

-----------------------------------------------------------------------------
(* Asterisk, the other tasks of the daemon, Odoo.                          *)

Emit(t) ==
  /\ LoggedIn /\ t \in disk /\ sent < MaxEvents
  /\ sent' = sent + 1
  /\ sock' = Append(sock, [id |-> sent + 1, tenants |-> {t}, whole |-> TRUE])
  /\ UNCHANGED <<asterisk, disk, linkVars, buffer, current, posted, cut, commandVars, faults>>

\* ConfigConsumer writes the files of a new tenant.
Deploy(t) ==
  /\ t \notin disk
  /\ disk' = disk \union {t}
  /\ UNCHANGED <<asterisk, linkVars, eventVars, commandVars, sent, faults>>

\* Asterisk goes down and closes its sockets: what it sent arrives, the last
\* event perhaps in part.
Stop(n) ==
  /\ asterisk # "down" /\ Fault("stop")
  /\ asterisk' = "down"
  /\ IF writer # "open" THEN UNCHANGED <<writer, sock, cut>>
     ELSE /\ writer' = "half"
          /\ \/ sock' = SubSeq(sock, 1, n)
             \/ /\ n < Len(sock)
                /\ sock' = Append(SubSeq(sock, 1, n), [sock[n + 1] EXCEPT !.whole = FALSE])
          /\ cut' = cut \union Ids(SubSeq(sock, n + 1, Len(sock)))
  /\ UNCHANGED <<disk, pc, early, known, served, eager, buffer, current, posted, commandVars, sent>>

\* Asterisk goes down and its sockets are reset: what was not read is lost,
\* the lines of an event that were read stay in the buffer.
Reset ==
  /\ asterisk # "down" /\ Fault("reset")
  /\ asterisk' = "down"
  /\ IF writer # "open" THEN UNCHANGED <<writer, sock, buffer, cut>>
     ELSE /\ writer' = "broken" /\ sock' = << >>
          /\ \/ UNCHANGED buffer
             \/ /\ sock # << >> /\ pc = "events"
                /\ buffer' = <<[Head(sock) EXCEPT !.whole = FALSE]>>
          /\ cut' = cut \union Ids(sock)
  /\ UNCHANGED <<disk, pc, early, known, served, eager, current, posted, commandVars, sent>>

StartAsterisk ==
  /\ asterisk = "down" /\ asterisk' = "booting"
  /\ UNCHANGED <<disk, linkVars, eventVars, commandVars, sent, faults>>

\* Who is logged in when the boot ends is told of it then.
Booted ==
  /\ asterisk = "booting" /\ asterisk' = "up"
  /\ sock' = IF LoggedIn THEN Append(sock, Boot) ELSE sock
  /\ UNCHANGED <<disk, linkVars, buffer, current, posted, cut, commandVars, sent, faults>>

\* pbx.mq.publisher: the operator panel or click-to-call sends a command.
Command ==
  /\ told < MaxCommands
  /\ told' = told + 1
  /\ queue' = Append(queue, told + 1)
  /\ UNCHANGED <<asterisk, disk, linkVars, eventVars, unacked, sent, faults>>

-----------------------------------------------------------------------------
(* CommandServer: one task per message, which writes at once.              *)

\* handle_command and send_action; an error is only logged.  Before Login
\* Asterisk refuses the command, and its refusal is the first answer read.
Deliver ==
  /\ queue # << >> /\ pc # "dead"
  /\ queue' = Tail(queue)
  /\ unacked' = unacked \union {Head(queue)}
  /\ writer' = IF writer = "half" THEN "broken" ELSE writer
  /\ early' = (early \/ (writer = "open" /\ pc = "banner"))
  /\ UNCHANGED <<asterisk, disk, pc, known, served, eager, eventVars, told, sent, faults>>

\* message.process() acknowledges, whatever became of the command.
Acknowledge(c) ==
  /\ c \in unacked /\ pc # "dead"
  /\ unacked' = unacked \ {c}
  /\ UNCHANGED <<asterisk, disk, linkVars, eventVars, queue, told, sent, faults>>

\* RabbitMQ delivers again what was not acknowledged, the oldest first.
Redelivered ==
  /\ unacked' = {}
  /\ \E again \in [1 .. Cardinality(unacked) -> unacked] :
       /\ \A i, j \in DOMAIN again : i < j => again[i] < again[j]
       /\ queue' = again \o queue

BrokerReconnect ==
  /\ pc # "dead" /\ unacked # {} /\ Fault("broker")
  /\ Redelivered
  /\ UNCHANGED <<asterisk, disk, linkVars, eventVars, told, sent>>

-----------------------------------------------------------------------------
(* amain: connect, log in, read, and again.                                *)

Daemon == UNCHANGED <<asterisk, disk, commandVars, sent, faults>>

\* An exception that amain does not catch ends the process.
Dies == pc' = "dead" /\ writer' = "none" /\ buffer' = << >> /\ sock' = << >>

\* Mutant: amain's handler does not disconnect.
DisconnectedKeeps ==
  IF writer = "broken" THEN Dies
  ELSE pc' = "backoff" /\ sock' = << >> /\ UNCHANGED <<writer, buffer>>

\* disconnect() in amain's handler: the drain of a broken writer raises.
Disconnected ==
  IF writer = "broken" THEN Dies
  ELSE pc' = "backoff" /\ writer' = "none" /\ sock' = << >> /\ UNCHANGED buffer

Connect ==
  /\ pc = "connect" /\ asterisk # "down"
  /\ pc' = "banner" /\ writer' = "open" /\ early' = FALSE /\ sock' = << >>
  /\ Daemon /\ UNCHANGED <<known, served, eager, buffer, current, posted, cut>>

ConnectRefused ==
  /\ pc = "connect" /\ asterisk = "down"
  /\ Disconnected
  /\ Daemon /\ UNCHANGED <<early, known, served, eager, current, posted, cut>>

\* The banner, or the end of the socket, is read and Login written.
Banner ==
  /\ pc = "banner" /\ writer # "broken"
  /\ pc' = "login" /\ writer' = IF writer = "half" THEN "broken" ELSE writer
  /\ Daemon /\ UNCHANGED <<early, known, served, eager, eventVars>>

\* Mutant: the domains are read when the process starts.
LoginKnowing ==
  /\ pc = "login" /\ writer = "open" /\ ~early
  /\ pc' = "events" /\ known' = (IF known = {} THEN disk ELSE known) /\ served' = disk
  /\ eager' = (eager \/ asterisk = "booting")
  /\ sock' = IF asterisk = "up" THEN <<Boot>> ELSE << >>
  /\ Daemon /\ UNCHANGED <<writer, early, buffer, current, posted, cut>>

\* The first answer is the one to Login; amain makes a new EventConsumer.
Login ==
  /\ pc = "login" /\ writer = "open" /\ ~early
  /\ pc' = "events" /\ known' = disk /\ served' = disk
  /\ eager' = (eager \/ asterisk = "booting")
  /\ sock' = IF asterisk = "up" THEN <<Boot>> ELSE << >>
  /\ Daemon /\ UNCHANGED <<writer, early, buffer, current, posted, cut>>

\* The first answer is an error, to the command written before.
LoginRefused ==
  /\ pc = "login" /\ writer = "open" /\ early
  /\ Disconnected
  /\ Daemon /\ UNCHANGED <<early, known, served, eager, current, posted, cut>>

\* The end of the socket (IncompleteReadError) or a reset while logging in:
\* the one is not caught, after the other the disconnect raises.
LoginBroken ==
  /\ \/ pc \in {"banner", "login"} /\ writer = "broken"
     \/ pc = "login" /\ writer = "half"
  /\ Dies
  /\ Daemon /\ UNCHANGED <<early, known, served, eager, current, posted, cut>>

\* asyncio.sleep(reconnect_interval)
Retry ==
  /\ pc = "backoff" /\ pc' = "connect"
  /\ Daemon /\ UNCHANGED <<writer, early, known, served, eager, eventVars>>

-----------------------------------------------------------------------------
(* EventConsumer.run                                                       *)

\* The message read next, as it is parsed: lines of an event that was cut
\* short stand before it.
Parsed == IF buffer = << >> THEN Head(sock)
          ELSE [Head(sock) EXCEPT !.tenants = @ \union buffer[1].tenants, !.whole = FALSE]

\* Mutant: the filter is gone.
InterestingAll(e) == e.tenants # {}

\* FullyBooted is none of INTERESTING_EVENTS.
Interesting(e) == e.id # 0

\* extract_tenant_from_event: any known domain that the event's begins with.
\* (No domain known: only an event that names one after an @ has a tenant.)
TenantsOf(e) == known \intersect UNION {PrefixesOf[t] : t \in e.tenants}

Reads == pc = "events" /\ sock # << >> /\ Daemon

ReadPart ==
  /\ Reads /\ ~Head(sock).whole
  /\ buffer' = <<Parsed>>
  /\ sock' = Tail(sock)
  /\ UNCHANGED <<linkVars, current, posted, cut>>

Skip ==
  /\ Reads /\ Head(sock).whole
  /\ ~Interesting(Parsed) \/ TenantsOf(Parsed) = {}
  /\ sock' = Tail(sock) /\ buffer' = << >>
  /\ UNCHANGED <<linkVars, current, posted, cut>>

Take(t) ==
  /\ Reads /\ Head(sock).whole
  /\ Interesting(Parsed) /\ t \in TenantsOf(Parsed)
  /\ current' = <<[event |-> Parsed, tenant |-> t]>>
  /\ pc' = "posting" /\ sock' = Tail(sock) /\ buffer' = << >>
  /\ UNCHANGED <<writer, early, known, served, eager, posted, cut>>

\* Published to RabbitMQ and posted to Odoo, which takes it.
Post ==
  /\ pc = "posting" /\ pc' = "events"
  /\ posted' = posted \o current /\ current' = << >>
  /\ Daemon /\ UNCHANGED <<writer, early, known, served, eager, sock, buffer, cut>>

\* The POST is refused, fails or times out: WebhookPublisher.post only logs
\* it, though Odoo may have taken an event whose answer came too late.
PostFails ==
  /\ pc = "posting" /\ Fault("webhook")
  /\ pc' = "events" /\ current' = << >>
  /\ cut' = cut \union Ids(<<current[1].event>>)
  /\ posted' \in {posted, posted \o current}
  /\ UNCHANGED <<asterisk, disk, commandVars, sent, writer, early, known, served, eager, sock, buffer>>

\* publisher() raises a ConnectionError, which amain takes for one of AMI.
PublishFails ==
  /\ pc = "posting" /\ Fault("publish")
  /\ cut' = cut \union Ids(<<current[1].event>>) \union Ids(sock) /\ current' = << >>
  /\ Disconnected
  /\ UNCHANGED <<asterisk, disk, commandVars, sent, early, known, served, eager, posted>>

\* Mutant: an empty line is not the end of the socket.
LinkEndsOnError ==
  /\ pc = "events" /\ writer = "broken" /\ sock = << >>
  /\ pc' = "connect"
  /\ Daemon /\ UNCHANGED <<writer, early, known, served, eager, eventVars>>

\* readline() returns nothing or raises; run() returns and amain goes round.
LinkEnds ==
  /\ pc = "events" /\ writer \in {"half", "broken"} /\ sock = << >>
  /\ pc' = "connect"
  /\ Daemon /\ UNCHANGED <<writer, early, known, served, eager, eventVars>>

-----------------------------------------------------------------------------
(* The process.                                                            *)

Crash ==
  /\ pc # "dead" /\ Fault("crash")
  /\ Dies /\ current' = << >>
  /\ cut' = cut \union Ids(sock) \union (IF current = << >> THEN {} ELSE Ids(<<current[1].event>>))
  /\ UNCHANGED <<asterisk, disk, commandVars, sent, early, known, served, eager, posted>>

\* systemd: Restart=always
Restart ==
  /\ pc = "dead" /\ pc' = "connect" /\ known' = {}
  /\ Redelivered
  /\ UNCHANGED <<asterisk, disk, writer, early, served, eager, eventVars, told, sent, faults>>

Next ==
  \/ \E t \in Tenants : Emit(t) \/ Deploy(t) \/ Take(t)
  \/ \E n \in 0 .. Len(sock) : Stop(n)
  \/ Reset \/ StartAsterisk \/ Booted \/ Command
  \/ Deliver \/ (\E c \in unacked : Acknowledge(c)) \/ BrokerReconnect
  \/ Connect \/ ConnectRefused \/ Banner \/ Login \/ LoginRefused \/ LoginBroken \/ Retry
  \/ ReadPart \/ Skip \/ Post \/ PostFails \/ PublishFails \/ LinkEnds
  \/ Crash \/ Restart

\* The event loop runs its tasks, RabbitMQ delivers, systemd restarts, and
\* somebody starts Asterisk again.
Fairness ==
  /\ WF_vars(Connect \/ ConnectRefused \/ Banner \/ Login \/ LoginRefused \/ LoginBroken)
  /\ WF_vars(Retry) /\ WF_vars(Restart)
  /\ WF_vars(ReadPart \/ Skip \/ (\E t \in Tenants : Take(t)) \/ Post) /\ WF_vars(LinkEnds)
  /\ WF_vars(Deliver) /\ WF_vars(\E c \in unacked : Acknowledge(c))
  /\ WF_vars(StartAsterisk) /\ WF_vars(Booted)

Spec == Init /\ [][Next]_vars
FairSpec == Spec /\ Fairness

-----------------------------------------------------------------------------
(* What the bridge promises.                                               *)

\* An event is posted whole and to its own tenant, or to one whose domain its
\* own begins with.  Only when Asterisk had not finished booting at a login
\* may the rest of an event of an earlier connection be mixed into it.
TenantIsOwn ==
  \A i \in DOMAIN posted :
    /\ posted[i].event.whole \/ eager
    /\ \E t \in posted[i].event.tenants : posted[i].tenant \in PrefixesOf[t]

\* After the last fault the daemon is logged in for good.
LinkRecovers == <>[](LoggedIn)

\* An event of a tenant that was on disk at the login is taken by Odoo, unless
\* it is lost with its socket, its process, a failing publish or a POST that
\* fails: nothing posts it again.
EventIsPosted ==
  \A k \in 1 .. MaxEvents :
    (\E i \in DOMAIN sock : sock[i].id = k /\ sock[i].tenants \subseteq served)
      ~> (k \in cut \/ \E i \in DOMAIN posted : posted[i].event.id = k)

=============================================================================
