-------------------------- MODULE AmiBridgeProofs ---------------------------
(***************************************************************************)
(* Theorems about AmiBridge for every set of domains, every choice of      *)
(* faults and every bound.                                                 *)
(*                                                                         *)
(* Neither TypeOK nor TenantIsOwn is inductive.  Inv adds that only the    *)
(* last message of a socket that has ended is cut short, and what keeps    *)
(* the rest of an event, which stays in AMIConnection's buffer across a    *)
(* reconnect, away from the events of the next connection: the FullyBooted *)
(* that a login reads first takes it along, unless that login was eager.   *)
(***************************************************************************)
EXTENDS AmiBridge, SequenceTheorems, FiniteSetTheorems, TLAPS

\* The counters, and what RabbitMQ holds, in its order.
CountInv ==
  /\ sent \in Nat /\ told \in Nat /\ faults \in Nat
  /\ queue \in Seq(1 .. told)

\* Whatever the daemon reads or posts was sent.
IdInv ==
  /\ \A i \in DOMAIN sock : sock[i].id <= sent
  /\ \A i \in DOMAIN current : current[i].event.id <= sent

\* Only the end of a socket cuts a message short.
PartInv ==
  \A i \in DOMAIN sock : ~sock[i].whole => i = Len(sock) /\ writer # "open"

\* Asterisk is running where its socket is open.
LinkInv == writer = "open" => asterisk # "down"

\* Unless a login was eager, the rest of an event meets no event in the socket:
\* either its own socket has ended or FullyBooted comes first.
BufferInv ==
  /\ pc = "posting" => buffer = << >>
  /\ pc = "events" /\ buffer # << >> /\ ~eager =>
       IF sock = << >> THEN writer # "open" ELSE sock[1].id = 0

\* What is being posted is as TenantIsOwn demands of what was posted.
Own(p) == (p.event.whole \/ eager) /\ \E t \in p.event.tenants : p.tenant \in PrefixesOf[t]
CurrentInv == \A i \in DOMAIN current : Own(current[i])

Inv ==
  /\ TypeOK /\ CountInv /\ IdInv /\ PartInv /\ LinkInv /\ BufferInv
  /\ CurrentInv /\ TenantIsOwn

-----------------------------------------------------------------------------
(* Types                                                                   *)

LEMMA SockType ==
  ASSUME TypeOK
  PROVE  /\ Len(sock) \in Nat /\ DOMAIN sock = 1 .. Len(sock)
         /\ \A i \in DOMAIN sock : sock[i] \in Event
         /\ sock # << >> => /\ 1 \in DOMAIN sock /\ Head(sock) = sock[1] /\ Len(sock) >= 1
                            /\ Tail(sock) \in Seq(Event) /\ Len(Tail(sock)) = Len(sock) - 1
                            /\ DOMAIN Tail(sock) = 1 .. Len(sock) - 1
                            /\ \A i \in DOMAIN Tail(sock) : Tail(sock)[i] = sock[i + 1] /\ i + 1 \in DOMAIN sock
  <1>1. sock \in Seq(Event) BY DEF TypeOK
  <1>2. /\ Len(sock) \in Nat /\ DOMAIN sock = 1 .. Len(sock)
        /\ \A i \in DOMAIN sock : sock[i] \in Event
    BY <1>1, LenProperties, ElementOfSeq
  <1>3. ASSUME sock # << >>
        PROVE  /\ 1 \in DOMAIN sock /\ Head(sock) = sock[1] /\ Len(sock) >= 1
               /\ Tail(sock) \in Seq(Event) /\ Len(Tail(sock)) = Len(sock) - 1
               /\ DOMAIN Tail(sock) = 1 .. Len(sock) - 1
               /\ \A i \in DOMAIN Tail(sock) : Tail(sock)[i] = sock[i + 1] /\ i + 1 \in DOMAIN sock
    <2>1. Len(sock) # 0 BY <1>1, <1>3, EmptySeq
    <2>2. /\ Tail(sock) \in Seq(Event) /\ Len(Tail(sock)) = Len(sock) - 1
          /\ \A i \in 1 .. Len(Tail(sock)) : Tail(sock)[i] = sock[i + 1]
      BY <1>1, <1>3, HeadTailProperties
    <2>3. DOMAIN Tail(sock) = 1 .. Len(Tail(sock)) BY <2>2, LenProperties
    <2>4. Head(sock) = sock[1] BY <1>1, <1>3
    <2> QED BY <1>2, <2>1, <2>2, <2>3, <2>4
  <1> QED BY <1>2, <1>3

LEMMA CurrentType ==
  ASSUME TypeOK
  PROVE  /\ current # << >> => DOMAIN current = {1} /\ current[1] \in Posting /\ pc = "posting"
         /\ pc = "posting" => current # << >>
  <1>1. current \in Seq(Posting) BY DEF TypeOK
  <1>2. Len(current) = 0 => current = << >> BY <1>1, EmptySeq
  <1>3. Len(current) = 1 => DOMAIN current = {1} /\ current[1] \in Posting
    BY <1>1, LenProperties, ElementOfSeq
  <1>4. Len(<< >>) = 0 OBVIOUS
  <1> QED BY <1>2, <1>3, <1>4 DEF TypeOK

LEMMA BootType == Boot \in Event /\ Boot.id = 0 /\ Boot.whole
  BY BridgeAssumption DEF Boot, Event

\* What is read next is an event; the lines before it only add names to it.
LEMMA ParsedType ==
  ASSUME TypeOK, sock # << >>
  PROVE  /\ Parsed \in Event /\ Parsed.id = sock[1].id
         /\ buffer = << >> => Parsed = sock[1]
  <1>1. sock[1] \in Event /\ Head(sock) = sock[1] BY SockType
  <1>2. buffer # << >> => buffer[1] \in Event
    <2>1. buffer \in Seq(Event) BY DEF TypeOK
    <2>2. buffer # << >> => 1 \in 1 .. Len(buffer) BY <2>1, EmptySeq, LenProperties
    <2> QED BY <2>1, <2>2, ElementOfSeq
  <1> QED BY <1>1, <1>2 DEF Parsed, Event

\* The events of a part of the socket were sent.
LEMMA IdsSent ==
  ASSUME Inv, NEW s \in Seq(Event), \A i \in DOMAIN s : s[i].id <= sent
  PROVE  Ids(s) \subseteq 1 .. sent
  <1>1. \A i \in DOMAIN s : s[i] \in Event BY LenProperties, ElementOfSeq
  <1>2. \A i \in DOMAIN s : s[i].id \in Nat BY <1>1, BridgeAssumption DEF Event
  <1>3. sent \in Nat BY DEF Inv, CountInv
  <1>4. Ids(s) = {s[i].id : i \in DOMAIN s} \ {0} BY DEF Ids, ToSet
  <1> QED BY <1>2, <1>3, <1>4

LEMMA SockIds ==
  ASSUME Inv
  PROVE  Ids(sock) \subseteq 1 .. sent
  <1>1. sock \in Seq(Event) /\ \A i \in DOMAIN sock : sock[i].id <= sent BY DEF Inv, TypeOK, IdInv
  <1> QED BY <1>1, IdsSent

LEMMA CurrentIds ==
  ASSUME Inv, current # << >>
  PROVE  Ids(<<current[1].event>>) \subseteq 1 .. sent
  <1> DEFINE s == <<current[1].event>>
  <1>1. TypeOK /\ IdInv BY DEF Inv
  <1>2. DOMAIN current = {1} /\ current[1] \in Posting BY <1>1, CurrentType
  <1>3. s \in Seq(Event) BY <1>2 DEF Posting
  <1>4. \A i \in DOMAIN s : s[i].id <= sent BY <1>1, <1>2 DEF IdInv
  <1> HIDE DEF s
  <1>5. Ids(s) \subseteq 1 .. sent BY <1>3, <1>4, IdsSent
  <1> QED BY <1>5 DEF s

\* What RabbitMQ delivers again was delivered before.
LEMMA RedeliveredType ==
  ASSUME Inv, Redelivered
  PROVE  /\ queue' \in Seq(1 .. told) /\ unacked' = {}
         /\ {queue'[i] : i \in DOMAIN queue'} \subseteq 1 .. told
  <1>1. queue \in Seq(1 .. told) /\ unacked \subseteq 1 .. told /\ told \in Nat
    BY DEF Inv, TypeOK, CountInv
  <1>2. IsFiniteSet(unacked) /\ Cardinality(unacked) \in Nat
    <2>1. IsFiniteSet(1 .. told) BY <1>1, FS_Interval
    <2>2. IsFiniteSet(unacked) BY <1>1, <2>1, FS_Subset
    <2> QED BY <2>2, FS_CardinalityType
  <1>3. PICK again \in [1 .. Cardinality(unacked) -> unacked] : queue' = again \o queue
    BY DEF Redelivered
  <1>4. again \in Seq(1 .. told)
    <2>1. again \in Seq(unacked) BY <1>2, <1>3, SeqDef
    <2> QED BY <1>1, <2>1, SeqMonotonic
  <1>5. queue' \in Seq(1 .. told) BY <1>1, <1>3, <1>4, ConcatProperties
  <1>6. \A i \in DOMAIN queue' : queue'[i] \in 1 .. told BY <1>5, LenProperties, ElementOfSeq
  <1> QED BY <1>5, <1>6 DEF Redelivered

-----------------------------------------------------------------------------
(* Two kinds of steps                                                      *)

\* A step that is none of the link's, of the reader's or of what they read.
LEMMA Quiet ==
  ASSUME Inv, TypeOK', CountInv', LinkInv',
         UNCHANGED <<sock, buffer, pc, current, posted, eager, sent>>,
         writer' = "open" => writer = "open"
  PROVE  Inv'
  <1>1. IdInv' BY DEF Inv, IdInv
  <1>2. PartInv' BY DEF Inv, PartInv
  <1>3. BufferInv' BY DEF Inv, BufferInv
  <1>4. CurrentInv' BY DEF Inv, CurrentInv, Own
  <1>5. TenantIsOwn' BY DEF Inv, TenantIsOwn
  <1> QED BY <1>1, <1>2, <1>3, <1>4, <1>5 DEF Inv

\* A step after which nobody is logged in.
LEMMA Away ==
  ASSUME Inv, TypeOK', CountInv', LinkInv',
         pc' \notin {"events", "posting"},
         sock' = << >> \/ sock' = sock, current' = << >> \/ current' = current,
         writer' = "open" => writer = "open" \/ sock' = << >>,
         UNCHANGED <<posted, eager, sent>>
  PROVE  Inv'
  <1>1. IdInv' BY DEF Inv, IdInv
  <1>2. PartInv' BY DEF Inv, PartInv
  <1>3. BufferInv' BY DEF BufferInv
  <1>4. CurrentInv' BY DEF Inv, CurrentInv, Own
  <1>5. TenantIsOwn' BY DEF Inv, TenantIsOwn
  <1> QED BY <1>1, <1>2, <1>3, <1>4, <1>5 DEF Inv

-----------------------------------------------------------------------------
(* Steps of Asterisk, the other tasks, Odoo and RabbitMQ                   *)

\* A message comes after what is in the socket of a daemon that is logged in.
LEMMA MessageArrives ==
  ASSUME Inv, TypeOK', CountInv', LoggedIn, NEW e \in Event,
         sock' = Append(sock, e), e.whole, e.id <= sent', sent <= sent',
         LinkInv', UNCHANGED <<pc, writer, buffer, current, posted, eager>>
  PROVE  Inv'
  <1> USE DEF Inv
  <1>1. sock \in Seq(Event) /\ Len(sock) \in Nat /\ DOMAIN sock = 1 .. Len(sock)
    BY SockType DEF TypeOK
  <1>2. /\ Len(sock') = Len(sock) + 1 /\ DOMAIN sock' = 1 .. Len(sock) + 1
        /\ \A i \in 1 .. Len(sock) : sock'[i] = sock[i]
        /\ sock'[Len(sock) + 1] = e
    <2>1. /\ sock' \in Seq(Event) /\ Len(sock') = Len(sock) + 1
          /\ \A i \in 1 .. Len(sock) : sock'[i] = sock[i]
          /\ sock'[Len(sock) + 1] = e
      BY <1>1, AppendProperties
    <2> QED BY <2>1, LenProperties
  <1>3. \A i \in DOMAIN sock' : (i \in DOMAIN sock /\ sock'[i] = sock[i]) \/ sock'[i] = e
    BY <1>1, <1>2
  <1>4. sent \in Nat /\ sent' \in Nat BY DEF CountInv
  <1>5. IdInv'
    <2>1. \A i \in DOMAIN sock : sock[i].id \in Nat BY SockType, BridgeAssumption DEF Event
    <2>2. \A i \in DOMAIN sock' : sock'[i].id <= sent' BY <1>3, <1>4, <2>1 DEF IdInv
    <2>3. \A i \in DOMAIN current : current[i].event.id <= sent'
      <3>1. \A i \in DOMAIN current : current[i].event.id \in Nat
        BY CurrentType, BridgeAssumption DEF Posting, Event
      <3> QED BY <1>4, <3>1 DEF IdInv
    <2> QED BY <2>2, <2>3 DEF IdInv
  <1>6. PartInv' BY <1>3 DEF PartInv, LoggedIn
  <1>7. BufferInv'
    <2>1. CASE sock = << >> BY <2>1 DEF BufferInv, LoggedIn
    <2>2. CASE sock # << >>
      <3>1. 1 \in DOMAIN sock /\ sock'[1] = sock[1] /\ sock' # << >> BY <1>1, <1>2, <2>2, SockType
      <3> QED BY <2>2, <3>1 DEF BufferInv
    <2> QED BY <2>1, <2>2
  <1>8. CurrentInv' /\ TenantIsOwn' BY DEF CurrentInv, Own, TenantIsOwn
  <1> QED BY <1>5, <1>6, <1>7, <1>8

LEMMA EmitStep ==
  ASSUME Inv, NEW t \in Tenants, Emit(t)
  PROVE  Inv'
  <1> USE DEF Inv
  <1> DEFINE e == [id |-> sent + 1, tenants |-> {t}, whole |-> TRUE]
  <1>1. /\ LoggedIn /\ sent < MaxEvents /\ sent' = sent + 1 /\ sock' = Append(sock, e)
        /\ UNCHANGED <<asterisk, disk, pc, writer, early, known, served, eager>>
        /\ UNCHANGED <<buffer, current, posted, cut, queue, unacked, told, faults>>
    BY DEF Emit, linkVars, commandVars
  <1>2. sent \in Nat /\ MaxEvents \in Nat BY BridgeAssumption DEF CountInv
  <1>3. e \in Event BY <1>1, <1>2 DEF Event
  <1>4. e.whole /\ e.id <= sent' BY <1>1, <1>2
  <1> HIDE DEF e
  <1>5. TypeOK'
    <2>1. sock' \in Seq(Event) BY <1>1, <1>3, AppendProperties DEF TypeOK
    <2>2. cut' \subseteq 1 .. sent' /\ sent' <= MaxEvents BY <1>1, <1>2 DEF TypeOK
    <2> QED BY <1>1, <2>1, <2>2 DEF TypeOK
  <1>6. CountInv' BY <1>1 DEF CountInv
  <1>7. LinkInv' BY <1>1 DEF LinkInv
  <1> QED BY <1>1, <1>2, <1>3, <1>4, <1>5, <1>6, <1>7, MessageArrives

LEMMA BootedStep ==
  ASSUME Inv, Booted
  PROVE  Inv'
  <1> USE DEF Inv
  <1>1. /\ asterisk' = "up" /\ sock' = IF LoggedIn THEN Append(sock, Boot) ELSE sock
        /\ UNCHANGED <<disk, pc, writer, early, known, served, eager>>
        /\ UNCHANGED <<buffer, current, posted, cut, queue, unacked, told, sent, faults>>
    BY DEF Booted, linkVars, commandVars
  <1>2. TypeOK'
    <2>1. sock' \in Seq(Event) BY <1>1, BootType, AppendProperties DEF TypeOK
    <2> QED BY <1>1, <2>1 DEF TypeOK
  <1>3. CountInv' /\ LinkInv' BY <1>1 DEF CountInv, LinkInv
  <1>4. CASE LoggedIn
    <2>1. Boot.id <= sent' /\ sent <= sent' BY <1>1, BootType DEF CountInv
    <2> QED BY <1>1, <1>2, <1>3, <1>4, <2>1, BootType, MessageArrives
  <1>5. CASE ~LoggedIn BY <1>1, <1>2, <1>3, <1>5, Quiet
  <1> QED BY <1>4, <1>5

\* Asterisk closes the socket: a prefix of what it sent arrives, its last
\* message perhaps in part.
LEMMA StopStep ==
  ASSUME Inv, NEW n \in 0 .. Len(sock), Stop(n)
  PROVE  Inv'
  <1> USE DEF Inv
  <1>1. /\ asterisk' = "down" /\ faults < MaxFaults /\ faults' = faults + 1
        /\ IF writer # "open" THEN UNCHANGED <<writer, sock, cut>>
           ELSE /\ writer' = "half"
                /\ \/ sock' = SubSeq(sock, 1, n)
                   \/ /\ n < Len(sock)
                      /\ sock' = Append(SubSeq(sock, 1, n), [sock[n + 1] EXCEPT !.whole = FALSE])
                /\ cut' = cut \union Ids(SubSeq(sock, n + 1, Len(sock)))
        /\ UNCHANGED <<disk, pc, early, known, served, eager>>
        /\ UNCHANGED <<buffer, current, posted, queue, unacked, told, sent>>
    BY DEF Stop, Fault, commandVars
  <1>2. faults' <= MaxFaults /\ CountInv' BY <1>1, BridgeAssumption DEF CountInv
  <1>3. CASE writer # "open"
    <2>1. TypeOK' /\ LinkInv' BY <1>1, <1>2, <1>3 DEF TypeOK, LinkInv
    <2> QED BY <1>1, <1>2, <1>3, <2>1, Quiet
  <1>4. CASE writer = "open"
    <2> DEFINE p == SubSeq(sock, 1, n)
               r == SubSeq(sock, n + 1, Len(sock))
               h == [sock[n + 1] EXCEPT !.whole = FALSE]
    <2>1. n \in Nat /\ Len(sock) \in Nat /\ n <= Len(sock) /\ DOMAIN sock = 1 .. Len(sock)
          /\ \A i \in DOMAIN sock : sock[i] \in Event /\ sock[i].whole /\ sock[i].id <= sent
      BY <1>4, SockType DEF PartInv, IdInv
    <2>2. p \in Seq(Event) /\ Len(p) = n /\ DOMAIN p = 1 .. n /\ \A i \in 1 .. n : p[i] = sock[i]
      <3>1. \A i \in 1 .. n : sock[i] \in Event BY <2>1
      <3>2. p \in Seq(Event) /\ Len(p) = (IF 1 <= n THEN n - 1 + 1 ELSE 0)
            /\ \A i \in 1 .. n - 1 + 1 : p[i] = sock[1 + i - 1]
        BY <2>1, <3>1, SubSeqProperties
      <3>3. Len(p) = n /\ \A i \in 1 .. n : p[i] = sock[i] BY <2>1, <3>2
      <3> QED BY <3>2, <3>3, LenProperties
    <2>3. Ids(r) \subseteq 1 .. sent
      <3>1. \A i \in n + 1 .. Len(sock) : sock[i] \in Event BY <2>1
      <3>2. r \in Seq(Event) /\ Len(r) = (IF n + 1 <= Len(sock) THEN Len(sock) - (n + 1) + 1 ELSE 0)
            /\ \A i \in 1 .. Len(sock) - (n + 1) + 1 : r[i] = sock[n + 1 + i - 1]
        BY <2>1, <3>1, SubSeqProperties
      <3>3. DOMAIN r = 1 .. Len(r) BY <3>2, LenProperties
      <3> HIDE DEF r
      <3>4. \A i \in DOMAIN r : r[i].id <= sent
        <4>1. Len(r) = Len(sock) - n
          <5>1. n \in Nat /\ Len(sock) \in Nat /\ n <= Len(sock) BY <2>1
          <5>2. Len(r) = IF n + 1 <= Len(sock) THEN Len(sock) - (n + 1) + 1 ELSE 0 BY <3>2
          <5> QED BY <5>1, <5>2
        <4>2. ASSUME NEW i \in DOMAIN r PROVE r[i].id <= sent
          <5>1. i \in 1 .. Len(sock) - n BY <3>3, <4>1
          <5>2. i \in 1 .. Len(sock) - (n + 1) + 1 /\ n + 1 + i - 1 \in DOMAIN sock BY <2>1, <5>1
          <5> QED BY <2>1, <3>2, <5>2
        <4> QED BY <4>2
      <3> QED BY <3>2, <3>4, IdsSent
    <2>4. n < Len(sock) => h \in Event /\ ~h.whole /\ h.id = sock[n + 1].id /\ n + 1 \in DOMAIN sock
      <3>1. n < Len(sock) => n + 1 \in DOMAIN sock BY <2>1
      <3>2. n < Len(sock) => sock[n + 1] \in Event BY <2>1, <3>1
      <3> QED BY <3>1, <3>2 DEF Event
    <2> HIDE DEF p, r, h
    <2>5. /\ writer' = "half" /\ cut' = cut \union Ids(r)
          /\ sock' = p \/ (n < Len(sock) /\ sock' = Append(p, h))
      BY <1>1, <1>4 DEF p, r, h
    <2>6. n < Len(sock) =>
            /\ Append(p, h) \in Seq(Event) /\ DOMAIN Append(p, h) = 1 .. n + 1
            /\ Len(Append(p, h)) = n + 1 /\ Append(p, h)[n + 1] = h
            /\ \A i \in 1 .. n : Append(p, h)[i] = sock[i]
      <3> SUFFICES ASSUME n < Len(sock)
                   PROVE  /\ Append(p, h) \in Seq(Event) /\ DOMAIN Append(p, h) = 1 .. n + 1
                          /\ Len(Append(p, h)) = n + 1 /\ Append(p, h)[n + 1] = h
                          /\ \A i \in 1 .. n : Append(p, h)[i] = sock[i]
        OBVIOUS
      <3>1. h \in Event BY <2>4
      <3>2. /\ Append(p, h) \in Seq(Event) /\ Len(Append(p, h)) = Len(p) + 1
            /\ \A i \in 1 .. Len(p) : Append(p, h)[i] = p[i]
            /\ Append(p, h)[Len(p) + 1] = h
        BY <2>2, <3>1, AppendProperties
      <3>3. DOMAIN Append(p, h) = 1 .. Len(Append(p, h)) BY <3>2, LenProperties
      <3> QED BY <2>2, <3>2, <3>3
    <2>7. /\ sock' \in Seq(Event) /\ Len(sock') \in {n, n + 1} /\ DOMAIN sock' = 1 .. Len(sock')
          /\ \A i \in DOMAIN sock' :
               /\ i \in DOMAIN sock /\ sock'[i].id = sock[i].id
               /\ ~sock'[i].whole => i = Len(sock')
      <3>1. CASE sock' = p BY <2>1, <2>2, <3>1
      <3>2. CASE n < Len(sock) /\ sock' = Append(p, h)
        <4>1. \A i \in 1 .. n + 1 : i \in 1 .. n \/ i = n + 1 BY <2>1
        <4>2. \A i \in 1 .. n : i \in DOMAIN sock BY <2>1
        <4>3. \A i \in 1 .. n : sock'[i] = sock[i] /\ sock[i].whole BY <2>1, <2>6, <3>2, <4>2
        <4>4. sock'[n + 1] = h /\ Len(sock') = n + 1 /\ DOMAIN sock' = 1 .. n + 1 /\ sock' \in Seq(Event)
          BY <2>6, <3>2
        <4> QED BY <2>4, <3>2, <4>1, <4>2, <4>3, <4>4
      <3> QED BY <2>5, <3>1, <3>2
    <2>8. TypeOK'
      <3>1. cut' \subseteq 1 .. sent BY <2>3, <2>5 DEF TypeOK
      <3> QED BY <1>1, <1>2, <1>4, <2>5, <2>7, <3>1 DEF TypeOK
    <2>9. IdInv' BY <1>1, <2>1, <2>7 DEF IdInv
    <2>10. PartInv' /\ LinkInv' BY <2>5, <2>7 DEF PartInv, LinkInv
    <2>11. BufferInv'
      <3>1. CASE sock' = << >> BY <1>1, <2>5, <3>1 DEF BufferInv
      <3>2. CASE sock' # << >>
        <4>1. Len(sock') # 0 /\ Len(sock') \in Nat BY <2>7, <3>2, EmptySeq, LenProperties
        <4>2. 1 \in DOMAIN sock'
          <5>1. DOMAIN sock' = 1 .. Len(sock') BY <2>7
          <5> QED BY <4>1, <5>1
        <4>3. sock'[1].id = sock[1].id /\ 1 \in DOMAIN sock BY <2>7, <4>2
        <4>4. sock # << >> BY <4>3
        <4> QED BY <1>1, <3>2, <4>3, <4>4 DEF BufferInv
      <3> QED BY <3>1, <3>2
    <2>12. CurrentInv' /\ TenantIsOwn' BY <1>1 DEF CurrentInv, Own, TenantIsOwn
    <2> QED BY <1>2, <2>8, <2>9, <2>10, <2>11, <2>12
  <1> QED BY <1>3, <1>4

\* Asterisk resets the socket: lines of an event may stay in the buffer.
LEMMA ResetStep ==
  ASSUME Inv, Reset
  PROVE  Inv'
  <1> USE DEF Inv
  <1>1. /\ asterisk' = "down" /\ faults < MaxFaults /\ faults' = faults + 1
        /\ IF writer # "open" THEN UNCHANGED <<writer, sock, buffer, cut>>
           ELSE /\ writer' = "broken" /\ sock' = << >>
                /\ \/ UNCHANGED buffer
                   \/ /\ sock # << >> /\ pc = "events"
                      /\ buffer' = <<[Head(sock) EXCEPT !.whole = FALSE]>>
                /\ cut' = cut \union Ids(sock)
        /\ UNCHANGED <<disk, pc, early, known, served, eager>>
        /\ UNCHANGED <<current, posted, queue, unacked, told, sent>>
    BY DEF Reset, Fault, commandVars
  <1>2. faults' <= MaxFaults /\ CountInv' BY <1>1, BridgeAssumption DEF CountInv
  <1>3. CASE writer # "open"
    <2>1. TypeOK' /\ LinkInv' BY <1>1, <1>2, <1>3 DEF TypeOK, LinkInv
    <2> QED BY <1>1, <1>2, <1>3, <2>1, Quiet
  <1>4. CASE writer = "open"
    <2>1. TypeOK'
      <3>1. cut' \subseteq 1 .. sent BY <1>1, <1>4, SockIds DEF TypeOK
      <3>2. buffer' \in Seq(Event) /\ Len(buffer') <= 1
        <4>1. CASE UNCHANGED buffer BY <4>1 DEF TypeOK
        <4>2. CASE sock # << >> /\ buffer' = <<[Head(sock) EXCEPT !.whole = FALSE]>>
          <5>1. Head(sock) \in Event BY <4>2, SockType
          <5>2. [Head(sock) EXCEPT !.whole = FALSE] \in Event BY <5>1 DEF Event
          <5> QED BY <4>2, <5>2
        <4> QED BY <1>1, <1>4, <4>1, <4>2
      <3> QED BY <1>1, <1>2, <1>4, <3>1, <3>2 DEF TypeOK
    <2>2. IdInv' BY <1>1, <1>4 DEF IdInv
    <2>3. PartInv' /\ LinkInv' BY <1>1, <1>4 DEF PartInv, LinkInv
    <2>4. BufferInv' BY <1>1, <1>4 DEF BufferInv
    <2>5. CurrentInv' /\ TenantIsOwn' BY <1>1 DEF CurrentInv, Own, TenantIsOwn
    <2> QED BY <1>2, <2>1, <2>2, <2>3, <2>4, <2>5
  <1> QED BY <1>3, <1>4

LEMMA OthersStep ==
  ASSUME Inv,
         \/ \E t \in Tenants : Deploy(t)
         \/ StartAsterisk \/ Command \/ Deliver \/ (\E c \in unacked : Acknowledge(c))
         \/ BrokerReconnect
  PROVE  Inv'
  <1> USE DEF Inv, linkVars, eventVars, commandVars
  <1>1. /\ sent \in Nat /\ told \in Nat /\ faults \in Nat /\ queue \in Seq(1 .. told)
        /\ unacked \subseteq 1 .. told /\ \A i \in DOMAIN queue : queue[i] \in 1 .. told
        /\ MaxFaults \in Nat
    BY BridgeAssumption DEF CountInv, TypeOK
  <1>2. ASSUME NEW t \in Tenants, Deploy(t) PROVE Inv'
    <2>1. TypeOK' /\ CountInv' /\ LinkInv' BY <1>2 DEF Deploy, TypeOK, CountInv, LinkInv
    <2> QED BY <1>2, <2>1, Quiet DEF Deploy
  <1>3. CASE StartAsterisk
    <2>1. TypeOK' /\ CountInv' /\ LinkInv' BY <1>3 DEF StartAsterisk, TypeOK, CountInv, LinkInv
    <2> QED BY <1>3, <2>1, Quiet DEF StartAsterisk
  <1>4. CASE Command
    <2>1. /\ told' = told + 1 /\ told < MaxCommands /\ queue' = Append(queue, told + 1)
          /\ UNCHANGED <<asterisk, disk, pc, writer, early, known, served, eager>>
          /\ UNCHANGED <<sock, buffer, current, posted, cut, unacked, sent, faults>>
      BY <1>4 DEF Command
    <2>2. queue \in Seq(1 .. told') BY <1>1, <2>1, SeqMonotonic
    <2>3. queue' \in Seq(1 .. told') BY <1>1, <2>1, <2>2, AppendProperties
    <2>4. \A i \in DOMAIN queue' : queue'[i] \in 1 .. told' BY <2>3, LenProperties, ElementOfSeq
    <2>5. told' <= MaxCommands BY <1>1, <2>1, BridgeAssumption
    <2>6. unacked \subseteq 1 .. told' BY <1>1, <2>1
    <2>7. TypeOK' BY <2>1, <2>4, <2>5, <2>6 DEF TypeOK
    <2>8. CountInv' /\ LinkInv' BY <1>1, <2>1, <2>3 DEF CountInv, LinkInv
    <2> QED BY <2>1, <2>7, <2>8, Quiet
  <1>5. CASE Deliver
    <2>1. /\ queue # << >> /\ pc # "dead" /\ queue' = Tail(queue)
          /\ unacked' = unacked \union {Head(queue)}
          /\ writer' = IF writer = "half" THEN "broken" ELSE writer
          /\ early' = (early \/ (writer = "open" /\ pc = "banner"))
          /\ UNCHANGED <<asterisk, disk, pc, known, served, eager>>
          /\ UNCHANGED <<sock, buffer, current, posted, cut, told, sent, faults>>
      BY <1>5 DEF Deliver
    <2>2. Head(queue) \in 1 .. told /\ queue' \in Seq(1 .. told)
      BY <1>1, <2>1, HeadTailProperties
    <2>3. \A i \in DOMAIN queue' : queue'[i] \in 1 .. told BY <2>2, LenProperties, ElementOfSeq
    <2>4. unacked' \subseteq 1 .. told BY <1>1, <2>1, <2>2
    <2>5. TypeOK' BY <2>1, <2>3, <2>4 DEF TypeOK
    <2>6. CountInv' /\ LinkInv' BY <1>1, <2>1, <2>2 DEF CountInv, LinkInv
    <2>7. writer' = "open" => writer = "open" BY <2>1
    <2> QED BY <2>1, <2>5, <2>6, <2>7, Quiet
  <1>6. ASSUME NEW c \in unacked, Acknowledge(c) PROVE Inv'
    <2>1. TypeOK' /\ CountInv' /\ LinkInv' BY <1>6 DEF Acknowledge, TypeOK, CountInv, LinkInv
    <2> QED BY <1>6, <2>1, Quiet DEF Acknowledge
  <1>7. CASE BrokerReconnect
    <2>1. /\ faults < MaxFaults /\ faults' = faults + 1 /\ Redelivered
          /\ UNCHANGED <<asterisk, disk, pc, writer, early, known, served, eager>>
          /\ UNCHANGED <<sock, buffer, current, posted, cut, told, sent>>
      BY <1>7 DEF BrokerReconnect, Fault
    <2>2. /\ queue' \in Seq(1 .. told) /\ unacked' = {}
          /\ {queue'[i] : i \in DOMAIN queue'} \subseteq 1 .. told
      BY <2>1, RedeliveredType
    <2>3. faults' <= MaxFaults /\ faults' \in Nat BY <1>1, <2>1
    <2>4. TypeOK' BY <2>1, <2>2, <2>3 DEF TypeOK
    <2>5. CountInv' /\ LinkInv' BY <1>1, <2>1, <2>2, <2>3 DEF CountInv, LinkInv
    <2> QED BY <2>1, <2>4, <2>5, Quiet
  <1> QED BY <1>2, <1>3, <1>4, <1>5, <1>6, <1>7

-----------------------------------------------------------------------------
(* Steps of the link                                                       *)

\* disconnect(), or an exception nothing catches, forgets the socket.
LEMMA DisconnectedType ==
  ASSUME TypeOK, Disconnected
  PROVE  /\ pc' \in {"backoff", "dead"} /\ writer' = "none" /\ sock' = << >>
         /\ buffer' \in Seq(Event) /\ Len(buffer') <= 1
  <1>1. buffer \in Seq(Event) /\ Len(buffer) <= 1 BY DEF TypeOK
  <1>2. CASE writer = "broken" BY <1>2 DEF Disconnected, Dies
  <1>3. CASE writer # "broken" BY <1>1, <1>3 DEF Disconnected
  <1> QED BY <1>2, <1>3

LEMMA DiesType ==
  ASSUME Dies
  PROVE  /\ pc' = "dead" /\ writer' = "none" /\ sock' = << >>
         /\ buffer' \in Seq(Event) /\ Len(buffer') <= 1
  BY DEF Dies

LEMMA LinkStep ==
  ASSUME Inv,
         Connect \/ ConnectRefused \/ Banner \/ LoginRefused \/ LoginBroken \/ Retry \/ LinkEnds
  PROVE  Inv'
  <1> USE DEF Inv, eventVars, commandVars
  <1>1. UNCHANGED <<asterisk, disk, queue, unacked, told, sent, faults>>
    BY DEF Daemon, Connect, ConnectRefused, Banner, LoginRefused, LoginBroken, Retry, LinkEnds
  <1>2. CountInv' BY <1>1 DEF CountInv
  <1>3. UNCHANGED <<known, served, eager, current, posted, cut>>
    BY DEF Connect, ConnectRefused, Banner, LoginRefused, LoginBroken, Retry, LinkEnds
  <1>4. pc \notin {"posting"} /\ Len(current) = 0
    BY DEF Connect, ConnectRefused, Banner, LoginRefused, LoginBroken, Retry, LinkEnds, TypeOK
  <1>5. CASE Connect
    <2>1. /\ pc' = "banner" /\ writer' = "open" /\ early' = FALSE /\ sock' = << >>
          /\ asterisk # "down" /\ UNCHANGED buffer
      BY <1>5 DEF Connect
    <2>2. TypeOK'
      <3>0. early' \in BOOLEAN BY <2>1
      <3>1. sock' \in Seq(Event) BY <2>1
      <3>2. Len(current') = 0 /\ pc' # "posting" BY <1>3, <1>4, <2>1
      <3> QED BY <1>1, <1>3, <2>1, <3>0, <3>1, <3>2 DEF TypeOK
    <2>3. LinkInv' BY <1>1, <2>1 DEF LinkInv
    <2> QED BY <1>1, <1>2, <1>3, <2>1, <2>2, <2>3, Away
  <1>6. CASE ConnectRefused \/ LoginRefused
    <2>1. Disconnected /\ UNCHANGED early BY <1>6 DEF ConnectRefused, LoginRefused
    <2>2. /\ pc' \in {"backoff", "dead"} /\ writer' = "none" /\ sock' = << >>
          /\ buffer' \in Seq(Event) /\ Len(buffer') <= 1
      BY <2>1, DisconnectedType
    <2>3. TypeOK' /\ LinkInv' BY <1>1, <1>3, <1>4, <2>1, <2>2 DEF TypeOK, LinkInv
    <2> QED BY <1>1, <1>2, <1>3, <2>2, <2>3, Away
  <1>7. CASE LoginBroken
    <2>1. Dies /\ UNCHANGED early BY <1>7 DEF LoginBroken
    <2>2. TypeOK' /\ LinkInv' BY <1>1, <1>3, <1>4, <2>1, DiesType DEF TypeOK, LinkInv
    <2> QED BY <1>1, <1>2, <1>3, <2>1, <2>2, DiesType, Away
  <1>8. CASE Banner
    <2>1. /\ pc' = "login" /\ writer' = (IF writer = "half" THEN "broken" ELSE writer)
          /\ UNCHANGED <<early, sock, buffer>>
      BY <1>8 DEF Banner
    <2>2. TypeOK' /\ LinkInv' BY <1>1, <1>3, <1>4, <2>1 DEF TypeOK, LinkInv
    <2> QED BY <1>1, <1>2, <1>3, <2>1, <2>2, Away
  <1>9. CASE Retry \/ LinkEnds
    <2>1. pc' = "connect" /\ UNCHANGED <<writer, early, sock, buffer>>
      BY <1>9 DEF Retry, LinkEnds
    <2>2. TypeOK' /\ LinkInv' BY <1>1, <1>3, <1>4, <2>1 DEF TypeOK, LinkInv
    <2> QED BY <1>1, <1>2, <1>3, <2>1, <2>2, Away
  <1> QED BY <1>5, <1>6, <1>7, <1>8, <1>9

\* A login that is not eager is told FullyBooted first.
LEMMA LoginStep ==
  ASSUME Inv, Login
  PROVE  Inv'
  <1> USE DEF Inv
  <1>1. /\ pc = "login" /\ writer = "open" /\ pc' = "events" /\ known' = disk /\ served' = disk
        /\ eager' = (eager \/ asterisk = "booting")
        /\ sock' = (IF asterisk = "up" THEN <<Boot>> ELSE << >>)
        /\ UNCHANGED <<asterisk, disk, queue, unacked, told, sent, faults>>
        /\ UNCHANGED <<writer, early, buffer, current, posted, cut>>
    BY DEF Login, Daemon, commandVars
  <1>2. TypeOK' BY <1>1, BootType DEF TypeOK
  <1>3. CountInv' BY <1>1 DEF CountInv
  <1>4. IdInv' BY <1>1, BootType DEF IdInv, CountInv
  <1>5. PartInv' /\ LinkInv' BY <1>1, BootType DEF PartInv, LinkInv
  <1>6. BufferInv'
    <2>1. ASSUME ~eager' PROVE sock' = <<Boot>>
      BY <1>1, <2>1 DEF LinkInv, TypeOK
    <2>2. sock' = <<Boot>> => sock' # << >> /\ sock'[1].id = 0 BY BootType
    <2> QED BY <1>1, <2>1, <2>2 DEF BufferInv
  <1>7. CurrentInv' /\ TenantIsOwn' BY <1>1 DEF CurrentInv, Own, TenantIsOwn
  <1> QED BY <1>2, <1>3, <1>4, <1>5, <1>6, <1>7

-----------------------------------------------------------------------------
(* Steps of the reader and of the process                                  *)

\* After the message read first come the others.
LEMMA RestOfSock ==
  ASSUME Inv, sock # << >>, sock' = Tail(sock), UNCHANGED <<sent, writer>>
  PROVE  /\ sock' \in Seq(Event) /\ PartInv'
         /\ \A i \in DOMAIN sock' : sock'[i].id <= sent
         /\ ~sock[1].whole => sock' = << >> /\ writer # "open"
  <1> USE DEF Inv
  <1>1. /\ 1 \in DOMAIN sock /\ Len(sock) >= 1 /\ Len(sock) \in Nat
        /\ sock' \in Seq(Event) /\ Len(sock') = Len(sock) - 1 /\ DOMAIN sock' = 1 .. Len(sock) - 1
        /\ \A i \in DOMAIN sock' : sock'[i] = sock[i + 1] /\ i + 1 \in DOMAIN sock
    BY SockType
  <1>2. PartInv'
    <2> SUFFICES ASSUME NEW i \in DOMAIN sock', ~sock'[i].whole
                 PROVE  i = Len(sock') /\ writer' # "open"
      BY DEF PartInv
    <2>1. i + 1 \in DOMAIN sock /\ ~sock[i + 1].whole BY <1>1
    <2>2. i + 1 = Len(sock) /\ writer # "open" BY <2>1 DEF PartInv
    <2> QED BY <1>1, <2>2
  <1>3. \A i \in DOMAIN sock' : sock'[i].id <= sent BY <1>1 DEF IdInv
  <1>4. ASSUME ~sock[1].whole PROVE sock' = << >> /\ writer # "open"
    <2>1. 1 = Len(sock) /\ writer # "open" BY <1>1, <1>4 DEF PartInv
    <2>2. Len(sock') = 0 BY <1>1, <2>1
    <2> QED BY <1>1, <2>1, <2>2, EmptySeq
  <1> QED BY <1>1, <1>2, <1>3, <1>4

\* Only the end of a socket leaves a part of an event; its socket is empty then.
LEMMA ReadPartStep ==
  ASSUME Inv, ReadPart
  PROVE  Inv'
  <1> USE DEF Inv
  <1>1. /\ pc = "events" /\ sock # << >> /\ ~Head(sock).whole
        /\ buffer' = <<Parsed>> /\ sock' = Tail(sock)
        /\ UNCHANGED <<asterisk, disk, queue, unacked, told, sent, faults>>
        /\ UNCHANGED <<pc, writer, early, known, served, eager, current, posted, cut>>
    BY DEF ReadPart, Reads, Daemon, linkVars, commandVars
  <1>2. ~sock[1].whole BY <1>1, SockType
  <1>3. /\ sock' \in Seq(Event) /\ PartInv' /\ \A i \in DOMAIN sock' : sock'[i].id <= sent
        /\ sock' = << >> /\ writer # "open"
    BY <1>1, <1>2, RestOfSock
  <1>4. buffer' \in Seq(Event) /\ Len(buffer') = 1 BY <1>1, ParsedType
  <1>5. TypeOK' BY <1>1, <1>3, <1>4 DEF TypeOK
  <1>6. CountInv' /\ LinkInv' BY <1>1 DEF CountInv, LinkInv
  <1>7. IdInv' BY <1>1, <1>3 DEF IdInv
  <1>8. BufferInv' BY <1>1, <1>3 DEF BufferInv
  <1>9. CurrentInv' /\ TenantIsOwn' BY <1>1 DEF CurrentInv, Own, TenantIsOwn
  <1> QED BY <1>3, <1>5, <1>6, <1>7, <1>8, <1>9

LEMMA SkipStep ==
  ASSUME Inv, Skip
  PROVE  Inv'
  <1> USE DEF Inv
  <1>1. /\ pc = "events" /\ sock # << >> /\ buffer' = << >> /\ sock' = Tail(sock)
        /\ UNCHANGED <<asterisk, disk, queue, unacked, told, sent, faults>>
        /\ UNCHANGED <<pc, writer, early, known, served, eager, current, posted, cut>>
    BY DEF Skip, Reads, Daemon, linkVars, commandVars
  <1>2. sock' \in Seq(Event) /\ PartInv' /\ \A i \in DOMAIN sock' : sock'[i].id <= sent
    BY <1>1, RestOfSock
  <1>3. buffer' \in Seq(Event) /\ Len(buffer') <= 1 BY <1>1
  <1>4. TypeOK' BY <1>1, <1>2, <1>3 DEF TypeOK
  <1>5. CountInv' /\ LinkInv' BY <1>1 DEF CountInv, LinkInv
  <1>6. IdInv' BY <1>1, <1>2 DEF IdInv
  <1>7. BufferInv' BY <1>1 DEF BufferInv
  <1>8. CurrentInv' /\ TenantIsOwn' BY <1>1 DEF CurrentInv, Own, TenantIsOwn
  <1> QED BY <1>2, <1>4, <1>5, <1>6, <1>7, <1>8

\* The event taken is whole: had the buffer held lines, FullyBooted would have
\* come first, or a login had been eager.
LEMMA TakeStep ==
  ASSUME Inv, NEW t \in Tenants, Take(t)
  PROVE  Inv'
  <1> USE DEF Inv
  <1>1. /\ pc = "events" /\ sock # << >> /\ Head(sock).whole
        /\ Parsed.id # 0 /\ t \in TenantsOf(Parsed)
        /\ current' = <<[event |-> Parsed, tenant |-> t]>> /\ pc' = "posting"
        /\ sock' = Tail(sock) /\ buffer' = << >>
        /\ UNCHANGED <<asterisk, disk, queue, unacked, told, sent, faults>>
        /\ UNCHANGED <<writer, early, known, served, eager, posted, cut>>
    BY DEF Take, Reads, Daemon, Interesting, commandVars
  <1> DEFINE p == [event |-> Parsed, tenant |-> t]
  <1>2. sock[1].whole /\ 1 \in DOMAIN sock BY <1>1, SockType
  <1>3. /\ Parsed \in Event /\ Parsed.id = sock[1].id
        /\ buffer = << >> => Parsed = sock[1]
    BY <1>1, ParsedType
  <1>4. sock' \in Seq(Event) /\ PartInv' /\ \A i \in DOMAIN sock' : sock'[i].id <= sent
    BY <1>1, RestOfSock
  <1>5. p \in Posting BY <1>3 DEF Posting
  <1>6. current' \in Seq(Posting) /\ Len(current') = 1 /\ DOMAIN current' = {1} /\ current'[1] = p
    BY <1>1, <1>5
  <1>7. Own(p)
    <2>1. Parsed.whole \/ eager BY <1>1, <1>2, <1>3 DEF BufferInv
    <2>2. \E d \in Parsed.tenants : t \in PrefixesOf[d] BY <1>1 DEF TenantsOf
    <2> QED BY <1>1, <2>1, <2>2 DEF Own
  <1>8. p.event.id <= sent BY <1>2, <1>3 DEF IdInv
  <1> HIDE DEF p
  <1>9. TypeOK'
    <2>1. buffer' \in Seq(Event) /\ Len(buffer') <= 1 BY <1>1
    <2> QED BY <1>1, <1>4, <1>6, <2>1 DEF TypeOK
  <1>10. CountInv' /\ LinkInv' BY <1>1 DEF CountInv, LinkInv
  <1>11. IdInv' BY <1>1, <1>4, <1>6, <1>8 DEF IdInv
  <1>12. BufferInv' BY <1>1 DEF BufferInv
  <1>13. CurrentInv' BY <1>1, <1>6, <1>7 DEF CurrentInv, Own
  <1>14. TenantIsOwn' BY <1>1 DEF TenantIsOwn
  <1> QED BY <1>4, <1>9, <1>10, <1>11, <1>12, <1>13, <1>14

\* The event of a POST that fails was sent.
LEMMA PostCounts ==
  ASSUME Inv, Post \/ PostFails
  PROVE  cut' \subseteq 1 .. sent /\ faults' \in Nat /\ faults' <= MaxFaults
  <1> USE DEF Inv
  <1>1. CASE Post
    <2>1. UNCHANGED <<cut, faults>> BY <1>1 DEF Post, Daemon
    <2> QED BY <2>1 DEF TypeOK, CountInv
  <1>2. CASE PostFails
    <2>1. /\ pc = "posting" /\ faults < MaxFaults /\ faults' = faults + 1
          /\ cut' = cut \union Ids(<<current[1].event>>)
      BY <1>2 DEF PostFails, Fault
    <2>2. current # << >> BY <2>1, CurrentType
    <2>3. cut' \subseteq 1 .. sent BY <2>1, <2>2, CurrentIds DEF TypeOK
    <2> QED BY <2>1, <2>3, BridgeAssumption DEF CountInv
  <1> QED BY <1>1, <1>2

\* What Odoo has got is what was being posted, whether or not its answer came.
LEMMA PostStep ==
  ASSUME Inv, Post \/ PostFails, posted' = posted \o current
  PROVE  Inv'
  <1> USE DEF Inv
  <1>1. /\ pc = "posting" /\ pc' = "events" /\ posted' = posted \o current /\ current' = << >>
        /\ UNCHANGED <<asterisk, disk, queue, unacked, told, sent>>
        /\ UNCHANGED <<writer, early, known, served, eager, sock, buffer>>
    BY DEF Post, PostFails, Daemon, commandVars
  <1>2. posted \in Seq(Posting) /\ current \in Seq(Posting) BY DEF TypeOK
  <1>3. /\ posted' \in Seq(Posting) /\ Len(posted') = Len(posted) + Len(current)
        /\ \A i \in 1 .. Len(posted) + Len(current) :
             posted'[i] = IF i <= Len(posted) THEN posted[i] ELSE current[i - Len(posted)]
    BY <1>1, <1>2, ConcatProperties
  <1>4. TypeOK' /\ CountInv'
    <2>1. cut' \subseteq 1 .. sent /\ faults' \in Nat /\ faults' <= MaxFaults BY <1>1, PostCounts
    <2> QED BY <1>1, <1>3, <2>1 DEF TypeOK, CountInv
  <1>5. LinkInv' BY <1>1 DEF LinkInv
  <1>6. IdInv' BY <1>1 DEF IdInv
  <1>7. PartInv' BY <1>1 DEF PartInv
  <1>8. BufferInv' BY <1>1 DEF BufferInv
  <1>9. CurrentInv' BY <1>1 DEF CurrentInv
  <1>10. TenantIsOwn'
    <2>1. \A i \in DOMAIN posted : Own(posted[i]) BY DEF TenantIsOwn, Own
    <2>2. ASSUME NEW i \in DOMAIN posted' PROVE Own(posted'[i])
      <3>1. /\ Len(posted) \in Nat /\ DOMAIN posted = 1 .. Len(posted)
            /\ Len(current) \in Nat /\ DOMAIN current = 1 .. Len(current)
            /\ DOMAIN posted' = 1 .. Len(posted')
        BY <1>2, <1>3, LenProperties
      <3>2. i \in 1 .. Len(posted) + Len(current) BY <1>3, <3>1
      <3>3. CASE i <= Len(posted)
        <4>1. i \in DOMAIN posted /\ posted'[i] = posted[i] BY <1>3, <3>1, <3>2, <3>3
        <4> QED BY <2>1, <4>1
      <3>4. CASE ~(i <= Len(posted))
        <4>1. i - Len(posted) \in DOMAIN current BY <3>1, <3>2, <3>4
        <4>2. posted'[i] = current[i - Len(posted)] BY <1>3, <3>2, <3>4
        <4> QED BY <4>1, <4>2 DEF CurrentInv
      <3> QED BY <3>3, <3>4
    <2> QED BY <1>1, <2>2 DEF TenantIsOwn, Own
  <1> QED BY <1>4, <1>5, <1>6, <1>7, <1>8, <1>9, <1>10

\* A POST that Odoo has not taken.
LEMMA PostLostStep ==
  ASSUME Inv, PostFails, posted' = posted
  PROVE  Inv'
  <1> USE DEF Inv
  <1>1. /\ pc = "posting" /\ pc' = "events" /\ current' = << >>
        /\ UNCHANGED <<asterisk, disk, queue, unacked, told, sent, posted>>
        /\ UNCHANGED <<writer, early, known, served, eager, sock, buffer>>
    BY DEF PostFails, commandVars
  <1>2. TypeOK' /\ CountInv'
    <2>1. cut' \subseteq 1 .. sent /\ faults' \in Nat /\ faults' <= MaxFaults BY PostCounts
    <2> QED BY <1>1, <2>1 DEF TypeOK, CountInv
  <1>3. LinkInv' BY <1>1 DEF LinkInv
  <1>4. IdInv' BY <1>1 DEF IdInv
  <1>5. PartInv' BY <1>1 DEF PartInv
  <1>6. BufferInv' BY <1>1 DEF BufferInv
  <1>7. CurrentInv' /\ TenantIsOwn' BY <1>1 DEF CurrentInv, TenantIsOwn, Own
  <1> QED BY <1>2, <1>3, <1>4, <1>5, <1>6, <1>7

LEMMA ProcessStep ==
  ASSUME Inv, PublishFails \/ Crash \/ Restart
  PROVE  Inv'
  <1> USE DEF Inv
  <1>1. UNCHANGED <<asterisk, disk, served, early, eager, posted, told, sent>>
    <2>1. CASE PublishFails BY <2>1 DEF PublishFails, commandVars
    <2>2. CASE Crash BY <2>2 DEF Crash, commandVars
    <2>3. CASE Restart BY <2>3 DEF Restart, eventVars
    <2> QED BY <2>1, <2>2, <2>3
  <1>2. CASE PublishFails \/ Crash
    <2>1. /\ faults < MaxFaults /\ faults' = faults + 1 /\ current' = << >>
          /\ UNCHANGED <<queue, unacked, known>>
      BY <1>2 DEF PublishFails, Crash, Fault, commandVars
    <2>2. cut' \subseteq 1 .. sent
      <3>1. cut' \subseteq cut \union Ids(sock) \union
              (IF current = << >> THEN {} ELSE Ids(<<current[1].event>>))
        BY <1>2, CurrentType DEF PublishFails, Crash
      <3> QED BY <3>1, SockIds, CurrentIds DEF TypeOK
    <2>3. /\ pc' \in {"backoff", "dead"} /\ writer' = "none" /\ sock' = << >>
          /\ buffer' \in Seq(Event) /\ Len(buffer') <= 1
      BY <1>2, DisconnectedType, DiesType DEF PublishFails, Crash
    <2>4. faults' <= MaxFaults /\ CountInv' BY <1>1, <2>1, BridgeAssumption DEF CountInv
    <2>5. current' \in Seq(Posting) /\ Len(current') = 0 BY <2>1
    <2>6. TypeOK' BY <1>1, <2>1, <2>2, <2>3, <2>4, <2>5 DEF TypeOK
    <2>7. LinkInv' BY <2>3 DEF LinkInv
    <2> QED BY <1>1, <2>1, <2>3, <2>4, <2>6, <2>7, Away
  <1>3. CASE Restart
    <2>1. /\ pc = "dead" /\ pc' = "connect" /\ known' = {} /\ Redelivered
          /\ UNCHANGED <<writer, sock, buffer, current, cut, faults>>
      BY <1>3 DEF Restart, eventVars
    <2>2. /\ queue' \in Seq(1 .. told) /\ unacked' = {}
          /\ {queue'[i] : i \in DOMAIN queue'} \subseteq 1 .. told
      BY <2>1, RedeliveredType
    <2>3. Len(current') = 0 BY <2>1 DEF TypeOK
    <2>4. TypeOK' BY <1>1, <2>1, <2>2, <2>3 DEF TypeOK
    <2>5. CountInv' /\ LinkInv' BY <1>1, <2>1, <2>2 DEF CountInv, LinkInv
    <2> QED BY <1>1, <2>1, <2>4, <2>5, Away
  <1> QED BY <1>2, <1>3

-----------------------------------------------------------------------------
(* The invariant                                                           *)

LEMMA Start == Init => Inv
  <1> SUFFICES ASSUME Init PROVE Inv
    OBVIOUS
  <1>1. TypeOK
    <2>1. early \in BOOLEAN /\ eager \in BOOLEAN BY DEF Init
    <2>2. sock \in Seq(Event) /\ buffer \in Seq(Event) /\ Len(buffer) <= 1 BY DEF Init
    <2>3. current \in Seq(Posting) /\ posted \in Seq(Posting) /\ Len(current) = 0 BY DEF Init
    <2>4. {queue[i] : i \in DOMAIN queue} \union unacked \subseteq 1 .. told BY DEF Init
    <2> QED BY <2>1, <2>2, <2>3, <2>4, BridgeAssumption DEF Init, TypeOK
  <1>2. CountInv /\ IdInv /\ PartInv /\ LinkInv /\ BufferInv
    BY DEF Init, CountInv, IdInv, PartInv, LinkInv, BufferInv
  <1>3. CurrentInv /\ TenantIsOwn BY DEF Init, CurrentInv, TenantIsOwn
  <1> QED BY <1>1, <1>2, <1>3 DEF Inv

LEMMA NextKeeps ==
  ASSUME Inv, [Next]_vars
  PROVE  Inv'
  <1>1. CASE UNCHANGED vars
    <2> USE DEF Inv, vars, linkVars, eventVars, commandVars
    <2>1. TypeOK' BY <1>1 DEF TypeOK
    <2>2. CountInv' /\ LinkInv' BY <1>1 DEF CountInv, LinkInv
    <2>3. UNCHANGED <<sock, buffer, pc, current, posted, eager, sent, writer>> BY <1>1
    <2> QED BY <2>1, <2>2, <2>3, Quiet
  <1>2. ASSUME NEW t \in Tenants, Emit(t) \/ Deploy(t) \/ Take(t) PROVE Inv'
    BY <1>2, EmitStep, OthersStep, TakeStep
  <1>3. ASSUME NEW n \in 0 .. Len(sock), Stop(n) PROVE Inv'
    BY <1>3, StopStep
  <1>4. CASE Reset \/ Booted \/ Login \/ ReadPart \/ Skip
    BY <1>4, ResetStep, BootedStep, LoginStep, ReadPartStep, SkipStep
  <1>8. CASE Post \/ PostFails
    <2>1. posted' \in {posted, posted \o current} BY <1>8 DEF Post, PostFails
    <2>2. posted' = posted => PostFails \/ posted' = posted \o current BY <1>8 DEF Post
    <2> QED BY <1>8, <2>1, <2>2, PostStep, PostLostStep
  <1>5. CASE \/ StartAsterisk \/ Command \/ Deliver \/ (\E c \in unacked : Acknowledge(c))
             \/ BrokerReconnect
    BY <1>5, OthersStep
  <1>6. CASE Connect \/ ConnectRefused \/ Banner \/ LoginRefused \/ LoginBroken \/ Retry \/ LinkEnds
    BY <1>6, LinkStep
  <1>7. CASE PublishFails \/ Crash \/ Restart BY <1>7, ProcessStep
  <1> QED BY <1>1, <1>2, <1>3, <1>4, <1>5, <1>6, <1>7, <1>8 DEF Next

LEMMA Invariance == Spec => []Inv
  BY Start, NextKeeps, PTL DEF Spec

-----------------------------------------------------------------------------
(* What holds of the bridge                                                *)

\* Every variable keeps its type; who waits to connect has given up its socket,
\* and at most one event is being posted.
THEOREM TypeCorrect == Spec => []TypeOK
  <1>1. Inv => TypeOK BY DEF Inv
  <1> QED BY <1>1, Invariance, PTL

\* EventConsumer posts an event to its own tenant or to one whose domain its
\* own begins with, and whole, in spite of the buffer that outlives the
\* connection; only after a login to an Asterisk still booting is it mixed up.
THEOREM EventsGoToTheirTenant == Spec => []TenantIsOwn
  <1>1. Inv => TenantIsOwn BY DEF Inv
  <1> QED BY <1>1, Invariance, PTL

=============================================================================
