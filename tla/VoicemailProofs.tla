--------------------------- MODULE VoicemailProofs ---------------------------
(***************************************************************************)
(* Theorems about VoicemailDelivery for every set of mailboxes, every      *)
(* choice of faults and every bound.                                       *)
(*                                                                         *)
(* Of the properties only the types are inductive.  Inv adds whose a       *)
(* voicemail is, what the marker still says of the voicemails delivered    *)
(* before, and that a mailbox without a mark has one loss to come.         *)
(***************************************************************************)
EXTENDS VoicemailDelivery, SequenceTheorems, FiniteSetTheorems, TLAPS

\* A POST and the call made of it are one delivery: they share number, mailbox
\* and recording.
RecordInv ==
  /\ \A r \in Records : r.k <= posted
  /\ \A r, s \in Records : r.k = s.k => r.audio = s.audio

\* What is transcribed for a call is its recording.
JobInv ==
  /\ \A j \in jobs \union results :
       j.call <= posted /\ \A r \in Records : r.k = j.call => r.audio = j.audio
  /\ \A c \in open : c.text = None

\* Only what an event found the newest is delivered.
SeenInv == \A r \in Records : r.audio # None => r.audio \in seen[r.mb]

\* A voicemail is of one mailbox.
Owned(mb) == {inbox[mb][i] : i \in DOMAIN inbox[mb]} \union seen[mb]
OwnInv == \A m, n \in Mailboxes : m # n => Owned(m) \cap Owned(n) = {}

\* Unless its newest voicemail was taken away, a mailbox's newest voicemail is
\* the latest of those an event found newest, and the marker, once it says
\* anything, is as late as all that was delivered.
NewestInv == \A mb \in Mailboxes \ reverted : \A v \in seen[mb] : v <= Newest(mb)
MarkInv ==
  \A mb \in Mailboxes : marker[mb] # NoMark =>
    /\ marker[mb].hash \in seen[mb]
    /\ mb \notin reverted => \A r \in Records : r.mb = mb => r.audio <= marker[mb].hash

\* A mailbox without a mark may lose one more without a fault.
Undelivered(mb) == seen[mb] \ Delivered(mb)
ToLose(mb) == IF marker[mb] = NoMark THEN 1 ELSE 0
LostInv == \A mb \in Served : Cardinality(Undelivered(mb)) + ToLose(mb) <= starts + lost

Inv ==
  /\ TypeOK /\ RecordInv /\ JobInv /\ SeenInv /\ OwnInv /\ NewestInv /\ MarkInv /\ LostInv
  /\ DeliveredOnce /\ TranscriptIsOwn

-----------------------------------------------------------------------------
(* Types                                                                   *)

LEMMA RecordType ==
  ASSUME TypeOK, NEW r \in Records
  PROVE  r.k \in Nat /\ r.mb \in Mailboxes /\ r.audio \in Nat
  BY DEF TypeOK, PostTypeOK, InboxTypeOK, Records, Post, Call

\* The newest voicemail of a mailbox that has one is among its own.
LEMMA NewestType ==
  ASSUME TypeOK, NEW mb \in Mailboxes
  PROVE  /\ inbox[mb] \in Seq(1 .. left)
         /\ DOMAIN inbox[mb] = 1 .. File(mb) /\ File(mb) \in Nat
         /\ \A i \in DOMAIN inbox[mb] : inbox[mb][i] \in 1 .. left
         /\ Newest(mb) \in Nat
         /\ Newest(mb) # None => Newest(mb) \in 1 .. left /\ Newest(mb) \in Owned(mb)
  <1>1. inbox[mb] \in Seq(1 .. left) BY DEF TypeOK, DaemonTypeOK
  <1>2. /\ Len(inbox[mb]) \in Nat /\ DOMAIN inbox[mb] = 1 .. Len(inbox[mb])
        /\ \A i \in DOMAIN inbox[mb] : inbox[mb][i] \in 1 .. left
    BY <1>1, LenProperties, ElementOfSeq
  <1>3. inbox[mb] # << >> => File(mb) \in DOMAIN inbox[mb] BY <1>1, <1>2, EmptySeq DEF File
  <1> QED BY <1>1, <1>2, <1>3 DEF Newest, None, Owned, File

\* What is the mailbox's own has been left.
LEMMA OwnedType ==
  ASSUME TypeOK, NEW mb \in Mailboxes
  PROVE  Owned(mb) \subseteq 1 .. left
  BY NewestType DEF Owned, TypeOK, DaemonTypeOK

LEMMA NotifyType ==
  ASSUME TypeOK, NEW mb \in Mailboxes, Notify(mb)
  PROVE  wire' \in Seq(Mailboxes) /\ missed' \subseteq Mailboxes
  <1>1. wire \in Seq(Mailboxes) /\ missed \subseteq Mailboxes BY DEF TypeOK, DaemonTypeOK
  <1>2. Append(wire, mb) \in Seq(Mailboxes) BY <1>1, AppendProperties
  <1> QED BY <1>1, <1>2 DEF Notify

-----------------------------------------------------------------------------
(* Steps of Asterisk                                                       *)

\* What the spool does matters to whose a voicemail is and which is newest;
\* the rest only needs that a mailbox once reverted stays so.
LEMMA SpoolChanges ==
  ASSUME Inv, TypeOK', OwnInv', NewestInv', reverted \subseteq reverted',
         UNCHANGED <<posts, posted, lost, marker, starts, seen, inboxVars>>
  PROVE  Inv'
  <1> USE DEF Inv, inboxVars
  <1>1. UNCHANGED Records BY DEF Records
  <1>2. RecordInv' /\ JobInv' /\ SeenInv' BY <1>1 DEF RecordInv, JobInv, SeenInv
  <1>3. MarkInv' BY <1>1 DEF MarkInv
  <1>4. LostInv' BY <1>1 DEF LostInv, Undelivered, Delivered, ToLose
  <1>5. DeliveredOnce' /\ TranscriptIsOwn' BY <1>1 DEF DeliveredOnce, TranscriptIsOwn
  <1> QED BY <1>2, <1>3, <1>4, <1>5

LEMMA LeaveStep ==
  ASSUME Inv, NEW mb \in Mailboxes, Leave(mb), UNCHANGED inboxVars
  PROVE  Inv'
  <1> USE DEF Inv
  <1>1. TypeOK /\ left \in Nat BY DEF TypeOK, DaemonTypeOK
  <1>2. /\ left' = left + 1 /\ inbox' = [inbox EXCEPT ![mb] = Append(@, left + 1)]
        /\ UNCHANGED <<posts, posted, lost, faults, marker, starts, seen, reverted, inboxVars>>
        /\ UNCHANGED <<changes, link, waiting>>
    BY DEF Leave, postVars
  <1>3. \A m \in Mailboxes : inbox[m] \in Seq(1 .. left')
    BY <1>1, <1>2, NewestType, SeqMonotonic, 1 .. left \subseteq 1 .. left + 1
  <1>4. /\ inbox'[mb] \in Seq(1 .. left') /\ Len(inbox'[mb]) = File(mb) + 1
        /\ \A i \in 1 .. File(mb) + 1 :
             inbox'[mb][i] = IF i <= File(mb) THEN inbox[mb][i] ELSE left + 1
    BY <1>1, <1>2, <1>3, AppendProperties DEF File, TypeOK, DaemonTypeOK
  <1>5. \A m \in Mailboxes \ {mb} : inbox'[m] = inbox[m]
    BY <1>1, <1>2 DEF TypeOK, DaemonTypeOK
  <1>6. inbox' \in [Mailboxes -> Seq(1 .. left')]
    BY <1>1, <1>2, <1>3, <1>4, <1>5 DEF TypeOK, DaemonTypeOK
  <1>7. TypeOK'
    <2>1. wire' \in Seq(Mailboxes) /\ missed' \subseteq Mailboxes
      BY <1>1, NotifyType DEF Leave
    <2>2. seen' \in [Mailboxes -> SUBSET (1 .. left')] BY <1>1, <1>2 DEF TypeOK, DaemonTypeOK
    <2> QED BY <1>1, <1>2, <1>6, <2>1, <2>2
          DEF TypeOK, PostTypeOK, DaemonTypeOK, InboxTypeOK, inboxVars
  <1>8. OwnInv'
    <2>1. \A m \in Mailboxes : Owned(m)' \subseteq Owned(m) \union (IF m = mb THEN {left + 1} ELSE {})
      <3>1. DOMAIN inbox'[mb] = 1 .. File(mb) + 1 /\ DOMAIN inbox[mb] = 1 .. File(mb) /\ File(mb) \in Nat
        BY <1>1, <1>4, LenProperties, NewestType
      <3>2. Owned(mb)' \subseteq Owned(mb) \union {left + 1} BY <1>2, <1>4, <3>1 DEF Owned
      <3>3. \A m \in Mailboxes \ {mb} : Owned(m)' = Owned(m) BY <1>2, <1>5 DEF Owned
      <3> QED BY <3>2, <3>3
    <2>2. \A m \in Mailboxes : left + 1 \notin Owned(m) BY <1>1, OwnedType
    <2> QED BY <2>1, <2>2 DEF OwnInv
  <1>9. NewestInv'
    <2>1. Newest(mb)' = left + 1
      <3>1. inbox'[mb] # << >> BY <1>1, <1>4, NewestType
      <3>2. inbox'[mb][File(mb) + 1] = left + 1 BY <1>1, <1>4, NewestType
      <3> QED BY <1>4, <3>1, <3>2 DEF Newest, File
    <2>2. \A v \in seen[mb] : v <= left + 1 BY <1>1 DEF TypeOK, DaemonTypeOK
    <2>3. \A m \in Mailboxes \ {mb} : Newest(m)' = Newest(m) BY <1>5 DEF Newest, File
    <2> QED BY <1>2, <2>1, <2>2, <2>3 DEF NewestInv
  <1> QED BY <1>2, <1>7, <1>8, <1>9, SpoolChanges

\* Taking a voicemail away before the newest one only shifts the numbers.
LEMMA ChangeStep ==
  ASSUME Inv, NEW mb \in Mailboxes, NEW i \in Nat, i <= File(mb), Change(mb, i),
         UNCHANGED inboxVars
  PROVE  Inv'
  <1> USE DEF Inv
  <1>1. /\ inbox[mb] # << >> /\ changes' = changes + 1
        /\ inbox' = IF i = 0 THEN inbox ELSE [inbox EXCEPT ![mb] = Without(@, i)]
        /\ reverted' = IF i = File(mb) THEN reverted \union {mb} ELSE reverted
        /\ UNCHANGED <<posts, posted, lost, faults, marker, starts, seen, inboxVars>>
        /\ UNCHANGED <<left, link, waiting>>
    BY DEF Change, postVars
  <1> DEFINE s == inbox[mb]
             w == Without(s, i)
  <1>2. /\ s \in Seq(1 .. left) /\ Len(s) \in Nat \ {0} /\ DOMAIN s = 1 .. Len(s)
        /\ \A j \in DOMAIN s : s[j] \in 1 .. left
    BY <1>1, NewestType, EmptySeq, LenProperties
  <1>3. /\ w \in Seq(1 .. left) /\ Len(w) = Len(s) - 1 /\ DOMAIN w = 1 .. Len(s) - 1
        /\ \A j \in 1 .. Len(s) - 1 : w[j] = IF j < i THEN s[j] ELSE s[j + 1]
    <2> DEFINE e(j) == IF j < i THEN s[j] ELSE s[j + 1]
    <2>1. \A j \in 1 .. Len(s) - 1 : e(j) \in 1 .. left BY <1>2
    <2>2. Len(s) - 1 \in Nat BY <1>2
    <2>3. w = [j \in 1 .. Len(s) - 1 |-> e(j)] BY DEF Without
    <2>4. w \in [1 .. Len(s) - 1 -> 1 .. left] BY <2>1, <2>3
    <2>5. w \in Seq(1 .. left) BY <2>2, <2>4, SeqDef
    <2> QED BY <2>2, <2>3, <2>5, LenProperties
  <1>4. \A m \in Mailboxes :
          \/ inbox'[m] = inbox[m]
          \/ m = mb /\ i # 0 /\ inbox'[m] = w
    BY <1>1 DEF TypeOK, DaemonTypeOK
  <1>5. inbox' \in [Mailboxes -> Seq(1 .. left)]
    BY <1>1, <1>3 DEF TypeOK, DaemonTypeOK
  <1>6. TypeOK'
    <2>1. wire' \in Seq(Mailboxes) /\ missed' \subseteq Mailboxes BY NotifyType DEF Change
    <2>2. reverted' \subseteq Mailboxes BY <1>1 DEF TypeOK, DaemonTypeOK
    <2> QED BY <1>1, <1>5, <2>1, <2>2
          DEF TypeOK, PostTypeOK, DaemonTypeOK, InboxTypeOK, inboxVars
  <1>7. OwnInv'
    <2>1. \A j \in DOMAIN w : \E l \in DOMAIN s : w[j] = s[l]
      <3> SUFFICES ASSUME NEW j \in DOMAIN w PROVE \E l \in DOMAIN s : w[j] = s[l] OBVIOUS
      <3>1. j \in DOMAIN s /\ j + 1 \in DOMAIN s BY <1>2, <1>3
      <3>2. w[j] = s[j] \/ w[j] = s[j + 1] BY <1>3
      <3> QED BY <3>1, <3>2
    <2>2. \A m \in Mailboxes : Owned(m)' \subseteq Owned(m) BY <1>1, <1>4, <2>1 DEF Owned
    <2> QED BY <2>2 DEF OwnInv
  <1>8. NewestInv'
    <2> SUFFICES ASSUME NEW m \in Mailboxes, m \notin reverted', NEW v \in seen[m]
                 PROVE  v <= Newest(m)'
      BY <1>1 DEF NewestInv
    <2>1. v <= Newest(m) BY <1>1 DEF NewestInv
    <2>2. CASE inbox'[m] = inbox[m] BY <2>1, <2>2 DEF Newest, File
    <2>3. CASE m = mb /\ i # 0 /\ inbox'[m] = w
      <3>1. i < Len(s) BY <1>1, <1>2, <2>3 DEF File
      <3>2. Len(w) \in 1 .. Len(s) - 1 /\ ~ (Len(w) < i) /\ Len(w) + 1 = Len(s) BY <1>2, <1>3, <2>3, <3>1
      <3>3. w[Len(w)] = s[Len(s)] BY <1>3, <3>2
      <3>4. w # << >> BY <3>2
      <3> QED BY <1>1, <2>1, <2>3, <3>3, <3>4 DEF Newest, File
    <2> QED BY <1>4, <2>2, <2>3
  <1> QED BY <1>1, <1>6, <1>7, <1>8, SpoolChanges

-----------------------------------------------------------------------------
(* Counting                                                                *)

LEMMA NoMore ==
  ASSUME NEW S, NEW T, IsFiniteSet(S), T \subseteq S
  PROVE  Cardinality(S) \in Nat /\ Cardinality(T) \in Nat /\ Cardinality(T) <= Cardinality(S)
  BY FS_Subset, FS_CardinalityType

LEMMA OneMore ==
  ASSUME NEW S, NEW T, NEW x, IsFiniteSet(S), T \subseteq S \union {x}
  PROVE  Cardinality(S) \in Nat /\ Cardinality(T) \in Nat /\ Cardinality(T) <= Cardinality(S) + 1
  <1>1. IsFiniteSet(S \union {x}) /\ Cardinality(S \union {x}) \in {Cardinality(S), Cardinality(S) + 1}
    BY FS_AddElement
  <1>2. Cardinality(S) \in Nat BY FS_CardinalityType
  <1>3. Cardinality(T) \in Nat /\ Cardinality(T) <= Cardinality(S \union {x})
    BY <1>1, NoMore
  <1> QED BY <1>1, <1>2, <1>3

LEMMA UndeliveredFinite ==
  ASSUME TypeOK, NEW mb \in Mailboxes
  PROVE  IsFiniteSet(Undelivered(mb))
  <1>1. left \in Nat /\ Undelivered(mb) \subseteq 1 .. left
    BY DEF Undelivered, TypeOK, DaemonTypeOK
  <1>2. IsFiniteSet(1 .. left) BY <1>1, FS_Interval
  <1> QED BY <1>1, <1>2, FS_Subset

-----------------------------------------------------------------------------
(* An event is handled                                                     *)

\* The newest voicemail is delivered once: if it was, the marker would say so.
LEMMA HandleStep ==
  ASSUME Inv, NEW mb \in Mailboxes, Repeat(mb) \/ Seed(mb) \/ Send(mb), UNCHANGED inboxVars
  PROVE  Inv'
  <1> USE DEF Inv, inboxVars
  <1>1. PICK audio \in {None, Newest(mb)} :
          /\ Handle(mb, audio)
          /\ \/ /\ audio = None /\ marker' = marker
                /\ Newest(mb) = None \/ marker[mb].hash = Newest(mb)
             \/ /\ audio = None /\ Remember(mb)
                /\ Newest(mb) # None /\ marker[mb] = NoMark
             \/ /\ audio = Newest(mb) /\ Remember(mb)
                /\ Newest(mb) # None /\ marker[mb] # NoMark /\ marker[mb].hash # Newest(mb)
    BY DEF Repeat, Seed, Send, IsNew
  <1> DEFINE new == [k |-> posted + 1, mb |-> mb, msg |-> Newest(mb), audio |-> audio]
  <1>2. /\ wire # << >> /\ wire' = Tail(wire)
        /\ posted' = posted + 1 /\ posts' = posts \union {new} /\ waiting' = posted + 1
        /\ seen' = [seen EXCEPT ![mb] = @ \union ({Newest(mb)} \ {None})]
        /\ UNCHANGED <<inbox, left, changes, link, starts, reverted, missed, lost, faults>>
    BY <1>1 DEF Handle, spoolVars
  <1>3. posted \in Nat /\ Newest(mb) \in Nat /\ audio \in Nat
    BY NewestType DEF TypeOK, PostTypeOK, None
  <1>4. new \in Post /\ new.k = posted + 1 /\ new.mb = mb /\ new.audio = audio
    BY <1>3 DEF Post
  <1> HIDE DEF new
  <1>5. Records' = Records \union {new} BY <1>2 DEF Records
  <1>6. \A r \in Records : r.k \in Nat /\ r.mb \in Mailboxes /\ r.audio \in Nat BY RecordType
  <1>7. /\ \A m \in Mailboxes \ {mb} : seen'[m] = seen[m]
        /\ seen'[mb] = seen[mb] \union ({Newest(mb)} \ {None})
    BY <1>2 DEF TypeOK, DaemonTypeOK
  <1>8. UNCHANGED marker \/ Remember(mb) BY <1>1
  <1>9. /\ \A m \in Mailboxes \ {mb} : marker'[m] = marker[m]
        /\ Remember(mb) => marker'[mb].hash = Newest(mb)
    BY <1>8 DEF Remember, TypeOK, DaemonTypeOK
  <1>10. TypeOK'
    <2>1. wire' \in Seq(Mailboxes) BY <1>2, HeadTailProperties DEF TypeOK, DaemonTypeOK
    <2>2. marker' \in [Mailboxes -> Mark]
      <3>1. [file |-> File(mb), hash |-> Newest(mb)] \in Mark BY NewestType DEF Mark
      <3> QED BY <1>8, <3>1 DEF Remember, TypeOK, DaemonTypeOK
    <2>3. Newest(mb) = None \/ Newest(mb) \in 1 .. left BY NewestType
    <2>4. seen' \in [Mailboxes -> SUBSET (1 .. left)] BY <1>2, <2>3 DEF TypeOK, DaemonTypeOK
    <2> QED BY <1>2, <1>3, <1>4, <2>1, <2>2, <2>4
          DEF TypeOK, PostTypeOK, DaemonTypeOK, InboxTypeOK
  <1>11. RecordInv' BY <1>2, <1>3, <1>4, <1>5, <1>6 DEF RecordInv
  <1>12. JobInv'
    <2>1. \A j \in jobs \union results : j.call \in Nat
      BY DEF TypeOK, InboxTypeOK, Job
    <2> QED BY <1>2, <1>3, <1>4, <1>5, <2>1 DEF JobInv
  <1>13. SeenInv'
    <2> SUFFICES ASSUME NEW r \in Records', r.audio # None PROVE r.audio \in seen'[r.mb]
      BY DEF SeenInv
    <2>1. CASE r \in Records BY <1>6, <1>7, <2>1 DEF SeenInv
    <2>2. CASE r = new BY <1>4, <1>7, <2>2
    <2> QED BY <1>5, <2>1, <2>2
  <1>14. OwnInv'
    <2>1. Newest(mb) # None => Newest(mb) \in Owned(mb) BY NewestType
    <2>2. \A m \in Mailboxes : Owned(m)' = Owned(m) BY <1>2, <1>7, <2>1 DEF Owned
    <2> QED BY <2>2 DEF OwnInv
  <1>15. \A m \in Mailboxes : Newest(m)' = Newest(m) BY <1>2 DEF Newest, File
  <1>16. NewestInv' BY <1>2, <1>3, <1>7, <1>15 DEF NewestInv
  <1>17. MarkInv'
    <2> SUFFICES ASSUME NEW m \in Mailboxes, marker'[m] # NoMark
                 PROVE  /\ marker'[m].hash \in seen'[m]
                        /\ m \notin reverted => \A r \in Records' : r.mb = m => r.audio <= marker'[m].hash
      BY <1>2 DEF MarkInv
    <2>1. CASE m # mb BY <1>4, <1>5, <1>7, <1>9, <2>1 DEF MarkInv
    <2>2. CASE m = mb /\ marker' = marker /\ audio = None
      <3>1. marker[mb].hash \in Nat BY DEF TypeOK, DaemonTypeOK, Mark
      <3> QED BY <1>4, <1>5, <1>7, <2>2, <3>1 DEF MarkInv, None
    <2>3. CASE m = mb /\ Remember(mb) /\ Newest(mb) # None
      <3>1. marker'[mb].hash \in seen'[mb] BY <1>7, <1>9, <2>3
      <3>2. ASSUME mb \notin reverted, NEW r \in Records', r.mb = mb PROVE r.audio <= Newest(mb)
        <4>1. CASE r = new BY <1>1, <1>3, <1>4, <4>1 DEF None
        <4>2. CASE r \in Records
          <5>1. r.audio = None \/ r.audio \in seen[mb] BY <3>2, <4>2 DEF SeenInv
          <5> QED BY <1>3, <3>2, <5>1 DEF NewestInv, None
        <4> QED BY <1>5, <4>1, <4>2
      <3> QED BY <1>9, <2>3, <3>1, <3>2
    <2> QED BY <1>1, <2>1, <2>2, <2>3
  <1>18. LostInv'
    <2> SUFFICES ASSUME NEW m \in Served
                 PROVE  Cardinality(Undelivered(m)') + ToLose(m)' <= starts + lost
      BY <1>2 DEF LostInv
    <2>1. m \in Mailboxes BY InboxAssumption
    <2>2. IsFiniteSet(Undelivered(m)) BY <2>1, UndeliveredFinite
    <2>3. Cardinality(Undelivered(m)) + ToLose(m) <= starts + lost BY DEF LostInv
    <2>4. starts \in Nat /\ lost \in Nat /\ ToLose(m) \in 0 .. 1 /\ ToLose(m)' \in 0 .. 1
      BY DEF ToLose, TypeOK, DaemonTypeOK, PostTypeOK
    <2>5. Delivered(m) \subseteq Delivered(m)' BY <1>5 DEF Delivered
    <2>6. ASSUME Undelivered(m)' \subseteq Undelivered(m), ToLose(m)' <= ToLose(m)
          PROVE  Cardinality(Undelivered(m)') + ToLose(m)' <= starts + lost
      BY <2>2, <2>3, <2>4, <2>6, NoMore
    <2>7. CASE m # mb
      BY <1>7, <1>9, <2>1, <2>5, <2>6, <2>7 DEF Undelivered, ToLose
    <2>8. CASE m = mb /\ audio = None /\ marker' = marker /\ (Newest(mb) = None \/ marker[mb].hash = Newest(mb))
      <3>1. Newest(mb) # None => marker[mb].hash \in seen[mb]
        BY <2>8 DEF MarkInv, NoMark
      <3>2. seen'[mb] = seen[mb] BY <1>7, <2>8, <3>1
      <3> QED BY <2>4, <2>5, <2>6, <2>8, <3>2 DEF Undelivered, ToLose
    <2>9. CASE m = mb /\ Remember(mb) /\ Newest(mb) # None /\ marker[mb] = NoMark
      <3>1. Undelivered(m)' \subseteq Undelivered(m) \union {Newest(mb)}
        BY <1>7, <2>5, <2>9 DEF Undelivered
      <3>2. ToLose(m) = 1 /\ ToLose(m)' = 0 BY <1>9, <2>9 DEF ToLose, NoMark
      <3>3. /\ Cardinality(Undelivered(m)) \in Nat /\ Cardinality(Undelivered(m)') \in Nat
            /\ Cardinality(Undelivered(m)') <= Cardinality(Undelivered(m)) + 1
        BY <2>2, <3>1, OneMore
      <3> QED BY <2>3, <2>4, <3>2, <3>3
    <2>10. CASE m = mb /\ Remember(mb) /\ Newest(mb) # None /\ audio = Newest(mb)
      <3>1. Newest(mb) \in Delivered(m)' BY <1>4, <1>5, <2>10 DEF Delivered
      <3>2. Undelivered(m)' \subseteq Undelivered(m)
        BY <1>7, <2>5, <2>10, <3>1 DEF Undelivered
      <3>3. ToLose(m)' = 0 BY <1>9, <2>10 DEF ToLose, NoMark
      <3> QED BY <2>4, <2>6, <3>2, <3>3
    <2> QED BY <1>1, <2>7, <2>8, <2>9, <2>10
  <1>19. ASSUME NEW r \in Records, r.audio = audio, audio # None, mb \notin reverted \/ r.mb \notin reverted
         PROVE  FALSE
    <2>1. audio = Newest(mb) /\ marker[mb] # NoMark /\ marker[mb].hash # Newest(mb) BY <1>1, <1>19
    <2>2. r.audio \in Owned(r.mb) BY <1>19 DEF SeenInv, Owned
    <2>3. r.audio \in Owned(mb) BY <1>19, <2>1, NewestType
    <2>4. r.mb = mb BY <1>6, <2>2, <2>3 DEF OwnInv
    <2>5. r.audio <= marker[mb].hash /\ marker[mb].hash <= Newest(mb)
      BY <1>19, <2>1, <2>4 DEF MarkInv, NewestInv
    <2>6. marker[mb].hash \in Nat BY DEF TypeOK, DaemonTypeOK, Mark
    <2> QED BY <1>3, <1>19, <2>1, <2>5, <2>6
  <1>20. DeliveredOnce'
    <2> SUFFICES ASSUME NEW r \in Records', NEW s \in Records',
                        r.audio # None, r.audio = s.audio, r.mb \notin reverted
                 PROVE  r.k = s.k
      BY <1>2 DEF DeliveredOnce
    <2>1. CASE r \in Records /\ s \in Records BY <2>1 DEF DeliveredOnce
    <2>2. CASE r = new /\ s \in Records BY <1>4, <1>19, <2>2
    <2>3. CASE r \in Records /\ s = new BY <1>4, <1>19, <2>3
    <2> QED BY <1>5, <2>1, <2>2, <2>3
  <1>21. TranscriptIsOwn' BY DEF TranscriptIsOwn
  <1> QED BY <1>10, <1>11, <1>12, <1>13, <1>14, <1>16, <1>17, <1>18, <1>20, <1>21

-----------------------------------------------------------------------------
(* A delivery goes on or is lost                                           *)

Same(r, s) == r.k = s.k /\ r.mb = s.mb /\ r.audio = s.audio
NothingNew == \A r \in Records' : \E s \in Records : Same(r, s)

\* As long as nothing new is delivered, what was delivered stays as it was.
LEMMA OldRecords ==
  ASSUME Inv, NothingNew, UNCHANGED <<inbox, posted, seen, reverted>>,
         marker' = marker \/ marker' = [mb \in Mailboxes |-> NoMark]
  PROVE  RecordInv' /\ SeenInv' /\ OwnInv' /\ NewestInv' /\ MarkInv' /\ DeliveredOnce'
  <1> USE DEF Inv, NothingNew, Same
  <1>1. RecordInv' BY DEF RecordInv
  <1>2. SeenInv' BY DEF SeenInv
  <1>3. OwnInv' BY DEF OwnInv, Owned
  <1>4. NewestInv' BY DEF NewestInv, Newest, File
  <1>5. MarkInv' BY DEF MarkInv
  <1>6. DeliveredOnce' BY DEF DeliveredOnce
  <1> QED BY <1>1, <1>2, <1>3, <1>4, <1>5, <1>6

LEMMA OldJobs ==
  ASSUME Inv, NothingNew, posted' = posted, open' \subseteq open,
         jobs' \union results' \subseteq jobs \union results
  PROVE  JobInv'
  BY DEF Inv, JobInv, NothingNew, Same

\* Each recording that gets lost is counted, and so is each start, after which
\* every mailbox may lose one more.
LEMMA LossCounted ==
  ASSUME Inv, UNCHANGED seen, NEW audio \in Nat, Lose(audio),
         \A mb \in Served : Delivered(mb) \subseteq Delivered(mb)' \union ({audio} \ {None}),
         UNCHANGED <<marker, starts>> \/ starts' = starts + 1
  PROVE  LostInv'
  <1> USE DEF Inv
  <1> SUFFICES ASSUME NEW mb \in Served
               PROVE  Cardinality(Undelivered(mb)') + ToLose(mb)' <= starts' + lost'
    BY DEF LostInv
  <1>1. IsFiniteSet(Undelivered(mb)) BY InboxAssumption, UndeliveredFinite
  <1>2. Cardinality(Undelivered(mb)) + ToLose(mb) <= starts + lost BY DEF LostInv
  <1>3. starts \in Nat /\ lost \in Nat /\ ToLose(mb) \in 0 .. 1 /\ ToLose(mb)' \in 0 .. 1
    BY DEF ToLose, TypeOK, DaemonTypeOK, PostTypeOK
  <1>4. starts + ToLose(mb)' <= starts' + ToLose(mb) BY <1>3 DEF ToLose
  <1>5. starts' \in Nat BY <1>3
  <1>6. CASE audio = None
    <2>1. Undelivered(mb)' \subseteq Undelivered(mb) BY <1>6 DEF Undelivered
    <2>2. /\ Cardinality(Undelivered(mb)) \in Nat /\ Cardinality(Undelivered(mb)') \in Nat
          /\ Cardinality(Undelivered(mb)') <= Cardinality(Undelivered(mb))
      BY <1>1, <2>1, NoMore
    <2>3. lost' = lost BY <1>6 DEF Lose
    <2> QED BY <1>2, <1>3, <1>4, <1>5, <2>2, <2>3
  <1>7. CASE audio # None
    <2>1. Undelivered(mb)' \subseteq Undelivered(mb) \union {audio} BY DEF Undelivered
    <2>2. /\ Cardinality(Undelivered(mb)) \in Nat /\ Cardinality(Undelivered(mb)') \in Nat
          /\ Cardinality(Undelivered(mb)') <= Cardinality(Undelivered(mb)) + 1
      BY <1>1, <2>1, OneMore
    <2>3. lost' = lost + 1 BY <1>7 DEF Lose
    <2> QED BY <1>2, <1>3, <1>4, <1>5, <2>2, <2>3
  <1> QED BY <1>6, <1>7

\* The daemon waits, goes on, loses the link or gets it back.
LEMMA WaitStep ==
  ASSUME Inv, UNCHANGED inboxVars,
         \/ Answered(OpenPosts) \/ GiveUp(OpenPosts) \/ LinkUp
         \/ \E n \in 0 .. Len(wire) : LinkDown(n)
  PROVE  Inv'
  <1> USE DEF Inv, inboxVars, spoolVars, historyVars, postVars
  <1>1. UNCHANGED <<inbox, left, changes, posts, posted, lost, marker, starts, seen, reverted, inboxVars>>
    BY DEF Answered, GiveUp, LinkUp, LinkDown
  <1>2. TypeOK'
    <2>1. CASE Answered(OpenPosts) \/ GiveUp(OpenPosts) \/ LinkUp
      <3>1. UNCHANGED <<wire, missed>> BY <2>1 DEF Answered, GiveUp, LinkUp
      <3>2. link' \in BOOLEAN BY <2>1 DEF Answered, GiveUp, LinkUp, TypeOK, DaemonTypeOK
      <3>3. waiting' \in {None, waiting} BY <2>1 DEF Answered, GiveUp, LinkUp
      <3>4. faults' \in Nat BY <2>1 DEF Answered, GiveUp, LinkUp, Fault, TypeOK, PostTypeOK
      <3> QED BY <1>1, <3>1, <3>2, <3>3, <3>4
            DEF TypeOK, PostTypeOK, DaemonTypeOK, InboxTypeOK, None
    <2>2. ASSUME NEW n \in 0 .. Len(wire), LinkDown(n) PROVE TypeOK'
      <3>1. /\ wire \in Seq(Mailboxes) /\ Len(wire) \in Nat
            /\ \A i \in 1 .. Len(wire) : wire[i] \in Mailboxes
        BY LenProperties, ElementOfSeq DEF TypeOK, DaemonTypeOK
      <3>2. SubSeq(wire, 1, n) \in Seq(Mailboxes) BY <3>1, SubSeqProperties
      <3>3. missed' \subseteq Mailboxes BY <2>2, <3>1 DEF LinkDown, TypeOK, DaemonTypeOK
      <3>4. wire' \in Seq(Mailboxes) /\ UNCHANGED waiting /\ link' \in BOOLEAN
        BY <2>2, <3>2 DEF LinkDown
      <3>5. faults' \in Nat BY <2>2 DEF LinkDown, Fault, TypeOK, PostTypeOK
      <3> QED BY <3>5, <1>1, <3>3, <3>4 DEF TypeOK, PostTypeOK, DaemonTypeOK, InboxTypeOK
    <2> QED BY <2>1, <2>2
  <1>3. OwnInv' BY <1>1 DEF OwnInv, Owned
  <1>4. NewestInv' BY <1>1 DEF NewestInv, Newest, File
  <1> QED BY <1>1, <1>2, <1>3, <1>4, SpoolChanges

LEMMA LosePostStep ==
  ASSUME Inv, NEW p \in posts, LosePost(p), UNCHANGED inboxVars
  PROVE  Inv'
  <1> USE DEF Inv, inboxVars, spoolVars, historyVars
  <1>1. /\ posts' = posts \ {p} /\ Lose(p.audio) /\ waiting' \in {None, waiting} /\ Fault("lost_post")
        /\ UNCHANGED <<inbox, left, changes, link, wire, marker, starts, seen, reverted, missed, posted, inboxVars>>
    BY DEF LosePost
  <1>2. p \in Records /\ p.audio \in Nat BY RecordType DEF Records
  <1>3. Records' \subseteq Records /\ Records \subseteq Records' \union {p} BY <1>1 DEF Records
  <1>4. NothingNew BY <1>3 DEF NothingNew, Same
  <1>5. TypeOK'
    BY <1>1 DEF TypeOK, PostTypeOK, DaemonTypeOK, InboxTypeOK, Fault, Lose, None
  <1>6. \A mb \in Served : Delivered(mb) \subseteq Delivered(mb)' \union ({p.audio} \ {None})
    BY <1>3 DEF Delivered
  <1>7. LostInv' BY <1>1, <1>2, <1>6, LossCounted
  <1>8. JobInv' /\ TranscriptIsOwn' BY <1>1, <1>4, OldJobs DEF TranscriptIsOwn
  <1> QED BY <1>1, <1>4, <1>5, <1>7, <1>8, OldRecords

\* The new daemon has no marks; at most the POST that was to be sent is lost.
LEMMA RestartStep ==
  ASSUME Inv, Restart, UNCHANGED inboxVars
  PROVE  Inv'
  <1> USE DEF Inv, inboxVars, spoolVars
  <1>1. /\ Fault("restart") /\ marker' = [mb \in Mailboxes |-> NoMark] /\ waiting' = None
        /\ link' = TRUE /\ wire' = << >> /\ starts' = starts + 1 /\ missed' = Mailboxes
        /\ UNCHANGED <<inbox, left, changes, seen, reverted, posted, inboxVars>>
    BY DEF Restart
  <1>2. \/ UNCHANGED <<posts, lost>>
        \/ \E p \in posts : posts' = posts \ {p} /\ Lose(p.audio)
    BY DEF Restart
  <1>3. Records' \subseteq Records BY <1>1, <1>2 DEF Records
  <1>4. NothingNew BY <1>3 DEF NothingNew, Same
  <1>5. TypeOK'
    <2>1. posts' \subseteq Post /\ lost' \in Nat BY <1>2 DEF TypeOK, PostTypeOK, Lose
    <2>2. [mb \in Mailboxes |-> NoMark] \in [Mailboxes -> Mark] BY DEF NoMark, None, Mark
    <2>3. << >> \in Seq(Mailboxes) OBVIOUS
    <2> QED BY <1>1, <2>1, <2>2, <2>3
          DEF TypeOK, PostTypeOK, DaemonTypeOK, InboxTypeOK, Fault, None
  <1>6. LostInv'
    <2>1. CASE UNCHANGED <<posts, lost>>
      <3>1. \A mb \in Served : Delivered(mb) \subseteq Delivered(mb)' \union ({None} \ {None})
        BY <1>1, <2>1 DEF Delivered, Records
      <3>2. Lose(None) /\ None \in Nat BY <2>1 DEF Lose, None
      <3> QED BY <1>1, <3>1, <3>2, LossCounted
    <2>2. ASSUME NEW p \in posts, posts' = posts \ {p}, Lose(p.audio) PROVE LostInv'
      <3>1. p.audio \in Nat BY RecordType DEF Records
      <3>2. Records \subseteq Records' \union {p} BY <1>1, <2>2 DEF Records
      <3>3. \A mb \in Served : Delivered(mb) \subseteq Delivered(mb)' \union ({p.audio} \ {None})
        BY <3>2 DEF Delivered
      <3> QED BY <1>1, <2>2, <3>1, <3>3, LossCounted
    <2> QED BY <1>2, <2>1, <2>2
  <1>7. JobInv' /\ TranscriptIsOwn' BY <1>1, <1>4, OldJobs DEF TranscriptIsOwn
  <1> QED BY <1>1, <1>4, <1>5, <1>6, <1>7, OldRecords

-----------------------------------------------------------------------------
(* Steps of Odoo and of the transcriber                                    *)

\* What Odoo does takes nothing from the daemon but the POST.
LEMMA InboxSteps ==
  ASSUME TypeOK, UNCHANGED daemonVars, UNCHANGED posted, posts' \subseteq posts,
         lost' \in {lost, lost + 1}, faults' \in {faults, faults + 1}, InboxTypeOK'
  PROVE  TypeOK'
  BY DEF TypeOK, PostTypeOK, DaemonTypeOK, daemonVars, spoolVars, historyVars

LEMMA SameSpool ==
  ASSUME UNCHANGED daemonVars
  PROVE  UNCHANGED <<inbox, seen, reverted, marker, starts>>
  BY DEF daemonVars, spoolVars, historyVars

LEMMA NothingLost ==
  ASSUME Inv, UNCHANGED daemonVars, UNCHANGED lost,
         \A mb \in Served : Delivered(mb) \subseteq Delivered(mb)'
  PROVE  LostInv'
  <1>1. Lose(None) /\ None \in Nat BY DEF Lose, None
  <1> QED BY <1>1, SameSpool, LossCounted

LEMMA BeginStep ==
  ASSUME Inv, NEW p \in posts, Begin(p), UNCHANGED daemonVars
  PROVE  Inv'
  <1> USE DEF Inv
  <1> DEFINE c == [k |-> p.k, mb |-> p.mb, msg |-> p.msg, audio |-> p.audio, text |-> None]
             asked == {[call |-> p.k, audio |-> p.audio, by |-> who] : who \in Askers(p)}
  <1>1. /\ posts' = posts \ {p} /\ open' = IF p.mb \in Served THEN open \union {c} ELSE open
        /\ jobs' \in {jobs, jobs \union asked} /\ faults' \in {faults, faults + 1}
        /\ UNCHANGED <<calls, results, posted, lost>>
    BY DEF Begin, Fault
  <1>2. p \in Post /\ p \in Records BY DEF TypeOK, PostTypeOK, Records
  <1>3. c \in Call /\ Same(c, p) /\ c.text = None BY <1>2 DEF Post, Call, None, Same
  <1>4. \A j \in asked : j \in Job /\ j.call = p.k /\ j.audio = p.audio
    <2>1. Askers(p) \subseteq {"service", "hook"} /\ (Askers(p) # {} => p.audio # None)
      BY DEF Askers
    <2> QED BY <1>2, <2>1 DEF Post, Job
  <1> HIDE DEF c, asked
  <1>5. TypeOK'
    <2>1. InboxTypeOK' BY <1>1, <1>3, <1>4 DEF TypeOK, InboxTypeOK
    <2> QED BY <1>1, <2>1, InboxSteps
  <1>6. NothingNew BY <1>1, <1>2, <1>3 DEF NothingNew, Records, Same
  <1>7. JobInv'
    <2>1. \A r \in Records : r.k = p.k => r.audio = p.audio BY <1>2 DEF RecordInv
    <2>2. p.k <= posted BY <1>2 DEF RecordInv
    <2>3. \A r \in Records' : r.k = p.k => r.audio = p.audio BY <1>6, <2>1 DEF NothingNew, Same
    <2>4. \A j \in jobs \union results : \A r \in Records' : r.k = j.call => r.audio = j.audio
      BY <1>6 DEF NothingNew, Same, JobInv
    <2> QED BY <1>1, <1>3, <1>4, <2>2, <2>3, <2>4 DEF JobInv
  <1>8. LostInv'
    <2>1. \A mb \in Served : Delivered(mb) \subseteq Delivered(mb)'
      <3> SUFFICES ASSUME NEW mb \in Served, NEW r \in Records, r.mb = mb
                   PROVE  \E s \in Records' : s.mb = mb /\ s.audio = r.audio
        BY DEF Delivered
      <3>1. CASE r = p BY <1>1, <1>3, <3>1 DEF Records, Same
      <3>2. CASE r # p BY <1>1, <3>2 DEF Records
      <3> QED BY <3>1, <3>2
    <2> QED BY <1>1, <2>1, NothingLost
  <1>9. TranscriptIsOwn' BY <1>1 DEF TranscriptIsOwn
  <1> QED BY <1>1, <1>5, <1>6, <1>7, <1>8, <1>9, SameSpool, OldRecords

LEMMA CommitStep ==
  ASSUME Inv, NEW c \in open, CommitCall(c), UNCHANGED daemonVars
  PROVE  Inv'
  <1> USE DEF Inv
  <1>1. /\ open' = open \ {c} /\ calls' = calls \union {c}
        /\ UNCHANGED <<jobs, results, posts, posted, lost, faults>>
    BY DEF CommitCall, postVars
  <1>2. Records' = Records BY <1>1 DEF Records
  <1>3. NothingNew BY <1>2 DEF NothingNew, Same
  <1>4. TypeOK'
    <2>1. InboxTypeOK' BY <1>1 DEF TypeOK, InboxTypeOK
    <2> QED BY <1>1, <2>1, InboxSteps
  <1>5. JobInv' BY <1>1, <1>3, OldJobs
  <1>6. LostInv'
    <2>1. \A mb \in Served : Delivered(mb) \subseteq Delivered(mb)' BY <1>2 DEF Delivered
    <2> QED BY <1>1, <2>1, NothingLost
  <1>7. TranscriptIsOwn' BY <1>1 DEF TranscriptIsOwn, JobInv
  <1> QED BY <1>1, <1>3, <1>4, <1>5, <1>6, <1>7, SameSpool, OldRecords

LEMMA FailStep ==
  ASSUME Inv, NEW c \in open, FailCall(c), UNCHANGED daemonVars
  PROVE  Inv'
  <1> USE DEF Inv
  <1>1. /\ open' = open \ {c} /\ Lose(c.audio) /\ faults' = faults + 1
        /\ UNCHANGED <<calls, jobs, results, posts, posted>>
    BY DEF FailCall, Fault
  <1>2. Records' \subseteq Records /\ Records \subseteq Records' \union {c} BY <1>1 DEF Records
  <1>3. NothingNew BY <1>2 DEF NothingNew, Same
  <1>4. TypeOK'
    <2>1. InboxTypeOK' BY <1>1 DEF TypeOK, InboxTypeOK
    <2> QED BY <1>1, <2>1, InboxSteps DEF Lose
  <1>5. JobInv' BY <1>1, <1>3, OldJobs
  <1>6. LostInv'
    <2>1. c.audio \in Nat BY RecordType DEF Records
    <2>2. \A mb \in Served : Delivered(mb) \subseteq Delivered(mb)' \union ({c.audio} \ {None})
      BY <1>2 DEF Delivered
    <2> QED BY <1>1, <2>1, <2>2, SameSpool, LossCounted
  <1>7. TranscriptIsOwn' BY <1>1 DEF TranscriptIsOwn
  <1> QED BY <1>1, <1>3, <1>4, <1>5, <1>6, <1>7, SameSpool, OldRecords

LEMMA TranscriberStep ==
  ASSUME Inv, UNCHANGED daemonVars,
         (\E j \in jobs : Transcribe(j)) \/ (\E r \in results : LoseResult(r))
  PROVE  Inv'
  <1> USE DEF Inv
  <1>1. /\ jobs' \subseteq jobs /\ results' \subseteq jobs \union results
        /\ faults' \in {faults, faults + 1} /\ UNCHANGED <<open, calls, posts, posted, lost>>
    BY DEF Transcribe, LoseResult, Fault
  <1>2. Records' = Records BY <1>1 DEF Records
  <1>3. NothingNew BY <1>2 DEF NothingNew, Same
  <1>4. TypeOK'
    <2>1. InboxTypeOK' BY <1>1 DEF TypeOK, InboxTypeOK
    <2> QED BY <1>1, <2>1, InboxSteps
  <1>5. JobInv' BY <1>1, <1>3, OldJobs
  <1>6. LostInv'
    <2>1. \A mb \in Served : Delivered(mb) \subseteq Delivered(mb)' BY <1>2 DEF Delivered
    <2> QED BY <1>1, <2>1, NothingLost
  <1>7. TranscriptIsOwn' BY <1>1 DEF TranscriptIsOwn
  <1> QED BY <1>1, <1>3, <1>4, <1>5, <1>6, <1>7, SameSpool, OldRecords

\* The result finds the call it was made for, and that call's recording.
LEMMA ResultStep ==
  ASSUME Inv, NEW r \in results, HandleResult(r), UNCHANGED daemonVars
  PROVE  Inv'
  <1> USE DEF Inv
  <1> DEFINE After(c) == IF c.k = r.call THEN [c EXCEPT !.text = r.audio] ELSE c
  <1>1. /\ results' = results \ {r} /\ calls' = {After(c) : c \in calls}
        /\ UNCHANGED <<open, jobs, posts, posted, lost, faults>>
    BY DEF HandleResult, postVars
  <1>2. \A c \in calls : After(c) \in Call /\ Same(After(c), c)
    BY DEF TypeOK, InboxTypeOK, Call, Job, Same
  <1>3. \A c \in calls : After(c).text = IF c.k = r.call THEN r.audio ELSE c.text
    BY DEF TypeOK, InboxTypeOK, Call
  <1> HIDE DEF After
  <1>4. NothingNew BY <1>1, <1>2 DEF NothingNew, Records, Same
  <1>5. TypeOK'
    <2>1. InboxTypeOK' BY <1>1, <1>2 DEF TypeOK, InboxTypeOK
    <2> QED BY <1>1, <2>1, InboxSteps
  <1>6. JobInv' BY <1>1, <1>4, OldJobs
  <1>7. LostInv'
    <2>1. \A q \in Records : \E s \in Records' : Same(q, s)
      BY <1>1, <1>2 DEF Records, Same
    <2>2. \A mb \in Served : Delivered(mb) \subseteq Delivered(mb)'
      BY <2>1 DEF Delivered, Same
    <2> QED BY <1>1, <2>2, NothingLost
  <1>8. TranscriptIsOwn'
    <2> SUFFICES ASSUME NEW c \in calls, After(c).text # None PROVE After(c).text = After(c).audio
      BY <1>1 DEF TranscriptIsOwn
    <2>1. After(c).audio = c.audio BY <1>2 DEF Same
    <2>2. CASE c.k = r.call
      <3>1. c.audio = r.audio BY <2>2 DEF JobInv, Records
      <3> QED BY <1>3, <2>1, <2>2, <3>1
    <2>3. CASE c.k # r.call BY <1>3, <2>1, <2>3 DEF TranscriptIsOwn
    <2> QED BY <2>2, <2>3
  <1> QED BY <1>1, <1>4, <1>5, <1>6, <1>7, <1>8, SameSpool, OldRecords

-----------------------------------------------------------------------------
(* The invariant                                                           *)

LEMMA Start == Init => Inv
  <1> SUFFICES ASSUME Init PROVE Inv OBVIOUS
  <1> USE DEF Init, PostInit, DaemonInit, InboxInit, None
  <1>1. Records = {} BY DEF Records
  <1>2. TypeOK
    <2>1. << >> \in Seq(1 .. left) /\ << >> \in Seq(Mailboxes) OBVIOUS
    <2> QED BY <2>1 DEF TypeOK, PostTypeOK, DaemonTypeOK, InboxTypeOK, NoMark, Mark
  <1>3. RecordInv /\ JobInv /\ SeenInv /\ DeliveredOnce /\ TranscriptIsOwn
    BY <1>1 DEF RecordInv, JobInv, SeenInv, DeliveredOnce, TranscriptIsOwn
  <1>4. OwnInv
    <2>1. DOMAIN << >> = {} OBVIOUS
    <2> QED BY <2>1 DEF OwnInv, Owned
  <1>5. NewestInv /\ MarkInv BY DEF NewestInv, MarkInv
  <1>6. LostInv
    <2> SUFFICES ASSUME NEW mb \in Served
                 PROVE  Cardinality(Undelivered(mb)) + ToLose(mb) <= starts + lost
      BY DEF LostInv
    <2>1. Undelivered(mb) = {} BY InboxAssumption DEF Undelivered
    <2>2. Cardinality(Undelivered(mb)) = 0 BY <2>1, FS_EmptySet
    <2>3. ToLose(mb) \in 0 .. 1 BY DEF ToLose
    <2> QED BY <2>2, <2>3
  <1> QED BY <1>2, <1>3, <1>4, <1>5, <1>6 DEF Inv

LEMMA Stutters ==
  ASSUME Inv, UNCHANGED vars
  PROVE  Inv'
  <1> USE DEF Inv, vars, daemonVars, postVars, spoolVars, historyVars, inboxVars
  <1>1. TypeOK' BY DEF TypeOK, PostTypeOK, DaemonTypeOK, InboxTypeOK
  <1>2. OwnInv' BY DEF OwnInv, Owned
  <1>3. NewestInv' BY DEF NewestInv, Newest, File
  <1> QED BY <1>1, <1>2, <1>3, SpoolChanges

LEMMA Steps ==
  ASSUME Inv, [Next]_vars
  PROVE  Inv'
  <1>1. ASSUME NEW mb \in Mailboxes, Leave(mb), UNCHANGED inboxVars PROVE Inv'
    BY <1>1, LeaveStep
  <1>2. ASSUME NEW mb \in Mailboxes, NEW i \in 0 .. MaxMessages, i <= File(mb),
               Change(mb, i), UNCHANGED inboxVars
        PROVE  Inv'
    <2>1. i \in Nat BY DaemonAssumption
    <2> QED BY <1>2, <2>1, ChangeStep
  <1>3. ASSUME NEW mb \in Mailboxes, Repeat(mb) \/ Seed(mb) \/ Send(mb), UNCHANGED inboxVars
        PROVE  Inv'
    BY <1>3, HandleStep
  <1>4. ASSUME UNCHANGED inboxVars,
               \/ Answered(OpenPosts) \/ GiveUp(OpenPosts) \/ LinkUp
               \/ \E n \in 0 .. Len(wire) : LinkDown(n)
        PROVE  Inv'
    BY <1>4, WaitStep
  <1>5. ASSUME NEW p \in posts, LosePost(p), UNCHANGED inboxVars PROVE Inv'
    BY <1>5, LosePostStep
  <1>6. CASE Restart /\ UNCHANGED inboxVars BY <1>6, RestartStep
  <1>7. ASSUME NEW p \in posts, Begin(p), UNCHANGED daemonVars PROVE Inv'
    BY <1>7, BeginStep
  <1>8. ASSUME NEW c \in open, CommitCall(c), UNCHANGED daemonVars PROVE Inv'
    BY <1>8, CommitStep
  <1>9. ASSUME NEW c \in open, FailCall(c), UNCHANGED daemonVars PROVE Inv'
    BY <1>9, FailStep
  <1>10. ASSUME (\E j \in jobs : Transcribe(j)) \/ (\E r \in results : LoseResult(r)),
                UNCHANGED daemonVars
         PROVE  Inv'
    BY <1>10, TranscriberStep
  <1>11. ASSUME NEW r \in results, HandleResult(r), UNCHANGED daemonVars PROVE Inv'
    BY <1>11, ResultStep
  <1>12. CASE UNCHANGED vars BY <1>12, Stutters
  <1> QED BY <1>1, <1>2, <1>3, <1>4, <1>5, <1>6, <1>7, <1>8, <1>9, <1>10, <1>11, <1>12 DEF Next

LEMMA Invariance == Spec => []Inv
  BY Start, Steps, PTL DEF Spec

-----------------------------------------------------------------------------
(* What holds of the delivery                                              *)

\* Every variable of the spool, the daemon and Odoo keeps its type.
THEOREM TypeCorrect == Spec => []TypeOK
  <1>1. Inv => TypeOK BY DEF Inv
  <1> QED BY <1>1, Invariance, PTL

\* MailboxMarker and the hash of the audio let a recording through once, across
\* repeated events, reconnects, restarts and POSTs that are given up or fail,
\* in every mailbox whose newest voicemail was never taken away.
THEOREM NeverTwice == Spec => []DeliveredOnce
  <1>1. Inv => DeliveredOnce BY DEF Inv
  <1> QED BY <1>1, Invariance, PTL

\* A mailbox loses one voicemail per start of the daemon, the one it is seeded
\* with, and one per POST or transaction that failed; no more, however many
\* events, reconnects and other mailboxes there are.
THEOREM LossIsBounded == Spec => []AtMostOneLostPerStart
  <1>1. Inv => AtMostOneLostPerStart
    <2> SUFFICES ASSUME Inv, NEW mb \in Served
                 PROVE  Cardinality(Undelivered(mb)) <= starts + lost
      BY DEF AtMostOneLostPerStart, Undelivered
    <2>1. Cardinality(Undelivered(mb)) + ToLose(mb) <= starts + lost BY DEF Inv, LostInv
    <2>2. IsFiniteSet(Undelivered(mb)) BY InboxAssumption, UndeliveredFinite DEF Inv
    <2>3. Cardinality(Undelivered(mb)) \in Nat BY <2>2, FS_CardinalityType
    <2>4. starts \in Nat /\ lost \in Nat /\ ToLose(mb) \in 0 .. 1
      BY DEF Inv, TypeOK, DaemonTypeOK, PostTypeOK, ToLose
    <2> QED BY <2>1, <2>3, <2>4
  <1> QED BY <1>1, Invariance, PTL

\* handle_transcribe_result finds the call of the recording, in whatever order
\* the results come and the calls are committed, rolled back or lost.
THEOREM TranscriptMatches == Spec => []TranscriptIsOwn
  <1>1. Inv => TranscriptIsOwn BY DEF Inv
  <1> QED BY <1>1, Invariance, PTL

=============================================================================
