----------------------------- MODULE NumberPlan -----------------------------
(***************************************************************************)
(* The number plan of one company: its extensions, its other dialable      *)
(* objects (queues, IVRs, conferences, ...: services here), its employees, *)
(* and the numbers Odoo gives out, checks and renumbers (pbx.numbering,    *)
(* pbx.extension, hr.employee).                                            *)
(*                                                                         *)
(* A number is the sequence of its digits, so "01" and "1" differ and are  *)
(* compared as text.  Records are known by their database id, which grows; *)
(* 0 is no record.  Every action is one transaction: an error in it leaves *)
(* everything as it was.                                                   *)
(***************************************************************************)
EXTENDS Naturals, Sequences, FiniteSets, FiniteSetsExt, SequencesExt

CONSTANTS
  Radix,       (* digits there are: 10                                     *)
  MinWidth,    (* digits of an extension in a small company: 2             *)
  Few, Many,   (* employees up to which / from which: 70 and 700           *)
  Prefix,      (* first digit of a service number: 4 for queues            *)
  Typed,       (* numbers users type in                                    *)
  Users,       (* Odoo users: 1 .. n                                       *)
  MaxEmployees, MaxExtensions, MaxServices,  (* bounds: records created    *)
  MaxEdits     (* bound: records edited by hand                            *)

ASSUME NumberAssumption ==
  /\ Radix \in Nat \ {0, 1} /\ MinWidth \in Nat \ {0} /\ Prefix \in 1 .. Radix - 1
  /\ Few \in Nat /\ Many \in Nat /\ Few < Many
  /\ Typed \subseteq Seq(0 .. Radix - 1) \ {<< >>}
  /\ Users \subseteq Nat \ {0}
  /\ MaxEmployees \in Nat /\ MaxExtensions \in Nat /\ MaxServices \in Nat
  /\ MaxEdits \in Nat

VARIABLES
  exts,   (* pbx.extension                                                 *)
  svcs,   (* the other dialable models                                     *)
  emps,   (* hr.employee                                                   *)
  link,   (* res.users.pbx_extension_id                                    *)
  edits   (* how often a record was edited by hand                         *)

vars == <<exts, svcs, emps, link, edits>>

NoNumber == << >>
Number == Seq(0 .. Radix - 1) \ {NoNumber}
Extension == [number : Number, active : BOOLEAN, user : Users \union {0}]
Service == [number : Number, active : BOOLEAN]
Employee == [ext : 0 .. MaxExtensions, parent : 0 .. MaxEmployees,
             user : Users \union {0}, active : BOOLEAN]

TypeOK ==
  /\ exts \in Seq(Extension) /\ Len(exts) <= MaxExtensions
  /\ svcs \in Seq(Service) /\ Len(svcs) <= MaxServices
  /\ emps \in Seq(Employee) /\ Len(emps) <= MaxEmployees
  /\ link \in [Users -> 0 .. Len(exts)]
  /\ edits \in 0 .. MaxEdits
  /\ \A e \in DOMAIN emps : emps[e].ext <= Len(exts) /\ emps[e].parent < e

Init ==
  /\ exts = << >> /\ svcs = << >> /\ emps = << >>
  /\ link = [u \in Users |-> 0]
  /\ edits = 0

\* What a transaction works on; error is what makes it fail.
State == [exts |-> exts, svcs |-> svcs, emps |-> emps, link |-> link, error |-> "none"]

Commits(s) ==
  /\ s.error = "none" /\ Len(s.exts) <= MaxExtensions
  /\ exts' = s.exts /\ svcs' = s.svcs /\ emps' = s.emps /\ link' = s.link

-----------------------------------------------------------------------------
(* pbx.numbering                                                           *)

\* 10 ** k
Power[k \in Nat] == IF k = 0 THEN 1 ELSE Radix * Power[k - 1]

\* str(n).zfill(w): at least w digits.
Text(n, w) ==
  LET len == CHOOSE k \in 1 .. n + 1 : n < Power[k] /\ (k = 1 \/ n >= Power[k - 1])
      width == IF len < w THEN w ELSE len
  IN [i \in 1 .. width |-> (n \div Power[width - i]) % Radix]

\* The order of PostgreSQL on numbers.
Before(a, b) ==
  \/ IsStrictPrefix(a, b)
  \/ \E i \in DOMAIN a \intersect DOMAIN b :
       a[i] < b[i] /\ \A j \in 1 .. i - 1 : a[j] = b[j]

ActiveEmployees(s) == {e \in DOMAIN s.emps : s.emps[e].active}

\* _get_extension_width
Width(s) ==
  LET n == Cardinality(ActiveEmployees(s))
  IN IF n <= Few THEN MinWidth ELSE IF n < Many THEN MinWidth + 1 ELSE MinWidth + 2

\* The mutant: archived records are not seen.
UsedByActive(s) ==
  {s.exts[x].number : x \in {y \in DOMAIN s.exts : s.exts[y].active}}
    \union {s.svcs[v].number : v \in {w \in DOMAIN s.svcs : s.svcs[w].active}}

\* _used_dialable_numbers: archived records hold their numbers.
Used(s) ==
  {s.exts[x].number : x \in DOMAIN s.exts} \union {s.svcs[v].number : v \in DOMAIN s.svcs}

LowestFree(s, candidates, w) ==
  LET used == Used(s)
  IN IF \A n \in candidates : Text(n, w) \in used THEN NoNumber
     ELSE Text(CHOOSE n \in candidates :
                 /\ Text(n, w) \notin used
                 /\ \A m \in candidates : m < n => Text(m, w) \in used, w)

\* _next_free_extension_number, second half.
NextUnused(s) == LowestFree(s, 1 .. Power[Width(s)] - 1, Width(s))

\* _next_free_service_number
NextService(s) ==
  LET base == Power[Width(s)]
  IN LowestFree(s, Prefix * base .. (Prefix + 1) * base - 1, 1)

\* _next_free_extension_number, first half: active extensions that neither a
\* user nor an active employee has.
FreeExisting(s) ==
  {x \in DOMAIN s.exts :
     /\ s.exts[x].active /\ s.exts[x].user = 0
     /\ \A e \in ActiveEmployees(s) : s.emps[e].ext # x}

\* The mutant: the check stays within the model of the extensions.
CollidesWithExtension(s, number, x, v) ==
  \E y \in DOMAIN s.exts \ {x} : s.exts[y].active /\ s.exts[y].number = number

\* _check_dialable_number, leaving out extension x and service v: search_count
\* does not see archived records.
Collides(s, number, x, v) ==
  \/ \E y \in DOMAIN s.exts \ {x} : s.exts[y].active /\ s.exts[y].number = number
  \/ \E w \in DOMAIN s.svcs \ {v} : s.svcs[w].active /\ s.svcs[w].number = number

\* The unique constraint on extensions counts archived ones too.
Refuses(s, number, x) ==
  \E y \in DOMAIN s.exts \ {x} : s.exts[y].number = number

-----------------------------------------------------------------------------
(* pbx.extension                                                           *)

\* create, for user u (0: none); checked is whether the company was among the
\* values, which is what create goes by.
Created(s, number, u, checked) ==
  LET x == Len(s.exts) + 1 IN
  IF Refuses(s, number, 0) \/ (checked /\ Collides(s, number, 0, 0))
  THEN [s EXCEPT !.error = "taken"]
  ELSE [s EXCEPT
         !.exts = Append(@, [number |-> number, active |-> TRUE, user |-> u]),
         !.link = [w \in Users |-> IF w = u THEN x ELSE @[w]]]

\* _sync_user_link, after every write of an extension.
Synced(s, x) ==
  [s EXCEPT !.link = [u \in Users |-> IF u = s.exts[x].user THEN x ELSE @[u]]]

\* write of user_id: the link of the user before is dropped, but only when a
\* user takes its place.
UserWritten(s, x, u) ==
  LET old == s.exts[x].user IN
  Synced([s EXCEPT
           !.exts[x].user = u,
           !.link = [w \in Users |-> IF u # 0 /\ w = old /\ @[w] = x THEN 0 ELSE @[w]]], x)

AddExtension(number, u, checked) ==
  Commits(Created(State, number, u, checked))

WriteUser(x, u) ==
  /\ exts[x].user # u
  /\ Commits(UserWritten(State, x, u))

WriteNumber(x, number) ==
  /\ ~ Collides(State, number, x, 0) /\ ~ Refuses(State, number, x)
  /\ Commits(Synced([State EXCEPT !.exts[x].number = number], x))

\* Archiving and unarchiving look at nothing.
ToggleExtension(x) ==
  Commits(Synced([State EXCEPT !.exts[x].active = ~ @], x))

-----------------------------------------------------------------------------
(* pbx.queue, pbx.ivr, pbx.conference, pbx.time_condition,                 *)
(* pbx.recording.policy; the last two check nothing                        *)

AddService(number, checked) ==
  /\ Len(svcs) < MaxServices
  /\ number # NoNumber
  /\ checked => ~ Collides(State, number, 0, 0)
  /\ svcs' = Append(svcs, [number |-> number, active |-> TRUE])
  /\ UNCHANGED <<exts, emps, link>>

WriteServiceNumber(v, number, checked) ==
  /\ number \notin {NoNumber, svcs[v].number}
  /\ checked => ~ Collides(State, number, 0, v)
  /\ svcs' = [svcs EXCEPT ![v].number = number]
  /\ UNCHANGED <<exts, emps, link>>

ToggleService(v) ==
  /\ svcs' = [svcs EXCEPT ![v].active = ~ @]
  /\ UNCHANGED <<exts, emps, link>>

-----------------------------------------------------------------------------
(* hr.employee                                                             *)

\* The mutant: nothing is looked at when there is no free number.
AssignedBlindly(s, e) ==
  LET u == s.emps[e].user
      free == FreeExisting(s)
      first == CHOOSE x \in free : \A y \in free : ~ Before(s.exts[y].number, s.exts[x].number)
      number == NextUnused(s)
  IN IF free # {} THEN
       [(IF u # 0 THEN UserWritten(s, first, u) ELSE s) EXCEPT !.emps[e].ext = first]
     ELSE [Created(s, number, u, TRUE) EXCEPT !.emps[e].ext = Len(s.exts) + 1]

\* _assign_next_free
Assigned(s, e) ==
  LET u == s.emps[e].user
      free == FreeExisting(s)
      first == CHOOSE x \in free : \A y \in free : ~ Before(s.exts[y].number, s.exts[x].number)
      number == NextUnused(s)
  IN IF free # {} THEN
       [(IF u # 0 THEN UserWritten(s, first, u) ELSE s) EXCEPT !.emps[e].ext = first]
     ELSE IF number = NoNumber THEN [s EXCEPT !.error = "full"]
     ELSE [Created(s, number, u, TRUE) EXCEPT !.emps[e].ext = Len(s.exts) + 1]

\* create: the extension of the user if there is one, or else a free one.
HireEmployee(p, u) ==
  LET e == Len(emps) + 1
      hired == [State EXCEPT !.emps =
        Append(@, [ext |-> IF u = 0 THEN 0 ELSE link[u], parent |-> p, user |-> u, active |-> TRUE])]
  IN /\ e <= MaxEmployees
     /\ u = 0 \/ \A f \in DOMAIN emps : emps[f].user # u
     /\ Commits(IF hired.emps[e].ext # 0 THEN hired ELSE Assigned(hired, e))

AssignExtension(e) == Commits(Assigned(State, e))

SyncFromUser(e) ==
  /\ emps[e].user # 0 /\ link[emps[e].user] # 0
  /\ emps' = [emps EXCEPT ![e].ext = link[emps[e].user]]
  /\ UNCHANGED <<exts, svcs, link>>

\* The field is cleared, or set by hand.
WriteExtension(e, x) ==
  /\ emps' = [emps EXCEPT ![e].ext = x]
  /\ UNCHANGED <<exts, svcs, link>>

ToggleEmployee(e) ==
  /\ emps' = [emps EXCEPT ![e].active = ~ @]
  /\ UNCHANGED <<exts, svcs, link>>

-----------------------------------------------------------------------------
(* Renumber Organization                                                   *)

ById(S) == CHOOSE q \in [1 .. Cardinality(S) -> S] : \A i, j \in DOMAIN q : i < j => q[i] < q[j]

Root(s) ==
  LET roots == {e \in ActiveEmployees(s) : s.emps[e].parent = 0}
  IN Min(IF roots = {} THEN ActiveEmployees(s) ELSE roots)

Children(s, p) == ById({e \in ActiveEmployees(s) : s.emps[e].parent = p})

\* One turn of the loop of _hierarchical_order.
Visit(s, q) ==
  IF q.queue = << >> THEN q
  ELSE IF Contains(q.ordered, Head(q.queue)) THEN [q EXCEPT !.queue = Tail(@)]
  ELSE [queue |-> Tail(q.queue) \o Children(s, Head(q.queue)),
        ordered |-> Append(q.ordered, Head(q.queue))]

\* The mutant: managers do not matter.
OrderedById(s) == ById(ActiveEmployees(s))

\* _hierarchical_order
Ordered(s) ==
  IF ActiveEmployees(s) = {} THEN << >> ELSE
  LET after[n \in 0 .. MaxEmployees + 1] ==
        IF n = 0 THEN [queue |-> <<Root(s)>>, ordered |-> << >>] ELSE Visit(s, after[n - 1])
      visited == after[MaxEmployees + 1].ordered
  IN visited \o ById(ActiveEmployees(s) \ ToSet(visited))

Everyone(s) == Ordered(s) \o ById(DOMAIN s.emps \ ActiveEmployees(s))

\* Step 1: employees without an extension get one.
AllAssigned(s, order) ==
  FoldLeft(LAMBDA t, e : IF t.error # "none" \/ t.emps[e].ext # 0 THEN t ELSE Assigned(t, e),
           s, order)

\* "tmp-<id>": not made of digits, and another one for each extension.
Temporary(x) == <<Radix, x>>

\* What an employee with extension x (0: none) writes to it, if its number is
\* not the wanted one.  The user link follows every write.
Numbered(s, x, wanted, number) ==
  IF x = 0 \/ s.exts[x].number = wanted THEN s
  ELSE Synced([s EXCEPT !.exts[x].number = number], x)

\* One phase: the employees in their order, each with what is wanted for it
\* and what it writes.
Phase(s, order, wanted, number) ==
  LET after[k \in 0 .. Len(order)] ==
        IF k = 0 THEN s
        ELSE Numbered(after[k - 1], s.emps[order[k]].ext, wanted[k], number[k])
  IN after[Len(order)]

\* flush_all: the pending writes from s to t reach the database row by row, and
\* a number is refused that another row holds, be it only until its own turn.
Flushed(s, t) ==
  IF \E x, y \in DOMAIN t.exts :
       /\ x # y /\ t.exts[x].number # s.exts[x].number
       /\ t.exts[x].number \in {s.exts[y].number, t.exts[y].number}
  THEN [t EXCEPT !.error = "taken"]
  ELSE t

Wanted(s, order) == [k \in DOMAIN order |-> Text(k, Width(s))]

\* Phase 1.
Moved(s, order) ==
  LET temporary == [k \in DOMAIN order |-> Temporary(s.emps[order[k]].ext)]
  IN Phase(s, order, Wanted(s, order), temporary)

\* The mutant: nothing is flushed between the phases, and the writes merge.
RenumberedUnflushed(s, order) ==
  LET wanted == Wanted(s, order)
  IN Flushed(s, Phase(Moved(s, order), order, wanted, wanted))

\* Steps 2 and 3.
Renumbered(s, order) ==
  LET wanted == Wanted(s, order)
      moved == Flushed(s, Moved(s, order))
  IN IF moved.error # "none" THEN moved
     ELSE Flushed(moved, Phase(moved, order, wanted, wanted))

\* action_renumber_organization, all in one transaction.
RenumberResult ==
  LET order == Everyone(State)
      s == AllAssigned(State, order)
  IN IF s.error # "none" THEN s ELSE Renumbered(s, order)

RenumberOrganization == emps # << >> /\ Commits(RenumberResult)

-----------------------------------------------------------------------------
Numbers == (Typed \union {NextUnused(State)}) \ {NoNumber}
ServiceNumbers == Typed \union {NextService(State)}

\* Numbers are given by the number plan.
GiveStep ==
  \/ \E p \in 0 .. Len(emps), u \in Users \union {0} : HireEmployee(p, u)
  \/ \E e \in DOMAIN emps : AssignExtension(e)

\* A number is entered, or the proposed one kept, and the company comes with it.
CheckedStep ==
  \/ \E n \in Numbers, u \in Users \union {0} : AddExtension(n, u, TRUE)
  \/ \E x \in DOMAIN exts, n \in Typed : WriteNumber(x, n)
  \/ \E n \in ServiceNumbers :
       AddService(n, TRUE) \/ \E v \in DOMAIN svcs : WriteServiceNumber(v, n, TRUE)

\* The forms of extensions, queues and IVRs do not send the company, and time
\* conditions and recording policies are checked by nobody.
FormStep ==
  \/ \E n \in Numbers, u \in Users \union {0} : AddExtension(n, u, FALSE)
  \/ \E n \in ServiceNumbers :
       AddService(n, FALSE) \/ \E v \in DOMAIN svcs : WriteServiceNumber(v, n, FALSE)

RecordStep ==
  \/ \E x \in DOMAIN exts : ToggleExtension(x) \/ \E u \in Users \union {0} : WriteUser(x, u)
  \/ \E v \in DOMAIN svcs : ToggleService(v)
  \/ \E e \in DOMAIN emps :
       \/ SyncFromUser(e)
       \/ ToggleEmployee(e)
       \/ \E x \in 0 .. Len(exts) : WriteExtension(e, x)

ByHand == edits < MaxEdits /\ edits' = edits + 1

Next ==
  \/ (GiveStep \/ RenumberOrganization) /\ UNCHANGED edits
  \/ ByHand /\ (CheckedStep \/ FormStep \/ RecordStep)

Spec == Init /\ [][Next]_vars

-----------------------------------------------------------------------------
(* Properties                                                              *)

\* No number is dialled to two places ("unique dial namespace per company").
DialNamespaceUnique ==
  /\ \A x \in DOMAIN exts, y \in DOMAIN exts :
       x # y /\ exts[x].active /\ exts[y].active => exts[x].number # exts[y].number
  /\ \A v \in DOMAIN svcs, w \in DOMAIN svcs :
       v # w /\ svcs[v].active /\ svcs[w].active => svcs[v].number # svcs[w].number
  /\ \A x \in DOMAIN exts, v \in DOMAIN svcs :
       exts[x].active /\ svcs[v].active => exts[x].number # svcs[v].number

\* As long as the company comes with the values, no record that is created and
\* no number that is written or given out is dialled to a second place, across
\* the models (_check_dialable_number, _used_dialable_numbers).
PlannedStaysUnique ==
  [][DialNamespaceUnique /\ ~ DialNamespaceUnique' => ~ (GiveStep \/ CheckedStep)]_vars

\* A number that is given out is never refused by the check or by the unique
\* constraint, whatever was archived, renumbered or outgrown before ("the
\* allocator would hand out a number that create() then rejects").
GivenIsAccepted == \A e \in DOMAIN emps : Assigned(State, e).error # "taken"

Held(s, x) == \E e \in DOMAIN s.emps : s.emps[e].ext = x

\* Renumbering is refused only where an extension nobody has holds one of the
\* numbers wanted, in whatever way the employees' own numbers, archived or
\* active, shared or not, swap places ("avoid transient unique collisions when
\* numbers are swapped ... phase 1 MUST flush to the DB before phase 2").
RenumberIsPossible ==
  LET s == RenumberResult IN
  s.error = "taken" =>
    \E x \in DOMAIN s.exts : ~ Held(s, x) /\
      \E n \in DOMAIN Everyone(State) : s.exts[x].number = Text(n, Width(s))

\* The active employees by their distance below the root, from 1 for the root.
Levels(s) ==
  FoldLeft(LAMBDA levels, e :
             Append(levels, {f \in ActiveEmployees(s) : s.emps[f].parent \in Last(levels)}),
           <<{Root(s)}>>, s.emps)

NumberOf(s, e) == s.exts[s.emps[e].ext].number

\* A number without surplus zeros is the higher the longer it is.
Lower(a, b) == Len(a) < Len(b) \/ (Len(a) = Len(b) /\ Before(a, b))

ByRank(s) ==
  LET active == ActiveEmployees(s)
      levels == IF active = {} THEN << >> ELSE Levels(s)
      outside == active \ UNION ToSet(levels)
      groups == Append(levels, outside) \o <<DOMAIN s.emps \ active>>
      precedes(e, f) == Lower(NumberOf(s, e), NumberOf(s, f))
  IN /\ {NumberOf(s, e) : e \in DOMAIN s.emps} = {Text(n, Width(s)) : n \in DOMAIN s.emps}
     /\ \A k, l \in DOMAIN groups : k < l =>
          \A e \in groups[k], f \in groups[l] : precedes(e, f)
     /\ \A k \in DOMAIN groups : \A e, f \in groups[k] :
          e < f /\ (k > Len(levels) \/ s.emps[e].parent = s.emps[f].parent) =>
            precedes(e, f)

Apart(s) == \A e, f \in DOMAIN s.emps : e # f => s.emps[e].ext # s.emps[f].ext

\* After a renumbering the employees have the numbers 1 to n of the width that
\* fits the company: managers before their reports, colleagues by age of the
\* record, those outside the tree after those in it, archived ones last.  (Two
\* employees who share an extension get one number, that of the lower rank.)
RenumberedIsByRank ==
  LET s == RenumberResult IN emps # << >> /\ s.error = "none" /\ Apart(s) => ByRank(s)

=============================================================================
