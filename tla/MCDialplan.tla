----------------------------- MODULE MCDialplan -----------------------------
(* DialplanCall for TLC: companies that differ in one part of their records. *)
EXTENDS DialplanCall, TLC

MCExt(number, devices, changes) ==
  changes @@ [number |-> number, devices |-> devices, parallel |-> FALSE, gated |-> FALSE,
              mailbox |-> TRUE, ai |-> FALSE, follow |-> FALSE]
MCIn(seq, did, cid, dest) == [seq |-> seq, did |-> did, cid |-> cid, dest |-> dest]
MCOut(seq, pattern, gate, trunks, failover) ==
  [seq |-> seq, pattern |-> pattern, gate |-> gate, trunks |-> trunks, failover |-> failover]
MCTrunk(name, next) == [name |-> name, next |-> next]

MCFirst == MCExt("02", <<"u021", "u022">>, [gated |-> TRUE])
MCBase ==
  [exts |-> <<MCFirst>>, inbound |-> << >>, accounts |-> << >>, outbound |-> << >>,
   queues |-> << >>, times |-> << >>]

MCTimes == <<[name |-> "open", gate |-> "leaves",
              match |-> <<"ext", "02">>, nomatch |-> <<"vm", "02">>]>>
MCOneOut == <<MCOut(10, "_0.", "none", <<MCTrunk("a", TRUE)>>, << >>)>>

\* Every kind of extension, and a queue.
MCPhones == [MCBase EXCEPT
  !.exts = <<MCFirst, MCExt("12", <<"u121", "u122">>, [parallel |-> TRUE, follow |-> TRUE]),
             MCExt("13", <<"u131", "u132">>, [mailbox |-> FALSE]),
             MCExt("03", << >>, [parallel |-> TRUE]), MCExt("04", <<"u041">>, [ai |-> TRUE])>>,
  !.queues = <<[number |-> "41", name |-> "support", manual |-> TRUE, timed |-> TRUE,
                target |-> "vip"],
               [number |-> "42", name |-> "vip", manual |-> TRUE, timed |-> TRUE, target |-> None]>>,
  !.outbound = MCOneOut]

\* Routes of numbers and of callers, and none for the rest.
MCRouted == [MCBase EXCEPT
  !.inbound = <<MCIn(10, None, "c1", <<"time", "open">>), MCIn(20, "d1", "c1", <<"ext", "02">>),
                MCIn(30, None, "c2", <<"vm", "02">>), MCIn(40, "d1", None, << >>)>>,
  !.accounts = <<[user |-> "acc", dest |-> <<"ext", "02">>]>>, !.times = MCTimes]

\* Routes of callers, and a catch-all.
MCCallers == [MCBase EXCEPT
  !.inbound = <<MCIn(10, None, None, <<"vm", "02">>), MCIn(20, None, "c2", <<"ext", "02">>)>>]

\* A catch-all beside a route of a number; destinations that are not made, and a
\* custom one that names the context a queue has.
MCCatchAll == [MCBase EXCEPT
  !.inbound = <<MCIn(10, "d1", None, <<"queue", "support">>), MCIn(20, None, None, <<"ext", "02">>),
                MCIn(30, "d1", "c2", <<"vm", "03">>),
                MCIn(40, "acc", None, <<"support">>), MCIn(50, "d2", None, <<"time", "closed">>)>>,
  !.queues = <<[number |-> "41", name |-> "support", manual |-> FALSE, timed |-> FALSE,
                target |-> None]>>,
  !.accounts = <<[user |-> "d1", dest |-> <<"ext", "02">>]>>]

\* A number without caller routes: the fallback for every number.
MCNumbers == [MCBase EXCEPT !.inbound = <<MCIn(10, "d1", None, <<"time", "open">>)>>,
                            !.times = MCTimes]

\* A chain of gates, of trunks that do and do not go on, two patterns.
MCTrunks == [MCBase EXCEPT
  !.outbound = <<MCOut(10, "_0.", "leaves", <<MCTrunk("a", TRUE), MCTrunk("b", FALSE),
                                                MCTrunk("c", TRUE)>>, << >>),
                 MCOut(20, "_0.", "hours", <<MCTrunk("d", FALSE), MCTrunk("e", TRUE)>>, << >>),
                 MCOut(30, "_+.", "none", << >>, << >>),
                 MCOut(40, "_+.", "none", <<MCTrunk("f", TRUE)>>, <<"vm", "02">>)>>]

\* Routes left at the default sequence.
MCDefaults == [MCBase EXCEPT
  !.outbound = <<MCOut(10, "_0.", "leaves", <<MCTrunk("a", TRUE)>>, << >>),
                 MCOut(10, "_0.", "none", <<MCTrunk("b", TRUE)>>, << >>)>>]

MCCompanies ==
  [phones |-> MCPhones, routed |-> MCRouted, callers |-> MCCallers, catchall |-> MCCatchAll,
   numbers |-> MCNumbers, trunks |-> MCTrunks, oneout |-> [MCBase EXCEPT !.outbound = MCOneOut]]
MCDefaultCompanies == [defaults |-> MCDefaults]

\* What the theorem about gates assumes, and what it leaves to a run of its own.
ASSUME MCApart ==
  (\A c \in DOMAIN MCCompanies : Apart(MCCompanies[c]) /\ ApartIn(MCCompanies[c])) /\ ~Apart(MCDefaults)

MCPatterns ==
  [n \in {"0", "9"} |-> << >>]
    @@ [n \in {"02", "03", "04", "0701"} |-> <<"_0.", "_X.", "_.">>]
    @@ [n \in {"12", "13", "41"} |-> <<"_X.", "_.">>] @@ [n \in {"+46"} |-> <<"_+.", "_.">>]
    @@ [n \in {"46"} |-> <<"_46.", "_X.", "_.">>] @@ [n \in {"d1", "d2", "acc"} |-> <<"_.">>]
MCE164 == [n \in {"46"} |-> "+46"]

=============================================================================
