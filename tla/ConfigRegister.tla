--------------------------- MODULE ConfigRegister ---------------------------
(***************************************************************************)
(* What a configuration deploy promises about versions, whatever fails: a  *)
(* register that is offered versions, records only ever newer ones out of  *)
(* those offered, and confirms none before it, or a newer one, is          *)
(* recorded.                                                               *)
(***************************************************************************)
EXTENDS Naturals

CONSTANT First   (* the version recorded and confirmed to begin with *)

VARIABLES
  offered,     (* versions published so far *)
  recorded,    (* version the server has    *)
  confirmed    (* version its owner believes the server has *)

vars == <<offered, recorded, confirmed>>

Init ==
  /\ offered = {}
  /\ recorded = First
  /\ confirmed = First

Offer ==
  /\ \E v \in offered' : v \in Nat /\ offered' = offered \union {v}
  /\ UNCHANGED <<recorded, confirmed>>

Record ==
  /\ recorded' \in offered
  /\ recorded' > recorded
  /\ UNCHANGED <<offered, confirmed>>

Confirm ==
  /\ confirmed' \in offered
  /\ confirmed' <= recorded
  /\ UNCHANGED <<offered, recorded>>

Next == Offer \/ Record \/ Confirm

Spec == Init /\ [][Next]_vars

=============================================================================
