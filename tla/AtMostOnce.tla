----------------------------- MODULE AtMostOnce -----------------------------
(***************************************************************************)
(* What a replay filter promises, with no window in it: a sequence number  *)
(* is let through at most once, and one is turned away only if it was let  *)
(* through before or lies Horizon or more behind one that was.             *)
(***************************************************************************)
EXTENDS Integers

CONSTANTS
  Horizon,   \* how far behind an accepted number the filter may forget
  Numbers    \* the sequence numbers

VARIABLES
  accepted,  \* the numbers let through so far
  judgement  \* the last number judged, and whether it was let through

Init == /\ accepted = {}
        /\ judgement = <<>>

Accept(s) == /\ s \notin accepted
             /\ accepted' = accepted \cup {s}
             /\ judgement' = <<s, TRUE>>

Refuse(s) == /\ \/ s \in accepted
                \/ \E t \in accepted : t - s >= Horizon
             /\ judgement' = <<s, FALSE>>
             /\ UNCHANGED accepted

Next == \E s \in Numbers : Accept(s) \/ Refuse(s)

Spec == Init /\ [][Next]_<<accepted, judgement>>
=============================================================================
