---------------------------- MODULE ReplayFilter ----------------------------
(***************************************************************************)
(* One receiver's ReplayWindow fed every sequence number of one sender's   *)
(* boot in any order, any number of times: the network loses, duplicates   *)
(* and reorders, and nothing says the first datagram heard is number 0.    *)
(***************************************************************************)
EXTENDS ReplayWindow

VARIABLES
  window,     \* the receiver's ReplayWindow
  last,       \* the last call of check(): its argument and its verdict
  delivered   \* history: how often each sequence number was found Fresh

vars == <<window, last, delivered>>

NoCall == <<>>

Init == /\ window = New
        /\ last = NoCall
        /\ delivered = [s \in Sequence |-> 0]

\* ReplayWindow::check, called on a datagram carrying s.
Check(s) ==
  /\ window' = After(window, s)
  /\ last' = <<s, VerdictOf(window, s)>>
  /\ delivered' = [delivered EXCEPT ![s] = IF VerdictOf(window, s) = "Fresh"
                                             THEN @ + 1 ELSE @]

Next == \E s \in Sequence : Check(s)

Spec == Init /\ [][Next]_vars

-----------------------------------------------------------------------------
Accepted == {s \in Sequence : delivered[s] > 0}

\* Every variable keeps the type the code gives it.
TypeOK == /\ window \in Window
          /\ last \in {NoCall} \cup (Sequence \X Verdict)
          /\ delivered \in [Sequence -> Nat]

\* No sequence number is ever found Fresh twice, however the network repeats
\* and reorders datagrams and however far the window has moved in between.
DeliveredAtMostOnce == \A s \in Sequence : delivered[s] <= 1

\* The bitmap is exact: highest is the largest number accepted, and bit i is
\* set if and only if highest - i was accepted.  No shift loses a bit that is
\* still in range, and none leaves a bit that stands for another number.
BitmapExact ==
  IF window.started
    THEN /\ window.highest \in Accepted
         /\ \A s \in Accepted : s <= window.highest
         /\ \A i \in Bits : i \in window.seen <=> window.highest - i \in Accepted
    ELSE Accepted = {} /\ window.seen = {}

\* The strengthening the proof of DeliveredAtMostOnce needs.
FilterInv == TypeOK /\ DeliveredAtMostOnce /\ BitmapExact

\* Each verdict tells the truth about the past: Duplicate only of a number
\* accepted before, TooOld only of one that is WindowBits or more behind the
\* highest and Fresh only of one never accepted; so a datagram that is merely
\* late, by less than the window, is never lost to the filter.
VerdictsTruthful ==
  [][ \A s \in Sequence : last' # last /\ last'[1] = s =>
        CASE last'[2] = "Fresh"     -> s \notin Accepted
          [] last'[2] = "Duplicate" -> s \in Accepted
          [] last'[2] = "TooOld"    -> /\ window.started
                                       /\ window.highest - s >= WindowBits ]_vars

\* The window is one implementation of the promise AtMostOnce states.
Abstract == INSTANCE AtMostOnce WITH
              Horizon   <- WindowBits,
              Numbers   <- Sequence,
              accepted  <- Accepted,
              judgement <- IF last = NoCall THEN <<>>
                                            ELSE <<last[1], last[2] = "Fresh">>

\* The filter implements AtMostOnce: each check() is an Accept or a Refuse.
ImplementsAtMostOnce == Abstract!Spec

=============================================================================
