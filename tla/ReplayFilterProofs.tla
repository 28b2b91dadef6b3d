------------------------- MODULE ReplayFilterProofs -------------------------
(***************************************************************************)
(* For every width of the bitmap and every range of sequence numbers: the  *)
(* replay filter keeps its types, its bitmap is exact, it delivers nothing *)
(* twice, its verdicts are truthful, and it implements AtMostOnce.         *)
(***************************************************************************)
EXTENDS ReplayFilter, TLAPS

\* Shifting the bitmap by n moves the bit of each number to its new place.
LEMMA ShiftLeftBits ==
  ASSUME NEW bits, NEW n, NEW i \in Bits
  PROVE  i \in ShiftLeft(bits, n) <=> i - n \in bits
  BY DEF ShiftLeft

\* check() returns one of the three verdicts.
LEMMA VerdictOfType ==
  ASSUME NEW w \in Window, NEW s \in Sequence
  PROVE  VerdictOf(w, s) \in Verdict
  BY DEF VerdictOf, Verdict

\* check() leaves a window of the declared type behind.
LEMMA AfterType ==
  ASSUME NEW w \in Window, NEW s \in Sequence
  PROVE  After(w, s) \in Window
  <1>1. CASE Advances(w, s)
    <2>1. Carried(w, s) \cup {0} \in SUBSET Bits
      BY WindowBitsAssumption DEF Carried, ShiftLeft, Bits
    <2>2. After(w, s) = [highest |-> s, seen |-> Carried(w, s) \cup {0}, started |-> TRUE]
      BY <1>1 DEF After
    <2> QED BY <2>1, <2>2 DEF Window
  <1>2. CASE ~Advances(w, s) /\ VerdictOf(w, s) = "Fresh"
    <2>1. Behind(w, s) \in Bits
      BY <1>2, WindowBitsAssumption, MaxSequenceAssumption
         DEF VerdictOf, Advances, Behind, Bits, Window, Sequence
    <2>2. After(w, s) = [w EXCEPT !.seen = @ \cup {Behind(w, s)}]
      BY <1>2 DEF After
    <2> QED BY <2>1, <2>2 DEF Window
  <1>3. CASE ~Advances(w, s) /\ VerdictOf(w, s) # "Fresh"
    BY <1>3 DEF After
  <1> QED BY <1>1, <1>2, <1>3

\* The variables keep their types.
THEOREM TypeCorrect == Spec => []TypeOK
  <1>1. Init => TypeOK
    BY MaxSequenceAssumption DEF Init, TypeOK, New, Window, Sequence
  <1>2. TypeOK /\ [Next]_vars => TypeOK'
    <2> SUFFICES ASSUME TypeOK, [Next]_vars PROVE TypeOK'
      OBVIOUS
    <2>1. ASSUME NEW s \in Sequence, Check(s) PROVE TypeOK'
      <3>1. window' \in Window
        BY <2>1, AfterType DEF Check, TypeOK
      <3>2. last' \in {NoCall} \cup (Sequence \X Verdict)
        BY <2>1, VerdictOfType DEF Check, TypeOK
      <3>3. delivered' \in [Sequence -> Nat]
        BY <2>1 DEF Check, TypeOK
      <3> QED BY <3>1, <3>2, <3>3 DEF TypeOK
    <2>2. CASE UNCHANGED vars
      BY <2>2 DEF vars, TypeOK
    <2> QED BY <2>1, <2>2 DEF Next
  <1> QED BY <1>1, <1>2, PTL DEF Spec

\* How Accepted changes: check() adds its argument exactly when it is Fresh.
LEMMA AcceptedAfterCheck ==
  ASSUME TypeOK, NEW s \in Sequence, Check(s)
  PROVE  Accepted' = IF VerdictOf(window, s) = "Fresh"
                       THEN Accepted \cup {s} ELSE Accepted
  BY DEF Accepted, Check, TypeOK

\* While the bitmap is exact, what check() calls Fresh was never accepted.
LEMMA FreshIsNew ==
  ASSUME FilterInv, NEW s \in Sequence, VerdictOf(window, s) = "Fresh"
  PROVE  s \notin Accepted
  <1>1. CASE Advances(window, s)
    BY <1>1 DEF FilterInv, BitmapExact, TypeOK, Advances, Window, Sequence
  <1>2. CASE ~Advances(window, s)
    <2>1. Behind(window, s) \in Bits /\ Behind(window, s) \notin window.seen
      BY <1>2, WindowBitsAssumption
         DEF VerdictOf, Advances, Behind, Bits, FilterInv, TypeOK, Window, Sequence
    <2>2. window.started /\ window.highest - Behind(window, s) = s
      BY <1>2 DEF Advances, Behind, FilterInv, TypeOK, Window, Sequence
    <2> QED BY <2>1, <2>2 DEF FilterInv, BitmapExact
  <1> QED BY <1>1, <1>2

\* check() keeps the bitmap exact.
LEMMA CheckKeepsBitmapExact ==
  ASSUME FilterInv, NEW s \in Sequence, Check(s)
  PROVE  BitmapExact'
  <1> DEFINE v == VerdictOf(window, s)
  <1> USE DEF FilterInv
  <1>0. window \in Window /\ window' = After(window, s) /\ window' \in Window
    BY AfterType DEF TypeOK, Check
  <1>1. CASE Advances(window, s)
    <2>1. Accepted' = Accepted \cup {s}
      BY <1>1, AcceptedAfterCheck DEF VerdictOf
    <2>2. /\ window'.highest = s
          /\ window'.seen = Carried(window, s) \cup {0}
          /\ window'.started
      BY <1>0, <1>1 DEF After
    <2>3. \A t \in Accepted : window.started /\ t <= window.highest /\ t < s
      BY <1>0, <1>1 DEF BitmapExact, Advances, Accepted, Window, Sequence
    <2>4. ASSUME NEW i \in Bits
          PROVE  i \in window'.seen <=> s - i \in Accepted'
      <3>1. CASE i = 0
        BY <3>1, <2>1, <2>2 DEF Sequence
      <3>2. CASE i # 0 /\ ~(window.started /\ s - window.highest < WindowBits)
        <4>1. i \notin window'.seen
          BY <3>2, <2>2 DEF Carried
        <4>2. s - i \notin Accepted'
          <5>1. CASE ~window.started
            BY <5>1, <3>2, <2>1, <2>3 DEF Bits, Sequence
          <5>2. CASE window.started
            <6>1. s - i > window.highest
              BY <5>2, <3>2, <1>0, WindowBitsAssumption DEF Bits, Window, Sequence
            <6>2. s - i # s
              BY <3>2 DEF Bits, Sequence
            <6>3. window.highest \in Int /\ s - i \in Int
              BY <1>0 DEF Bits, Window, Sequence
            <6> QED BY <6>1, <6>2, <6>3, <2>1, <2>3
          <5> QED BY <5>1, <5>2
        <4> QED BY <4>1, <4>2
      <3>3. CASE i # 0 /\ window.started /\ s - window.highest < WindowBits
        <4> DEFINE j == i - (s - window.highest)
        <4>1. i \in window'.seen <=> j \in window.seen
          BY <3>3, <2>2, ShiftLeftBits DEF Carried
        <4>2. window.highest - j = s - i /\ s - i # s
          BY <3>3, <1>0 DEF Bits, Window, Sequence
        <4>3. s - i \in Accepted' <=> window.highest - j \in Accepted
          BY <4>2, <2>1
        <4>4. CASE j \in Bits
          BY <4>4, <4>1, <4>3, <3>3 DEF BitmapExact
        <4>5. CASE j \notin Bits
          <5>1. j \notin window.seen
            BY <4>5, <1>0 DEF Window
          <5>2. window.highest - j > window.highest
            BY <4>5, <3>3, <1>0, <1>1, WindowBitsAssumption
               DEF Bits, Window, Sequence, Advances
          <5>3. window.highest - j \notin Accepted
            BY <5>2, <2>3, <1>0 DEF Bits, Window, Sequence, Accepted
          <5> QED BY <5>1, <5>3, <4>1, <4>3
        <4> QED BY <4>4, <4>5
      <3> QED BY <3>1, <3>2, <3>3
    <2>5. \A t \in Accepted' : t <= s
      BY <2>1, <2>3 DEF Accepted, Sequence
    <2> QED BY <2>1, <2>2, <2>4, <2>5 DEF BitmapExact
  <1>2. CASE ~Advances(window, s) /\ v = "Fresh"
    <2>1. Accepted' = Accepted \cup {s}
      BY <1>2, AcceptedAfterCheck
    <2>2. window' = [window EXCEPT !.seen = @ \cup {Behind(window, s)}]
      BY <1>0, <1>2 DEF After
    <2>3. /\ window'.highest = window.highest
          /\ window'.seen = window.seen \cup {Behind(window, s)}
          /\ window'.started /\ window.started
      BY <2>2, <1>0, <1>2 DEF Window, Advances
    <2>4. s <= window.highest
      BY <1>2, <1>0 DEF Advances, Window, Sequence
    <2>5. ASSUME NEW i \in Bits
          PROVE  i \in window'.seen <=> window.highest - i \in Accepted'
      <3>1. i = Behind(window, s) <=> window.highest - i = s
        BY <1>0 DEF Behind, Bits, Window, Sequence
      <3>2. i \in window.seen <=> window.highest - i \in Accepted
        BY <2>3 DEF BitmapExact
      <3> QED BY <3>1, <3>2, <2>1, <2>3
    <2> QED BY <2>1, <2>3, <2>4, <2>5 DEF BitmapExact
  <1>3. CASE ~Advances(window, s) /\ v # "Fresh"
    <2>1. Accepted' = Accepted
      BY <1>3, AcceptedAfterCheck
    <2>2. window' = window
      BY <1>0, <1>3 DEF After
    <2> QED BY <2>1, <2>2 DEF BitmapExact
  <1> QED BY <1>1, <1>2, <1>3

\* The bitmap stays exact and no sequence number is delivered twice: the two
\* need each other, since an exact bitmap is what refuses the second copy.
THEOREM FilterInvariant == Spec => []FilterInv
  <1>1. Init => FilterInv
    BY MaxSequenceAssumption
       DEF Init, FilterInv, TypeOK, DeliveredAtMostOnce, BitmapExact, Accepted,
           New, Window, Sequence
  <1>2. FilterInv /\ [Next]_vars => FilterInv'
    <2> SUFFICES ASSUME FilterInv, [Next]_vars PROVE FilterInv'
      OBVIOUS
    <2>1. ASSUME NEW s \in Sequence, Check(s) PROVE FilterInv'
      <3>1. TypeOK'
        BY <2>1, AfterType, VerdictOfType DEF Check, TypeOK, FilterInv
      <3>2. BitmapExact'
        BY <2>1, CheckKeepsBitmapExact
      <3>3. DeliveredAtMostOnce'
        <4>1. VerdictOf(window, s) = "Fresh" => delivered[s] = 0
          BY FreshIsNew DEF Accepted, FilterInv, TypeOK
        <4> QED BY <2>1, <4>1 DEF Check, DeliveredAtMostOnce, FilterInv, TypeOK
      <3> QED BY <3>1, <3>2, <3>3 DEF FilterInv
    <2>2. CASE UNCHANGED vars
      BY <2>2 DEF vars, FilterInv, TypeOK, DeliveredAtMostOnce, BitmapExact, Accepted
    <2> QED BY <2>1, <2>2 DEF Next
  <1> QED BY <1>1, <1>2, PTL DEF Spec

\* No sequence number is ever found Fresh twice.
THEOREM AtMostOnceDelivery == Spec => []DeliveredAtMostOnce
  BY FilterInvariant, PTL DEF FilterInv

\* The bitmap is set for the numbers accepted within a window of the highest, and
\* for no others.
THEOREM ExactBitmap == Spec => []BitmapExact
  BY FilterInvariant, PTL DEF FilterInv

\* While the bitmap is exact, what check() calls Duplicate was accepted before.
LEMMA DuplicateIsOld ==
  ASSUME FilterInv, NEW s \in Sequence, VerdictOf(window, s) = "Duplicate"
  PROVE  s \in Accepted
  <1>1. ~Advances(window, s) /\ Behind(window, s) \in window.seen
    BY DEF VerdictOf
  <1>2. window.started /\ window.highest - Behind(window, s) = s
    BY <1>1 DEF Advances, Behind, FilterInv, TypeOK, Window, Sequence
  <1>3. Behind(window, s) \in Bits
    BY <1>1 DEF FilterInv, TypeOK, Window
  <1> QED BY <1>1, <1>2, <1>3 DEF FilterInv, BitmapExact

\* What check() calls TooOld lies WindowBits or more behind the highest.
LEMMA TooOldIsFarBehind ==
  ASSUME FilterInv, NEW s \in Sequence, VerdictOf(window, s) = "TooOld"
  PROVE  /\ window.started
         /\ window.highest \in Accepted
         /\ window.highest - s >= WindowBits
  BY DEF VerdictOf, Advances, Behind, FilterInv, BitmapExact

\* Every verdict tells the truth about what was accepted before.
THEOREM TruthfulVerdicts == Spec => VerdictsTruthful
  <1> DEFINE Truthful ==
        \A s \in Sequence : last' # last /\ last'[1] = s =>
          CASE last'[2] = "Fresh"     -> s \notin Accepted
            [] last'[2] = "Duplicate" -> s \in Accepted
            [] last'[2] = "TooOld"    -> /\ window.started
                                         /\ window.highest - s >= WindowBits
  <1>1. FilterInv /\ [Next]_vars => [Truthful]_vars
    <2> SUFFICES ASSUME FilterInv, NEW r \in Sequence, Check(r) PROVE Truthful
      BY DEF Next
    <2>1. last' = <<r, VerdictOf(window, r)>>
      BY DEF Check
    <2>2. VerdictOf(window, r) \in Verdict
      BY VerdictOfType DEF FilterInv, TypeOK
    <2>3. CASE VerdictOf(window, r) = "Fresh"
      BY <2>1, <2>3, FreshIsNew
    <2>4. CASE VerdictOf(window, r) = "Duplicate"
      BY <2>1, <2>4, DuplicateIsOld
    <2>5. CASE VerdictOf(window, r) = "TooOld"
      BY <2>1, <2>5, TooOldIsFarBehind
    <2> QED BY <2>2, <2>3, <2>4, <2>5 DEF Verdict
  <1> QED BY <1>1, FilterInvariant, PTL DEF Spec, VerdictsTruthful

\* The replay filter implements AtMostOnce: a Fresh verdict is an Accept, and
\* the other two are a Refuse the promise allows.
THEOREM FilterImplementsAtMostOnce == Spec => ImplementsAtMostOnce
  <1>1. Init => Abstract!Init
    BY DEF Init, Abstract!Init, Accepted, NoCall
  <1>2. FilterInv /\ [Next]_vars
          => [Abstract!Next]_<<Accepted, IF last = NoCall THEN <<>>
                                         ELSE <<last[1], last[2] = "Fresh">> >>
    <2> SUFFICES ASSUME FilterInv, [Next]_vars
                 PROVE  [Abstract!Next]_<<Accepted, IF last = NoCall THEN <<>>
                                         ELSE <<last[1], last[2] = "Fresh">> >>
      OBVIOUS
    <2>1. ASSUME NEW s \in Sequence, Check(s)
          PROVE  Abstract!Next
      <3>0. last' = <<s, VerdictOf(window, s)>> /\ last' # NoCall
        BY <2>1 DEF Check, NoCall
      <3>1. CASE VerdictOf(window, s) = "Fresh"
        <4>1. s \notin Accepted
          BY <3>1, FreshIsNew
        <4>2. Accepted' = Accepted \cup {s}
          BY <3>1, <2>1, AcceptedAfterCheck DEF FilterInv
        <4>3. Abstract!Accept(s)
          BY <3>0, <3>1, <4>1, <4>2 DEF Abstract!Accept
        <4> QED BY <4>3 DEF Abstract!Next
      <3>2. CASE VerdictOf(window, s) # "Fresh"
        <4>1. \/ s \in Accepted
              \/ \E t \in Accepted : t - s >= WindowBits
          BY <3>2, VerdictOfType, DuplicateIsOld, TooOldIsFarBehind
             DEF FilterInv, TypeOK, Verdict
        <4>2. Accepted' = Accepted
          BY <3>2, <2>1, AcceptedAfterCheck DEF FilterInv
        <4>3. Abstract!Refuse(s)
          BY <3>0, <3>2, <4>1, <4>2 DEF Abstract!Refuse
        <4> QED BY <4>3 DEF Abstract!Next
      <3> QED BY <3>1, <3>2
    <2>2. CASE UNCHANGED vars
      BY <2>2 DEF vars, Accepted
    <2> QED BY <2>1, <2>2 DEF Next
  <1> QED BY <1>1, <1>2, FilterInvariant, PTL
          DEF Spec, ImplementsAtMostOnce, Abstract!Spec
=============================================================================
