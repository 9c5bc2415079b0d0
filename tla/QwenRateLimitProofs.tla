------------------------ MODULE QwenRateLimitProofs ------------------------
(***************************************************************************)
(* Proofs about QwenRateLimit, for every number of handlers, limit, window *)
(* and stall.                                                              *)
(*                                                                         *)
(* Popped is how many of the admitted requests the deque has dropped: the  *)
(* deque holds the others, in the order in which they were admitted.  The  *)
(* inductive invariant relates each time of the deque to the moment of its *)
(* admission and says that every dropped one is old by the real clock,     *)
(* although it was dropped by the clock of the handler that dropped it.    *)
(***************************************************************************)
EXTENDS QwenRateLimit, SequenceTheorems, TLAPS

Popped == Len(admitted) - Len(times)

\* The deque is never longer than the limit or than what was admitted.
DequeFits ==
    /\ Len(times) <= Limit
    /\ Len(times) <= Len(admitted)

\* A handler holds one clock reading at most, and it is at most MaxStall old.
ReadingsAreRecent ==
    \A w \in Workers : \A n \in now[w] :
        /\ n <= clock /\ clock <= n + MaxStall
        /\ \A m \in now[w] : m = n

\* A request in the deque was admitted at its time or up to MaxStall later.
TimesAreClose ==
    \A i \in 1 .. Len(times) :
        /\ times[i] <= admitted[Popped + i]
        /\ admitted[Popped + i] <= times[i] + MaxStall

\* Requests are admitted in the order of the clock.
AdmittedInOrder ==
    /\ \A i \in 1 .. Len(admitted) : admitted[i] <= clock
    /\ \A i, j \in 1 .. Len(admitted) : i <= j => admitted[i] <= admitted[j]

\* What the deque has dropped is out of the (shortened) window.
DroppedIsOld ==
    \A i \in 1 .. Popped : admitted[i] <= clock - Window + MaxStall

Inv ==
    /\ TypeOK
    /\ DequeFits
    /\ ReadingsAreRecent
    /\ TimesAreClose
    /\ AdmittedInOrder
    /\ DroppedIsOld
    /\ AdmissionsAreSpaced

-----------------------------------------------------------------------------

\* What is left of the deque when its first k entries are dropped.
LEMMA KeptIsTail ==
    ASSUME TypeOK, NEW k \in 0 .. Len(times)
    PROVE  /\ Kept(k) \in Seq(Nat)
           /\ Len(Kept(k)) = Len(times) - k
           /\ \A i \in 1 .. Len(times) - k : Kept(k)[i] = times[k + i]
<1>1. times \in Seq(Nat) /\ Len(times) \in Nat /\ k + 1 \in Int /\ Len(times) \in Int
  BY DEF TypeOK
<1>2. \A i \in (k + 1) .. Len(times) : times[i] \in Nat
  BY <1>1, ElementOfSeq
<1>3. \A n \in Int : n = Len(times) =>
        /\ SubSeq(times, k + 1, n) \in Seq(Nat)
        /\ Len(SubSeq(times, k + 1, n)) = IF k + 1 <= n THEN n - (k + 1) + 1 ELSE 0
        /\ \A i \in 1 .. n - (k + 1) + 1 : SubSeq(times, k + 1, n)[i] = times[(k + 1) + i - 1]
  <2>. SUFFICES ASSUME NEW n \in Int, n = Len(times), NEW m \in Int, m = k + 1
       PROVE  /\ SubSeq(times, m, n) \in Seq(Nat)
              /\ Len(SubSeq(times, m, n)) = IF m <= n THEN n - m + 1 ELSE 0
              /\ \A i \in 1 .. n - m + 1 : SubSeq(times, m, n)[i] = times[m + i - 1]
    BY <1>1
  <2>1. \A i \in m .. n : times[i] \in Nat
    BY <1>2
  <2>. QED  BY <2>1, SubSeqProperties
<1>4. Len(times) = k \/ k + 1 <= Len(times)
  BY <1>1
<1>. QED  BY <1>1, <1>3, <1>4 DEF Kept

\* Dropping the first k entries by a reading n of the clock keeps the deque in
\* step with the admissions, and what it drops is old.
LEMMA Dropping ==
    ASSUME Inv, NEW w \in Workers, NEW n \in now[w], NEW k \in 0 .. Len(times),
           Removes(k, n)
    PROVE  /\ n \in Nat /\ n <= clock /\ clock <= n + MaxStall
           /\ Len(Kept(k)) <= Limit
           /\ Len(Kept(k)) <= Len(admitted)
           /\ \A i \in 1 .. Len(Kept(k)) :
                /\ Kept(k)[i] <= admitted[Len(admitted) - Len(Kept(k)) + i]
                /\ admitted[Len(admitted) - Len(Kept(k)) + i] <= Kept(k)[i] + MaxStall
           /\ \A i \in 1 .. Len(admitted) - Len(Kept(k)) :
                admitted[i] <= clock - Window + MaxStall
<1>. USE ConstantsAssumption
<1>1. TypeOK /\ clock \in Nat /\ Len(times) \in Nat /\ Len(admitted) \in Nat
  BY DEF Inv, TypeOK
<1>2. n \in Nat /\ n <= clock /\ clock <= n + MaxStall
  BY DEF Inv, TypeOK, ReadingsAreRecent
<1>3. /\ Len(Kept(k)) = Len(times) - k
      /\ \A i \in 1 .. Len(times) - k : Kept(k)[i] = times[k + i]
  BY <1>1, KeptIsTail
<1>4. /\ \A i \in 1 .. Len(times) : times[i] \in Nat
      /\ \A i \in 1 .. Len(admitted) : admitted[i] \in Nat
  BY <1>1, ElementOfSeq DEF TypeOK
<1>5. Len(Kept(k)) <= Limit /\ Len(Kept(k)) <= Len(admitted)
  BY <1>1, <1>3 DEF Inv, DequeFits
<1>6. ASSUME NEW i \in 1 .. Len(Kept(k))
      PROVE  /\ Kept(k)[i] <= admitted[Len(admitted) - Len(Kept(k)) + i]
             /\ admitted[Len(admitted) - Len(Kept(k)) + i] <= Kept(k)[i] + MaxStall
  <2>1. k + i \in 1 .. Len(times) /\ Popped + (k + i) = Len(admitted) - Len(Kept(k)) + i
    BY <1>1, <1>3 DEF Popped
  <2>2. /\ times[k + i] <= admitted[Popped + (k + i)]
        /\ admitted[Popped + (k + i)] <= times[k + i] + MaxStall
    BY <2>1 DEF Inv, TimesAreClose
  <2>. QED  BY <1>3, <2>1, <2>2
<1>7. ASSUME NEW i \in 1 .. Len(admitted) - Len(Kept(k))
      PROVE  admitted[i] <= clock - Window + MaxStall
  <2>1. CASE i <= Popped
    <3>1. i \in 1 .. Popped
      BY <1>1, <2>1 DEF Popped
    <3>. QED  BY <3>1 DEF Inv, DroppedIsOld
  <2>2. CASE ~(i <= Popped)
    <3>. DEFINE j == i - Popped
    <3>1. j \in 1 .. k /\ j \in 1 .. Len(times) /\ Popped + j = i
      BY <1>1, <1>3, <1>5, <2>2 DEF Popped, Inv, DequeFits
    <3>2. times[j] <= n - Window
      BY <3>1 DEF Removes, Expired
    <3>3. admitted[i] <= times[j] + MaxStall
      BY <3>1 DEF Inv, TimesAreClose
    <3>4. i \in 1 .. Len(admitted)
      BY <1>1, <1>3, <1>5
    <3>5. times[j] \in Nat /\ admitted[i] \in Nat
      BY <1>4, <3>1, <3>4
    <3>. HIDE DEF j
    <3>. QED  BY <1>1, <1>2, <3>2, <3>3, <3>5
  <2>. QED  BY <2>1, <2>2
<1>. QED  BY <1>2, <1>5, <1>6, <1>7

-----------------------------------------------------------------------------

LEMMA InitInv == Init => Inv
<1>. SUFFICES ASSUME Init PROVE Inv
  OBVIOUS
<1>. USE ConstantsAssumption
<1>1. times = <<>> /\ admitted = <<>> /\ clock = 0 /\ now = [w \in Workers |-> {}]
  BY DEF Init
<1>2. Len(times) = 0 /\ Len(admitted) = 0 /\ times \in Seq(Nat) /\ admitted \in Seq(Nat)
  BY <1>1
<1>3. TypeOK
  BY <1>1, <1>2 DEF TypeOK
<1>4. DequeFits /\ ReadingsAreRecent
  BY <1>1, <1>2 DEF DequeFits, ReadingsAreRecent
<1>5. TimesAreClose /\ AdmittedInOrder /\ DroppedIsOld /\ AdmissionsAreSpaced
  BY <1>2 DEF TimesAreClose, AdmittedInOrder, DroppedIsOld, Popped, AdmissionsAreSpaced
<1>. QED  BY <1>3, <1>4, <1>5 DEF Inv

LEMMA TickInv == Inv /\ Tick => Inv'
<1>. SUFFICES ASSUME Inv, Tick PROVE Inv'
  OBVIOUS
<1>. USE ConstantsAssumption
<1>1. /\ clock' = clock + 1 /\ times' = times /\ now' = now /\ admitted' = admitted
      /\ \A w \in Workers : \A n \in now[w] : clock < n + MaxStall
  BY DEF Tick
<1>2. TypeOK /\ clock \in Nat /\ Len(admitted) \in Nat /\ Len(times) \in Nat
  BY DEF Inv, TypeOK
<1>3. TypeOK'
  BY <1>1, <1>2 DEF TypeOK
<1>4. /\ \A w \in Workers : \A n \in now[w] : n \in Nat
      /\ \A i \in 1 .. Len(admitted) : admitted[i] \in Nat
  BY <1>2, ElementOfSeq DEF TypeOK
<1>5. DequeFits' /\ TimesAreClose' /\ AdmissionsAreSpaced'
  BY <1>1 DEF Inv, DequeFits, TimesAreClose, Popped, AdmissionsAreSpaced
<1>6. ReadingsAreRecent'
  BY <1>1, <1>2, <1>4 DEF Inv, ReadingsAreRecent
<1>7. AdmittedInOrder'
  BY <1>1, <1>2, <1>4 DEF Inv, AdmittedInOrder
<1>8. DroppedIsOld'
  <2>1. ASSUME NEW i \in 1 .. Len(admitted) - Len(times)
        PROVE  admitted[i] <= clock + 1 - Window + MaxStall
    <3>1. admitted[i] <= clock - Window + MaxStall
      BY DEF Inv, DroppedIsOld, Popped
    <3>2. i \in 1 .. Len(admitted)
      BY <1>2
    <3>. QED  BY <1>2, <1>4, <3>1, <3>2
  <2>2. clock' = clock + 1 /\ times' = times /\ admitted' = admitted
    BY <1>1
  <2>. QED  BY <1>2, <2>1, <2>2 DEF DroppedIsOld, Popped
<1>. QED  BY <1>3, <1>5, <1>6, <1>7, <1>8 DEF Inv

LEMMA ReadClockInv == \A w \in Workers : Inv /\ ReadClock(w) => Inv'
<1>. SUFFICES ASSUME NEW w \in Workers, Inv, ReadClock(w) PROVE Inv'
  OBVIOUS
<1>. USE ConstantsAssumption
<1>1. /\ clock' = clock /\ times' = times /\ admitted' = admitted
      /\ now' = [now EXCEPT ![w] = {clock}]
  BY DEF ReadClock
<1>2. TypeOK'
  BY <1>1 DEF Inv, TypeOK
<1>3. ReadingsAreRecent'
  BY <1>1 DEF Inv, TypeOK, ReadingsAreRecent
<1>4. /\ DequeFits' /\ TimesAreClose' /\ AdmissionsAreSpaced'
      /\ AdmittedInOrder' /\ DroppedIsOld'
  BY <1>1 DEF Inv, DequeFits, TimesAreClose, Popped, AdmissionsAreSpaced,
              AdmittedInOrder, DroppedIsOld
<1>. QED  BY <1>2, <1>3, <1>4 DEF Inv

LEMMA RefuseInv == \A w \in Workers : Inv /\ Refuse(w) => Inv'
<1>. SUFFICES ASSUME NEW w \in Workers, Inv, Refuse(w) PROVE Inv'
  OBVIOUS
<1>. USE ConstantsAssumption
<1>1. PICK n \in now[w], k \in 0 .. Len(times) :
        /\ Removes(k, n)
        /\ times' = Kept(k)
        /\ now' = [now EXCEPT ![w] = {}]
        /\ clock' = clock /\ admitted' = admitted
  BY DEF Refuse
<1>2. /\ Len(Kept(k)) <= Limit
      /\ Len(Kept(k)) <= Len(admitted)
      /\ \A i \in 1 .. Len(Kept(k)) :
            /\ Kept(k)[i] <= admitted[Len(admitted) - Len(Kept(k)) + i]
            /\ admitted[Len(admitted) - Len(Kept(k)) + i] <= Kept(k)[i] + MaxStall
      /\ \A i \in 1 .. Len(admitted) - Len(Kept(k)) :
            admitted[i] <= clock - Window + MaxStall
  BY <1>1, Dropping
<1>3. TypeOK'
  <2>1. Kept(k) \in Seq(Nat)
    BY KeptIsTail DEF Inv
  <2>2. [now EXCEPT ![w] = {}] \in [Workers -> SUBSET Nat]
    BY DEF Inv, TypeOK
  <2>. QED  BY <1>1, <2>1, <2>2 DEF Inv, TypeOK
<1>4. ReadingsAreRecent'
  BY <1>1 DEF Inv, TypeOK, ReadingsAreRecent
<1>5. DequeFits' /\ TimesAreClose' /\ DroppedIsOld'
  BY <1>1, <1>2 DEF DequeFits, TimesAreClose, DroppedIsOld, Popped
<1>6. AdmissionsAreSpaced' /\ AdmittedInOrder'
  BY <1>1 DEF Inv, AdmissionsAreSpaced, AdmittedInOrder
<1>. QED  BY <1>3, <1>4, <1>5, <1>6 DEF Inv

LEMMA AdmitInv == \A w \in Workers : Inv /\ Admit(w) => Inv'
<1>. SUFFICES ASSUME NEW w \in Workers, Inv, Admit(w) PROVE Inv'
  OBVIOUS
<1>. USE ConstantsAssumption
<1>1. PICK n \in now[w], k \in 0 .. Len(times) :
        /\ Removes(k, n)
        /\ ~Full(Kept(k))
        /\ times' = Append(Kept(k), n)
        /\ admitted' = Append(admitted, clock)
        /\ now' = [now EXCEPT ![w] = {}]
        /\ clock' = clock
  BY DEF Admit
<1>. DEFINE kept == Kept(k)
            len == Len(admitted)
<1>2. /\ n \in Nat /\ n <= clock /\ clock <= n + MaxStall
      /\ Len(kept) <= Limit
      /\ Len(kept) <= len
      /\ \A i \in 1 .. Len(kept) :
            /\ kept[i] <= admitted[len - Len(kept) + i]
            /\ admitted[len - Len(kept) + i] <= kept[i] + MaxStall
      /\ \A i \in 1 .. len - Len(kept) : admitted[i] <= clock - Window + MaxStall
  BY <1>1, Dropping
<1>3. /\ clock \in Nat /\ admitted \in Seq(Nat) /\ len \in Nat
      /\ kept \in Seq(Nat) /\ Len(kept) \in Nat
      /\ \A i \in 1 .. len : admitted[i] \in Nat
      /\ \A i \in 1 .. Len(kept) : kept[i] \in Nat
  <2>1. kept \in Seq(Nat)
    BY KeptIsTail DEF Inv
  <2>. QED  BY <2>1, ElementOfSeq DEF Inv, TypeOK
<1>4. Len(kept) < Limit
  BY <1>1, <1>3 DEF Full
<1>. HIDE DEF kept
<1>5. /\ times' \in Seq(Nat) /\ Len(times') = Len(kept) + 1
      /\ \A i \in 1 .. Len(kept) : times'[i] = kept[i]
      /\ times'[Len(kept) + 1] = n
  BY <1>1, <1>2, <1>3, AppendProperties DEF kept
<1>6. /\ admitted' \in Seq(Nat) /\ Len(admitted') = len + 1
      /\ \A i \in 1 .. len : admitted'[i] = admitted[i]
      /\ admitted'[len + 1] = clock
  BY <1>1, <1>3, AppendProperties
<1>0. len \in Nat
  BY <1>3
<1>. HIDE DEF len
<1>7. TypeOK'
  BY <1>1, <1>3, <1>5, <1>6 DEF Inv, TypeOK
<1>8. DequeFits'
  BY <1>2, <1>3, <1>4, <1>5, <1>6 DEF DequeFits
<1>9. ReadingsAreRecent'
  BY <1>1 DEF Inv, TypeOK, ReadingsAreRecent
<1>10. Popped' = len - Len(kept)
  BY <1>3, <1>5, <1>6 DEF Popped
<1>11. TimesAreClose'
  <2>. SUFFICES ASSUME NEW i \in 1 .. Len(kept) + 1
                PROVE  /\ times'[i] <= admitted'[len - Len(kept) + i]
                       /\ admitted'[len - Len(kept) + i] <= times'[i] + MaxStall
    BY <1>5, <1>10 DEF TimesAreClose
  <2>1. CASE i = Len(kept) + 1
    <3>1. len - Len(kept) + i = len + 1
      BY <1>3, <2>1
    <3>. QED  BY <1>2, <1>5, <1>6, <2>1, <3>1
  <2>2. CASE i # Len(kept) + 1
    <3>1. i \in 1 .. Len(kept) /\ len - Len(kept) + i \in 1 .. len
      BY <1>2, <1>3, <2>2
    <3>. QED  BY <1>2, <1>5, <1>6, <3>1
  <2>. QED  BY <2>1, <2>2
<1>12. AdmittedInOrder'
  <2>1. \A i \in 1 .. len : admitted[i] <= clock
    BY DEF Inv, AdmittedInOrder, len
  <2>2. \A i, j \in 1 .. len : i <= j => admitted[i] <= admitted[j]
    BY DEF Inv, AdmittedInOrder, len
  <2>3. ASSUME NEW i \in 1 .. len + 1 PROVE admitted'[i] <= clock
    <3>1. CASE i = len + 1
      BY <1>3, <1>6, <3>1
    <3>2. CASE i # len + 1
      <4>1. i \in 1 .. len
        BY <1>0, <3>2
      <4>. QED  BY <1>6, <2>1, <4>1
    <3>. QED  BY <3>1, <3>2
  <2>4. ASSUME NEW i \in 1 .. len + 1, NEW j \in 1 .. len + 1, i <= j
        PROVE  admitted'[i] <= admitted'[j]
    <3>1. CASE j = len + 1
      BY <1>6, <2>3, <3>1
    <3>2. CASE j # len + 1
      <4>1. i \in 1 .. len /\ j \in 1 .. len
        BY <1>0, <2>4, <3>2
      <4>. QED  BY <1>6, <2>2, <2>4, <4>1
    <3>. QED  BY <3>1, <3>2
  <2>. QED  BY <1>1, <1>6, <2>3, <2>4 DEF AdmittedInOrder
<1>13. DroppedIsOld'
  BY <1>1, <1>2, <1>3, <1>6, <1>10 DEF DroppedIsOld
<1>14. AdmissionsAreSpaced'
  <2>. SUFFICES ASSUME NEW i \in 1 .. len + 1, i + Limit <= len + 1
                PROVE  admitted'[i + Limit] >= admitted'[i] + Window - MaxStall
    BY <1>6 DEF AdmissionsAreSpaced
  <2>0. i \in 1 .. len
    BY <1>0
  <2>1. CASE i + Limit = len + 1
    <3>1. i \in 1 .. len - Len(kept)
      BY <1>3, <1>4, <2>1
    <3>2. admitted[i] <= clock - Window + MaxStall
      BY <1>2, <3>1
    <3>3. admitted'[i + Limit] = clock /\ admitted'[i] = admitted[i] /\ admitted[i] \in Nat
      BY <1>3, <1>6, <2>0, <2>1
    <3>. QED  BY <1>3, <3>2, <3>3
  <2>2. CASE i + Limit # len + 1
    <3>1. i + Limit \in 1 .. len /\ i + Limit <= len
      BY <1>0, <2>2
    <3>2. admitted[i + Limit] >= admitted[i] + Window - MaxStall
      BY <2>0, <3>1 DEF Inv, AdmissionsAreSpaced, len
    <3>. QED  BY <1>6, <2>0, <3>1, <3>2
  <2>. QED  BY <2>1, <2>2
<1>. QED  BY <1>7, <1>8, <1>9, <1>11, <1>12, <1>13, <1>14 DEF Inv

\* Inv is inductive.
LEMMA NextInv == Inv /\ [Next]_vars => Inv'
<1>. SUFFICES ASSUME Inv, [Next]_vars PROVE Inv'
  OBVIOUS
<1>1. CASE Tick
  BY <1>1, TickInv
<1>2. CASE \E w \in Workers : ReadClock(w) \/ Admit(w) \/ Refuse(w)
  BY <1>2, ReadClockInv, AdmitInv, RefuseInv
<1>3. CASE UNCHANGED vars
  BY <1>3 DEF vars, Inv, TypeOK, DequeFits, ReadingsAreRecent, TimesAreClose, Popped,
              AdmittedInOrder, DroppedIsOld, AdmissionsAreSpaced
<1>. QED  BY <1>1, <1>2, <1>3 DEF Next

LEMMA InvAlways == Spec => []Inv
BY InitInv, NextInv, PTL DEF Spec

\* The limiter's state has its type, whatever the handlers do.
THEOREM TypeCorrect == Spec => []TypeOK
<1>1. Inv => TypeOK
  BY DEF Inv
<1>. QED  BY <1>1, InvAlways, PTL

\* Whatever the limit, the window, the number of handlers and the order in
\* which they get the lock, more than Limit requests are never admitted within
\* the window less the stall (AdmissionsAreSpaced).
THEOREM AdmissionsSpaced == Spec => []AdmissionsAreSpaced
<1>1. Inv => AdmissionsAreSpaced
  BY DEF Inv
<1>. QED  BY <1>1, InvAlways, PTL

\* A step that refuses finds Limit admissions in the window before the time
\* that the refused handler read.
LEMMA RefusalIsEarned ==
    ASSUME Inv, NEW w \in Workers, NEW n \in now[w], now'[w] = {}, admitted' = admitted,
           [Next]_vars
    PROVE  Len(admitted) >= Limit /\ admitted[Len(admitted) - Limit + 1] > n - Window
<1>. USE ConstantsAssumption
<1>1. Refuse(w)
  <2>1. TypeOK /\ now[w] # {} /\ now'[w] # now[w]
    BY DEF Inv
  <2>2. ~(UNCHANGED vars) /\ ~Tick
    BY <2>1 DEF vars, Tick
  <2>3. ASSUME NEW v \in Workers, ReadClock(v) PROVE FALSE
    BY <2>1, <2>3 DEF ReadClock, TypeOK
  <2>4. ASSUME NEW v \in Workers, Admit(v) PROVE FALSE
    <3>1. admitted' = Append(admitted, clock) /\ clock \in Nat /\ admitted \in Seq(Nat)
      BY <2>1, <2>4 DEF Admit, TypeOK
    <3>2. Len(admitted') = Len(admitted) + 1 /\ Len(admitted) \in Nat
      BY <3>1, AppendProperties
    <3>. QED  BY <3>2
  <2>5. ASSUME NEW v \in Workers, Refuse(v) PROVE v = w
    BY <2>1, <2>5 DEF Refuse, TypeOK
  <2>. QED  BY <2>2, <2>3, <2>4, <2>5 DEF Next
<1>2. PICK m \in now[w], k \in 0 .. Len(times) : Removes(k, m) /\ Full(Kept(k))
  BY <1>1 DEF Refuse
<1>3. m = n
  BY <1>2 DEF Inv, ReadingsAreRecent
<1>. DEFINE kept == Kept(k)
            first == Len(admitted) - Len(kept) + 1
<1>4. /\ Len(admitted) \in Nat /\ Len(times) \in Nat /\ n \in Nat
      /\ \A i \in 1 .. Len(times) : times[i] \in Nat
      /\ \A i \in 1 .. Len(admitted) : admitted[i] \in Nat
  BY ElementOfSeq DEF Inv, TypeOK
<1>5. /\ Len(kept) = Len(times) - k
      /\ \A i \in 1 .. Len(times) - k : kept[i] = times[k + i]
  BY KeptIsTail DEF Inv
<1>6. /\ Len(kept) <= Limit /\ Len(kept) <= Len(admitted)
      /\ \A i \in 1 .. Len(kept) : kept[i] <= admitted[Len(admitted) - Len(kept) + i]
  BY <1>2, Dropping
<1>7. Len(kept) = Limit /\ k < Len(times)
  BY <1>2, <1>4, <1>5, <1>6 DEF Full
<1>8. ~(times[k + 1] <= n - Window) /\ kept[1] = times[k + 1]
  BY <1>2, <1>3, <1>4, <1>5, <1>7 DEF Removes, Expired
<1>9. kept[1] <= admitted[first] /\ first \in 1 .. Len(admitted)
  BY <1>4, <1>6, <1>7
<1>10. times[k + 1] \in Nat /\ admitted[first] \in Nat
  BY <1>4, <1>7, <1>9
<1>11. admitted[first] > n - Window
  <2>. HIDE DEF first, kept
  <2>. QED  BY <1>4, <1>8, <1>9, <1>10
<1>. QED  BY <1>4, <1>6, <1>7, <1>11

\* A handler is never refused unless Limit requests were admitted in the window
\* before the time it read (RefusalsAreEarned), so a lone retry a minute after
\* a 429 is admitted.
THEOREM RefusalsEarned == Spec => RefusalsAreEarned
<1>1. Inv /\ [Next]_vars =>
        [\A w \in Workers : \A n \in now[w] :
            now'[w] = {} /\ admitted' = admitted =>
                /\ Len(admitted) >= Limit
                /\ admitted[Len(admitted) - Limit + 1] > n - Window]_vars
  BY RefusalIsEarned
<1>. QED  BY <1>1, InvAlways, PTL DEF Spec, RefusalsAreEarned
=============================================================================
