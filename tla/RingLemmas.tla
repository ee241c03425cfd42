----------------------------- MODULE RingLemmas -----------------------------
(***************************************************************************)
(* The arithmetic of Ring, proved for every ring size; the proofs about    *)
(* the receive and the transmit ring rest on it.                           *)
(***************************************************************************)
EXTENDS Ring, TLAPS

(* The ring arithmetic without the modulo: the next descriptor is the      *)
(* following one, or 0 after the last.                                     *)
LEMMA NextDescStep ==
  ASSUME NEW i \in Desc
  PROVE  /\ NextDesc(i) = IF i = NDesc - 1 THEN 0 ELSE i + 1
         /\ NextDesc(i) \in Desc
<1>1. CASE i = NDesc - 1
  BY <1>1, NDescAssumption DEF Desc, NextDesc
<1>2. CASE i # NDesc - 1
  <2>1. i + 1 \in 0..(NDesc - 1)
    BY <1>2, NDescAssumption DEF Desc
  <2>2. (i + 1) % NDesc = i + 1
    BY <2>1, NDescAssumption
  <2> QED BY <1>2, <2>1, <2>2 DEF Desc, NextDesc
<1> QED BY <1>1, <1>2

(* The descriptor k places after a, for k up to a whole turn.              *)
LEMMA PlusStep ==
  ASSUME NEW a \in Desc, NEW k \in 0..NDesc
  PROVE  (a + k) % NDesc = IF a + k < NDesc THEN a + k ELSE a + k - NDesc
<1>1. CASE a + k < NDesc
  BY <1>1, NDescAssumption DEF Desc
<1>2. CASE a + k >= NDesc
  <2>1. a + k - NDesc \in 0..(NDesc - 1)
    BY <1>2, NDescAssumption DEF Desc
  <2>2. (a + k - NDesc) % NDesc = a + k - NDesc
    BY <2>1, NDescAssumption
  <2>3. (a + k) % NDesc = (a + k - NDesc) % NDesc
    BY NDescAssumption DEF Desc
  <2> QED BY <1>2, <2>2, <2>3, NDescAssumption DEF Desc
<1> QED BY <1>1, <1>2, NDescAssumption DEF Desc

(* Distances round the ring: they are below NDesc, tell descriptors apart, *)
(* and shrink by one when the starting point advances.                     *)
LEMMA DistFacts ==
  ASSUME NEW a \in Desc, NEW b \in Desc
  PROVE  /\ Dist(a, b) \in 0..(NDesc - 1)
         /\ Dist(a, b) = 0 <=> a = b
         /\ \A c \in Desc : Dist(a, b) = Dist(a, c) => b = c
         /\ b # a => Dist(NextDesc(a), b) = Dist(a, b) - 1
         /\ Dist(NextDesc(a), a) = NDesc - 1
<1>1. NDesc \in Nat \ {0} /\ a \in 0..(NDesc - 1) /\ b \in 0..(NDesc - 1)
  BY NDescAssumption DEF Desc
<1>2. Dist(a, b) \in 0..(NDesc - 1) /\ (Dist(a, b) = 0 <=> a = b)
  BY <1>1 DEF Dist
<1>3. ASSUME NEW c \in Desc, Dist(a, b) = Dist(a, c) PROVE b = c
  BY <1>1, <1>3 DEF Dist, Desc
<1>4. NextDesc(a) = IF a = NDesc - 1 THEN 0 ELSE a + 1
  BY NextDescStep
<1>5. b # a => Dist(NextDesc(a), b) = Dist(a, b) - 1
  BY <1>1, <1>4 DEF Dist
<1>6. Dist(NextDesc(a), a) = NDesc - 1
  BY <1>1, <1>4 DEF Dist
<1> QED BY <1>2, <1>3, <1>5, <1>6

(* The descriptor right behind k pending ones is at distance k, unless the *)
(* ring is full, when it is the oldest one again.                          *)
LEMMA DistPlus ==
  ASSUME NEW a \in Desc, NEW k \in 0..NDesc
  PROVE  /\ (a + k) % NDesc \in Desc
         /\ Dist(a, (a + k) % NDesc) = IF k = NDesc THEN 0 ELSE k
         /\ k < NDesc => NextDesc((a + k) % NDesc) = (a + (k + 1)) % NDesc
         /\ k > 0 => (a + k) % NDesc = (NextDesc(a) + (k - 1)) % NDesc
<1> DEFINE p == (a + k) % NDesc
<1>1. NDesc \in Nat \ {0} /\ a \in 0..(NDesc - 1)
  BY NDescAssumption DEF Desc
<1>2. p = IF a + k < NDesc THEN a + k ELSE a + k - NDesc
  BY PlusStep
<1>3. p \in Desc
  BY <1>1, <1>2 DEF Desc
<1>4. Dist(a, p) = IF k = NDesc THEN 0 ELSE k
  BY <1>1, <1>2 DEF Dist
<1>5. ASSUME k < NDesc PROVE NextDesc(p) = (a + (k + 1)) % NDesc
  <2>1. k + 1 \in 0..NDesc
    BY <1>1, <1>5
  <2>2. (a + (k + 1)) % NDesc = IF a + (k + 1) < NDesc THEN a + (k + 1)
                                                     ELSE a + (k + 1) - NDesc
    BY <2>1, PlusStep
  <2>3. NextDesc(p) = IF p = NDesc - 1 THEN 0 ELSE p + 1
    BY <1>3, NextDescStep
  <2> HIDE DEF p
  <2> QED BY <1>1, <1>2, <1>5, <2>2, <2>3
<1>6. ASSUME k > 0 PROVE p = (NextDesc(a) + (k - 1)) % NDesc
  <2>1. k - 1 \in 0..NDesc
    BY <1>1, <1>6
  <2>2. NextDesc(a) \in Desc /\ NextDesc(a) = IF a = NDesc - 1 THEN 0 ELSE a + 1
    BY NextDescStep
  <2>3. (NextDesc(a) + (k - 1)) % NDesc
          = IF NextDesc(a) + (k - 1) < NDesc THEN NextDesc(a) + (k - 1)
                                             ELSE NextDesc(a) + (k - 1) - NDesc
    BY <2>1, <2>2, PlusStep
  <2> HIDE DEF p
  <2> QED BY <1>1, <1>2, <1>6, <2>2, <2>3
<1> QED BY <1>3, <1>4, <1>5, <1>6
=============================================================================
