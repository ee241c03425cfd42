--------------------------- MODULE StampFrameProof ---------------------------
(***************************************************************************)
(* With one sender and one listener the four times that stamp-frame        *)
(* reports are of one exchange, whichever stamps are missing and whether   *)
(* sending fails, frames are lost, senders killed or listeners, one of the *)
(* four: for any number of starts and frames.  When nothing but stamps and *)
(* senders are lost, a kill spoils one report at most.                     *)
(***************************************************************************)
EXTENDS StampFrame, TLAPS

-----------------------------------------------------------------------------
(* Sequences of anything *)

IsSeq(s) == \E S : s \in Seq(S)

(* What is appended to a sequence.                                         *)
LEMMA AppendFacts ==
  ASSUME NEW s, IsSeq(s), NEW x
  PROVE  /\ IsSeq(Append(s, x)) /\ Append(s, x) # << >>
         /\ Len(s) \in Nat /\ Len(Append(s, x)) = Len(s) + 1
         /\ Append(s, x)[Len(s) + 1] = x
         /\ \A k \in 1..Len(s) : Append(s, x)[k] = s[k]
<1>1. PICK S : s \in Seq(S)
  BY DEF IsSeq
<1>2. PICK T : T = S \cup {x}
  OBVIOUS
<1>3. s \in Seq(T) /\ x \in T
  BY <1>1, <1>2
<1>4. /\ Append(s, x) \in Seq(T) /\ Append(s, x) # << >>
      /\ Len(s) \in Nat /\ Len(Append(s, x)) = Len(s) + 1
      /\ Append(s, x)[Len(s) + 1] = x
      /\ \A k \in 1..Len(s) : Append(s, x)[k] = s[k]
  BY <1>3
<1> QED BY <1>4 DEF IsSeq

(* What is left of a sequence without its first element.                   *)
LEMMA TailFacts ==
  ASSUME NEW s, IsSeq(s), s # << >>
  PROVE  /\ IsSeq(Tail(s)) /\ Head(s) = s[1] /\ 1 \in 1..Len(s)
         /\ Len(s) \in Nat \ {0} /\ Len(Tail(s)) = Len(s) - 1
         /\ \A k \in 1..Len(Tail(s)) : k + 1 \in 1..Len(s) /\ Tail(s)[k] = s[k + 1]
<1>1. PICK S : s \in Seq(S)
  BY DEF IsSeq
<1>2. /\ Tail(s) \in Seq(S) /\ Head(s) = s[1]
      /\ Len(s) \in Nat \ {0} /\ Len(Tail(s)) = Len(s) - 1
  BY <1>1
<1>3. \A k \in 1..Len(Tail(s)) : k + 1 \in 1..Len(s) /\ Tail(s)[k] = s[k + 1]
  BY <1>1
<1> QED BY <1>2, <1>3 DEF IsSeq

(* A sequence is empty when its length is nothing.                         *)
LEMMA EmptyFacts ==
  ASSUME NEW s, IsSeq(s)
  PROVE  Len(s) \in Nat /\ (s = << >> <=> Len(s) = 0)
<1>1. PICK S : s \in Seq(S)
  BY DEF IsSeq
<1> QED BY <1>1

\* The empty sequence.
LEMMA NoneFacts == IsSeq(<< >>) /\ Len(<< >>) = 0
<1>1. << >> \in Seq({})
  OBVIOUS
<1> QED BY <1>1 DEF IsSeq

\* Two sequences in a row.
LEMMA CatFacts ==
  ASSUME NEW a, IsSeq(a), NEW b, IsSeq(b)
  PROVE  /\ IsSeq(a \o b)
         /\ Len(a) \in Nat /\ Len(b) \in Nat /\ Len(a \o b) = Len(a) + Len(b)
         /\ \A k \in 1..Len(a) : (a \o b)[k] = a[k]
         /\ \A k \in 1..Len(b) : (a \o b)[Len(a) + k] = b[k]
<1>1. PICK S : a \in Seq(S)
  BY DEF IsSeq
<1>2. PICK T : b \in Seq(T)
  BY DEF IsSeq
<1>3. PICK U : U = S \cup T
  OBVIOUS
<1>4. a \in Seq(U) /\ b \in Seq(U)
  BY <1>1, <1>2, <1>3
<1>5. /\ a \o b \in Seq(U)
      /\ Len(a) \in Nat /\ Len(b) \in Nat /\ Len(a \o b) = Len(a) + Len(b)
      /\ \A k \in 1..Len(a) : (a \o b)[k] = a[k]
      /\ \A k \in 1..Len(b) : (a \o b)[Len(a) + k] = b[k]
  BY <1>4
<1> QED BY <1>5 DEF IsSeq

(* Sequences are equal when their elements are.                            *)
LEMMA SameSeq ==
  ASSUME NEW s, IsSeq(s), NEW t, IsSeq(t), Len(s) = Len(t),
         \A k \in 1..Len(s) : s[k] = t[k]
  PROVE  s = t
<1>1. PICK S : s \in Seq(S)
  BY DEF IsSeq
<1>2. PICK T : t \in Seq(T)
  BY DEF IsSeq
<1>3. /\ s = [k \in 1..Len(s) |-> s[k]]
      /\ t = [k \in 1..Len(t) |-> t[k]]
  BY <1>1, <1>2
<1> QED BY <1>3

(* A frame joins the last ones of a queue.                                 *)
LEMMA CatAppend ==
  ASSUME NEW a, IsSeq(a), NEW b, IsSeq(b), NEW m
  PROVE  a \o Append(b, m) = Append(a \o b, m)
<1> DEFINE s == a \o Append(b, m)
           t == Append(a \o b, m)
<1>1. /\ IsSeq(a \o b) /\ IsSeq(Append(b, m))
      /\ Len(a) \in Nat /\ Len(b) \in Nat
      /\ Len(a \o b) = Len(a) + Len(b) /\ Len(Append(b, m)) = Len(b) + 1
  BY AppendFacts, CatFacts
<1>2. IsSeq(s) /\ IsSeq(t) /\ Len(s) = Len(a) + Len(b) + 1 /\ Len(t) = Len(s)
  BY <1>1, AppendFacts, CatFacts
<1>3. ASSUME NEW k \in 1..Len(s) PROVE s[k] = t[k]
  <2>1. CASE k \in 1..Len(a)
    <3>1. s[k] = a[k]
      BY <1>1, <2>1, CatFacts
    <3>2. k \in 1..Len(a \o b) /\ (a \o b)[k] = a[k]
      BY <1>1, <2>1, CatFacts
    <3> QED BY <1>1, <3>1, <3>2, AppendFacts
  <2>2. CASE k \notin 1..Len(a)
    <3>1. PICK j : j = k - Len(a)
      OBVIOUS
    <3>2. j \in 1..(Len(b) + 1) /\ k = Len(a) + j
      BY <1>1, <1>2, <2>2, <3>1
    <3>3. s[k] = Append(b, m)[j]
      <4>1. PICK y : y = Append(b, m)
        OBVIOUS
      <4>2. IsSeq(y) /\ j \in 1..Len(y)
        BY <1>1, <3>2, <4>1
      <4>3. (a \o y)[Len(a) + j] = y[j]
        BY <4>2, CatFacts
      <4> QED BY <3>2, <4>1, <4>3
    <3>4. CASE j = Len(b) + 1
      <4>1. k = Len(a \o b) + 1
        BY <1>1, <3>2, <3>4
      <4> QED BY <1>1, <3>3, <3>4, <4>1, AppendFacts
    <3>5. CASE j \in 1..Len(b)
      <4>1. k \in 1..Len(a \o b) /\ (a \o b)[k] = b[j]
        BY <1>1, <3>2, <3>5, CatFacts
      <4> QED BY <1>1, <3>3, <3>5, <4>1, AppendFacts
    <3> QED BY <1>1, <3>2, <3>4, <3>5
  <2> QED BY <2>1, <2>2
<1> HIDE DEF s, t
<1>4. s = t
  BY <1>2, <1>3, SameSeq
<1> QED BY <1>4 DEF s, t

(* The first frame of one queue moves to the end of the one before it.     *)
LEMMA CatMove ==
  ASSUME NEW a, IsSeq(a), NEW b, IsSeq(b), b # << >>
  PROVE  Append(a, Head(b)) \o Tail(b) = a \o b
<1> DEFINE x == Append(a, Head(b))
           s == x \o Tail(b)
           t == a \o b
<1>1. /\ IsSeq(x) /\ IsSeq(Tail(b)) /\ IsSeq(t)
      /\ Len(a) \in Nat /\ Len(b) \in Nat \ {0}
      /\ Len(x) = Len(a) + 1 /\ Len(Tail(b)) = Len(b) - 1 /\ Len(t) = Len(a) + Len(b)
  BY AppendFacts, TailFacts, CatFacts
<1>2. IsSeq(s) /\ Len(s) = Len(t)
  BY <1>1, CatFacts
<1>3. ASSUME NEW k \in 1..Len(s) PROVE s[k] = t[k]
  <2>1. CASE k \in 1..Len(a)
    <3>1. k \in 1..Len(x) /\ x[k] = a[k]
      BY <1>1, <2>1, AppendFacts
    <3> QED BY <1>1, <2>1, <3>1, CatFacts
  <2>2. CASE k = Len(a) + 1
    <3>1. k \in 1..Len(x) /\ x[k] = b[1]
      BY <1>1, <2>2, AppendFacts, TailFacts
    <3>2. 1 \in 1..Len(b) /\ t[Len(a) + 1] = b[1]
      BY <1>1, CatFacts
    <3> QED BY <1>1, <2>2, <3>1, <3>2, CatFacts
  <2>3. CASE ~(k \in 1..(Len(a) + 1))
    <3>1. PICK j : j = k - Len(a) - 1
      OBVIOUS
    <3>2. /\ j \in 1..Len(Tail(b)) /\ k = Len(x) + j
          /\ j + 1 \in 1..Len(b) /\ k = Len(a) + (j + 1)
      BY <1>1, <1>2, <2>3, <3>1
    <3>3. s[k] = Tail(b)[j]
      <4>1. PICK y, z : y = x /\ z = Tail(b)
        OBVIOUS
      <4>2. IsSeq(y) /\ IsSeq(z) /\ j \in 1..Len(z)
        BY <1>1, <3>2, <4>1
      <4>3. (y \o z)[Len(y) + j] = z[j]
        BY <4>2, CatFacts
      <4> HIDE DEF x
      <4> QED BY <3>2, <4>1, <4>3
    <3>4. t[k] = b[j + 1]
      <4>1. \A i \in 1..Len(b) : t[Len(a) + i] = b[i]
        BY <1>1, CatFacts
      <4> HIDE DEF s, t, x
      <4> QED BY <3>2, <4>1
    <3>5. Tail(b)[j] = b[j + 1]
      BY <3>2, TailFacts
    <3> QED BY <3>3, <3>4, <3>5
  <2> QED BY <1>1, <2>1, <2>2, <2>3
<1> HIDE DEF s, t
<1>4. s = t
  BY <1>1, <1>2, <1>3, SameSeq
<1> QED BY <1>4 DEF s, t

(* The first frame is taken from two queues in a row.                      *)
LEMMA CatTail ==
  ASSUME NEW a, IsSeq(a), NEW b, IsSeq(b), a # << >>
  PROVE  Tail(a \o b) = Tail(a) \o b /\ Head(a \o b) = Head(a) /\ a \o b # << >>
<1> DEFINE s == Tail(a \o b)
           t == Tail(a) \o b
<1>1. /\ IsSeq(a \o b) /\ IsSeq(Tail(a))
      /\ Len(a) \in Nat \ {0} /\ Len(b) \in Nat
      /\ Len(a \o b) = Len(a) + Len(b) /\ Len(Tail(a)) = Len(a) - 1
  BY TailFacts, CatFacts
<1>2. a \o b # << >>
  BY <1>1, EmptyFacts
<1>3. /\ IsSeq(s) /\ IsSeq(t) /\ Len(s) = Len(a) + Len(b) - 1 /\ Len(t) = Len(s)
  <2>1. IsSeq(s) /\ Len(s) = Len(a \o b) - 1
    BY <1>1, <1>2, TailFacts
  <2>2. IsSeq(t) /\ Len(t) = Len(Tail(a)) + Len(b)
    BY <1>1, CatFacts
  <2> HIDE DEF s, t
  <2> QED BY <1>1, <2>1, <2>2
<1>4. ASSUME NEW k \in 1..Len(s) PROVE s[k] = t[k]
  <2>1. k + 1 \in 1..Len(a \o b) /\ s[k] = (a \o b)[k + 1]
    BY <1>1, <1>2, <1>3, TailFacts
  <2>2. CASE k \in 1..Len(Tail(a))
    <3>1. t[k] = Tail(a)[k] /\ Tail(a)[k] = a[k + 1] /\ k + 1 \in 1..Len(a)
      BY <1>1, <2>2, CatFacts, TailFacts
    <3> QED BY <1>1, <2>1, <3>1, CatFacts
  <2>3. CASE k \notin 1..Len(Tail(a))
    <3>1. PICK j : j = k - Len(Tail(a))
      OBVIOUS
    <3>2. j \in 1..Len(b) /\ k = Len(Tail(a)) + j /\ k + 1 = Len(a) + j
      BY <1>1, <1>3, <2>3, <3>1
    <3>3. t[k] = b[j]
      BY <1>1, <3>2, CatFacts
    <3>4. (a \o b)[k + 1] = b[j]
      BY <1>1, <3>2, CatFacts
    <3> QED BY <2>1, <3>3, <3>4
  <2> QED BY <2>2, <2>3
<1> HIDE DEF s, t
<1>5. s = t
  BY <1>3, <1>4, SameSeq
<1>6. Head(a \o b) = Head(a)
  <2>1. Head(a \o b) = (a \o b)[1] /\ Head(a) = a[1] /\ 1 \in 1..Len(a)
    BY <1>1, <1>2, TailFacts
  <2> QED BY <2>1, CatFacts
<1> QED BY <1>2, <1>5, <1>6 DEF s, t

\* Nothing comes before a sequence.
LEMMA CatNone ==
  ASSUME NEW b, IsSeq(b)
  PROVE  << >> \o b = b
<1>1. PICK S : b \in Seq(S)
  BY DEF IsSeq
<1> QED BY <1>1

\* Appending keeps a sequence one.
LEMMA SeqAppend == ASSUME NEW s, IsSeq(s), NEW x PROVE IsSeq(Append(s, x))
BY AppendFacts

\* So does taking the first element.
LEMMA SeqTail == ASSUME NEW s, IsSeq(s), s # << >> PROVE IsSeq(Tail(s))
BY TailFacts

-----------------------------------------------------------------------------
(* The two hosts *)

\* One sender and one listener.
Pair == \E s, l : Senders = {s} /\ Listeners = {l}

Snd == CHOOSE s \in Senders : TRUE
Lst == CHOOSE l \in Listeners : TRUE
Other(h) == IF h = Snd THEN Lst ELSE Snd

\* With one sender and one listener each is the other of the other.
LEMMA PairFacts ==
  ASSUME Pair
  PROVE  /\ Senders = {Snd} /\ Listeners = {Lst} /\ Hosts = {Snd, Lst} /\ Snd # Lst
         /\ Other(Snd) = Lst /\ Other(Lst) = Snd
<1>1. PICK s, l : Senders = {s} /\ Listeners = {l}
  BY DEF Pair
<1>2. Snd = s /\ Lst = l
  BY <1>1 DEF Snd, Lst
<1> QED BY <1>1, <1>2, HostsAssumption DEF Hosts, Other

\* What the proof needs to know of the form of the state.
Shape ==
  /\ DOMAIN pc = Hosts /\ DOMAIN frame = Hosts /\ DOMAIN stamp = Hosts
  /\ DOMAIN rq = Hosts /\ DOMAIN eq = Hosts /\ DOMAIN nic = Hosts
  /\ DOMAIN run = Hosts /\ DOMAIN sent = Hosts /\ DOMAIN report = Hosts
  /\ \A h \in Hosts :
       /\ IsSeq(rq[h]) /\ IsSeq(eq[h]) /\ IsSeq(nic[h])
       /\ run[h] \in Nat
       /\ DOMAIN frame[h] = {"phase", "ts"}

\* The initial state has this form.
LEMMA ShapeInit == Init => Shape
BY NoneFacts DEF Init, Shape

\* What host q has is as before.
Same(q) ==
  /\ pc'[q] = pc[q] /\ frame'[q] = frame[q] /\ stamp'[q] = stamp[q]
  /\ eq'[q] = eq[q] /\ nic'[q] = nic[q] /\ run'[q] = run[q]
  /\ sent'[q] = sent[q] /\ report'[q] = report[q]

Act(g) == Start(g) \/ StartFails(g) \/ Kill(g) \/ Step(g) \/ Depart(g) \/ Intrude(g)

\* A host changes nothing of another, but for the frames it sends.
LEMMA OthersKept ==
  ASSUME Shape, NEW g \in Hosts, Act(g), NEW q \in Hosts, q # g
  PROVE  Same(q) /\ faults' = faults /\ (Depart(g) \/ rq'[q] = rq[q])
<1> USE DEF Shape, Same, program, network, history
<1>1. CASE Start(g) \/ StartFails(g) \/ Kill(g)
  BY <1>1 DEF Start, StartFails, Kill, Open
<1>2. CASE Send0(g) \/ Send0Fails(g)
  BY <1>2 DEF Send0, Send0Fails, HandToNic
<1>3. CASE Stamp0(g) \/ Stamp0Timeout(g) \/ Stamp1(g)
  BY <1>3 DEF Stamp0, Stamp0Timeout, Stamp1
<1>4. CASE Send1(g)
  BY <1>4 DEF Send1, HandToNic
<1>5. CASE Recv0(g) \/ Recv1(g) \/ Report(g)
  BY <1>5 DEF Recv0, Recv1, Receive, Report
<1>6. CASE Depart(g)
  BY <1>6 DEF Depart
<1>7. CASE Intrude(g)
  BY <1>7 DEF Intrude
<1> QED BY <1>1, <1>2, <1>3, <1>4, <1>5, <1>6, <1>7, Act(g) DEF Act, Step

-----------------------------------------------------------------------------
(* What each action does to its host *)

\* A program starts: empty queues, no times, the next run.
LEMMA StartFacts ==
  ASSUME Shape, NEW g \in Hosts, Start(g)
  PROVE  /\ pc[g] = "off"
         /\ pc'[g] = IF g \in Listeners THEN "recv0" ELSE "send0"
         /\ rq'[g] = << >> /\ eq'[g] = << >> /\ nic'[g] = nic[g]
         /\ frame'[g] = [phase |-> 0, ts |-> ZeroTimes] /\ stamp'[g] = Zero
         /\ report'[g] = << >> /\ run'[g] = run[g] + 1 /\ sent'[g] = sent[g]
BY DEF Shape, Start, Open

\* A killed program leaves everything where it was.
LEMMA KillFacts ==
  ASSUME Shape, NEW g \in Hosts, Kill(g)
  PROVE  /\ (IF g \in Senders THEN "kill" ELSE "stop") \in faults
         /\ pc[g] # "off" /\ pc'[g] = "off"
         /\ rq'[g] = rq[g] /\ eq'[g] = eq[g] /\ nic'[g] = nic[g]
         /\ frame'[g] = frame[g] /\ stamp'[g] = stamp[g]
         /\ report'[g] = report[g] /\ run'[g] = run[g] /\ sent'[g] = sent[g]
BY DEF Shape, Kill, network

\* The frame handed to the NIC.
FrameOf(g, phase, ts) ==
  [id |-> <<g, sent[g] + 1, Answered(g)>>, phase |-> phase, ts |-> ts, run |-> run[g]]

\* The first frame goes to the NIC.
LEMMA Send0Facts ==
  ASSUME Shape, NEW g \in Hosts, Send0(g)
  PROVE  /\ pc[g] = "send0" /\ pc'[g] = "stamp0"
         /\ rq'[g] = rq[g] /\ eq'[g] = eq[g]
         /\ nic'[g] = Append(nic[g], FrameOf(g, 0, frame[g].ts))
         /\ frame'[g].ts = frame[g].ts /\ DOMAIN frame'[g] = {"phase", "ts"}
         /\ stamp'[g] = stamp[g]
         /\ report'[g] = report[g] /\ run'[g] = run[g] /\ sent'[g] = sent[g] + 1
BY DEF Shape, Send0, HandToNic, FrameOf, history

\* It does not, and the stamp is junk.
LEMMA Send0FailsFacts ==
  ASSUME Shape, NEW g \in Hosts, Send0Fails(g)
  PROVE  /\ "sendFails" \in faults /\ pc[g] = "send0" /\ pc'[g] = "send1"
         /\ rq'[g] = rq[g] /\ eq'[g] = eq[g] /\ nic'[g] = nic[g]
         /\ frame'[g] = frame[g] /\ stamp'[g] = <<g, Junk>>
         /\ report'[g] = report[g] /\ run'[g] = run[g] /\ sent'[g] = sent[g]
BY DEF Shape, Send0Fails, network, history

\* The stamp of the first frame is taken from the error queue.
LEMMA Stamp0Facts ==
  ASSUME Shape, NEW g \in Hosts, Stamp0(g)
  PROVE  /\ pc[g] = "stamp0" /\ pc'[g] = "send1" /\ eq[g] # << >>
         /\ rq'[g] = rq[g] /\ eq'[g] = Tail(eq[g]) /\ nic'[g] = nic[g]
         /\ frame'[g] = frame[g] /\ stamp'[g] = Head(eq[g])
         /\ report'[g] = report[g] /\ run'[g] = run[g] /\ sent'[g] = sent[g]
BY DEF Shape, Stamp0, history

\* There is none to take, and none will come.
LEMMA Stamp0TimeoutFacts ==
  ASSUME Shape, NEW g \in Hosts, Stamp0Timeout(g)
  PROVE  /\ pc[g] = "stamp0" /\ pc'[g] = "send1" /\ eq[g] = << >>
         /\ nic[g] = << >> \/ "stampLate" \in faults
         /\ rq'[g] = rq[g] /\ eq'[g] = eq[g] /\ nic'[g] = nic[g]
         /\ frame'[g] = frame[g] /\ stamp'[g] = Zero
         /\ report'[g] = report[g] /\ run'[g] = run[g] /\ sent'[g] = sent[g]
BY DEF Shape, Stamp0Timeout, TrialsOver, network, history

\* The times a follow-up carries.
FollowTimes(g) == [frame[g].ts EXCEPT ![TxAt(g)] = stamp[g]]

\* The follow-up goes to the NIC, or sending fails.
LEMMA Send1Facts ==
  ASSUME Shape, NEW g \in Hosts, Send1(g)
  PROVE  /\ pc[g] = "send1"
         /\ rq'[g] = rq[g] /\ eq'[g] = eq[g]
         /\ frame'[g] = [phase |-> 1, ts |-> FollowTimes(g)]
         /\ stamp'[g] = stamp[g] /\ report'[g] = report[g] /\ run'[g] = run[g]
         /\ \/ /\ pc'[g] = "stamp1" /\ sent'[g] = sent[g] + 1
               /\ nic'[g] = Append(nic[g], FrameOf(g, 1, FollowTimes(g)))
            \/ /\ pc'[g] = "recv0" /\ sent'[g] = sent[g] /\ nic'[g] = nic[g]
               /\ "sendFails" \in faults
<1>1. /\ pc[g] = "send1"
      /\ rq'[g] = rq[g] /\ eq'[g] = eq[g]
      /\ frame'[g] = [phase |-> 1, ts |-> FollowTimes(g)]
      /\ stamp'[g] = stamp[g] /\ report'[g] = report[g] /\ run'[g] = run[g]
  BY DEF Shape, Send1, FollowTimes, history
<1>2. CASE HandToNic(g, 1, frame'[g].ts) /\ pc' = [pc EXCEPT ![g] = "stamp1"]
  <2>1. frame'[g].ts = FollowTimes(g)
    BY <1>1
  <2>2. /\ pc'[g] = "stamp1" /\ sent'[g] = sent[g] + 1
        /\ nic'[g] = Append(nic[g], FrameOf(g, 1, FollowTimes(g)))
    BY <1>2, <2>1 DEF Shape, HandToNic, FrameOf
  <2> QED BY <1>1, <2>2
<1>3. CASE /\ "sendFails" \in faults
           /\ pc' = [pc EXCEPT ![g] = "recv0"]
           /\ UNCHANGED <<nic, sent>>
  BY <1>1, <1>3 DEF Shape
<1> QED BY <1>2, <1>3 DEF Send1

\* The stamp of the follow-up is taken or given up.
LEMMA Stamp1Facts ==
  ASSUME Shape, NEW g \in Hosts, Stamp1(g)
  PROVE  /\ pc[g] = "stamp1" /\ pc'[g] = "recv0"
         /\ \/ eq[g] # << >> /\ eq'[g] = Tail(eq[g])
            \/ eq[g] = << >> /\ eq'[g] = eq[g] /\ (nic[g] = << >> \/ "stampLate" \in faults)
         /\ rq'[g] = rq[g] /\ nic'[g] = nic[g]
         /\ frame'[g] = frame[g] /\ stamp'[g] = stamp[g]
         /\ report'[g] = report[g] /\ run'[g] = run[g] /\ sent'[g] = sent[g]
BY DEF Shape, Stamp1, TrialsOver, history

\* A frame is received as a first frame or turned down.
LEMMA Recv0Facts ==
  ASSUME Shape, NEW g \in Hosts, Recv0(g)
  PROVE  /\ pc[g] = "recv0" /\ rq[g] # << >> /\ rq'[g] = Tail(rq[g])
         /\ pc'[g] = IF Head(rq[g]).phase = 0 THEN "recv1" ELSE "recv0"
         /\ eq'[g] = eq[g] /\ nic'[g] = nic[g]
         /\ frame'[g] = [phase |-> Head(rq[g]).phase, ts |-> Head(rq[g]).ts]
         /\ stamp'[g] = <<g, Head(rq[g]).id>>
         /\ report'[g] = report[g] /\ run'[g] = run[g] /\ sent'[g] = sent[g]
BY DEF Shape, Recv0, Receive, GoodFrame, history

\* The next frame is taken for the follow-up.
LEMMA Recv1Facts ==
  ASSUME Shape, NEW g \in Hosts, Recv1(g)
  PROVE  /\ pc[g] = "recv1" /\ rq[g] # << >> /\ rq'[g] = Tail(rq[g])
         /\ pc'[g] = IF g \in Listeners THEN "send0" ELSE "report"
         /\ eq'[g] = eq[g] /\ nic'[g] = nic[g]
         /\ frame'[g] = Followup(g, Head(rq[g])) /\ stamp'[g] = stamp[g]
         /\ report'[g] = report[g] /\ run'[g] = run[g] /\ sent'[g] = sent[g]
BY DEF Shape, Recv1, Receive, history

\* The times are reported.
LEMMA ReportFacts ==
  ASSUME Shape, NEW g \in Hosts, Report(g)
  PROVE  /\ pc[g] = "report" /\ pc'[g] = "off"
         /\ rq'[g] = rq[g] /\ eq'[g] = eq[g] /\ nic'[g] = nic[g]
         /\ frame'[g] = frame[g] /\ stamp'[g] = stamp[g]
         /\ report'[g] = frame[g].ts /\ run'[g] = run[g] /\ sent'[g] = sent[g]
BY DEF Shape, Report, network

\* The frame that leaves the NIC of g is lost or reaches host q if that is on.
LEMMA DepartFacts ==
  ASSUME Pair, Shape, NEW g \in Hosts, Depart(g), NEW q \in Hosts, q # g
  PROVE  /\ nic[g] # << >> /\ nic'[g] = Tail(nic[g])
         /\ rq'[g] = rq[g]
         /\ \/ rq'[q] = rq[q] /\ (pc[q] = "off" \/ "frameLost" \in faults)
            \/ rq'[q] = Append(rq[q], Head(nic[g])) /\ pc[q] # "off"
         /\ \/ /\ pc[g] # "off" /\ Head(nic[g]).run = run[g]
               /\ eq'[g] = Append(eq[g], <<g, Head(nic[g]).id>>)
            \/ /\ "stampLost" \in faults \/ pc[g] = "off" \/ Head(nic[g]).run # run[g]
               /\ eq'[g] = eq[g]
         /\ pc'[g] = pc[g] /\ frame'[g] = frame[g] /\ stamp'[g] = stamp[g]
         /\ report'[g] = report[g] /\ run'[g] = run[g] /\ sent'[g] = sent[g]
<1>1. PICK open : open = {f \in Hosts \ {g} : pc[f] # "off"}
  OBVIOUS
<1>2. PICK to \in SUBSET open :
        /\ "frameLost" \in faults \/ to = open
        /\ rq' = [f \in Hosts |-> IF f \in to THEN Append(rq[f], Head(nic[g])) ELSE rq[f]]
  BY <1>1 DEF Depart
<1>3. g \notin open /\ (q \in open <=> pc[q] # "off")
  BY <1>1
<1>4. rq'[g] = rq[g]
  BY <1>2, <1>3
<1>5. \/ rq'[q] = rq[q] /\ (pc[q] = "off" \/ "frameLost" \in faults)
      \/ rq'[q] = Append(rq[q], Head(nic[g])) /\ pc[q] # "off"
  BY <1>2, <1>3
<1>6. \/ /\ pc[g] # "off" /\ Head(nic[g]).run = run[g]
         /\ eq'[g] = Append(eq[g], <<g, Head(nic[g]).id>>)
      \/ /\ "stampLost" \in faults \/ pc[g] = "off" \/ Head(nic[g]).run # run[g]
         /\ eq'[g] = eq[g]
  BY DEF Depart, Shape, StampOf
<1>7. /\ nic[g] # << >> /\ nic'[g] = Tail(nic[g])
      /\ pc'[g] = pc[g] /\ frame'[g] = frame[g] /\ stamp'[g] = stamp[g]
      /\ report'[g] = report[g] /\ run'[g] = run[g] /\ sent'[g] = sent[g]
  BY DEF Depart, Shape, program, history
<1> QED BY <1>4, <1>5, <1>6, <1>7

\* The functions keep their domains.
Domains ==
  /\ DOMAIN pc = Hosts /\ DOMAIN frame = Hosts /\ DOMAIN stamp = Hosts
  /\ DOMAIN rq = Hosts /\ DOMAIN eq = Hosts /\ DOMAIN nic = Hosts
  /\ DOMAIN run = Hosts /\ DOMAIN sent = Hosts /\ DOMAIN report = Hosts

\* The queues and the frame of host h.
ShapeOf(h) ==
  /\ IsSeq(rq[h]) /\ IsSeq(eq[h]) /\ IsSeq(nic[h])
  /\ run[h] \in Nat
  /\ DOMAIN frame[h] = {"phase", "ts"}

\* The form of the state, in two parts.
LEMMA ShapeParts == Shape <=> Domains /\ \A h \in Hosts : ShapeOf(h)
BY DEF Shape, Domains, ShapeOf

\* No step changes the domains.
LEMMA DomainsStep ==
  ASSUME Domains, NEW g \in Hosts, Act(g)
  PROVE  Domains'
<1> USE DEF Domains, program, network, history
<1>1. CASE Start(g) \/ StartFails(g) \/ Kill(g)
  BY <1>1 DEF Start, StartFails, Kill, Open
<1>2. CASE Send0(g) \/ Send0Fails(g)
  BY <1>2 DEF Send0, Send0Fails, HandToNic
<1>3. CASE Stamp0(g) \/ Stamp0Timeout(g) \/ Stamp1(g)
  BY <1>3 DEF Stamp0, Stamp0Timeout, Stamp1
<1>4. CASE Send1(g)
  BY <1>4 DEF Send1, HandToNic
<1>5. CASE Recv0(g)
  BY <1>5 DEF Recv0, Receive
<1>6. CASE Recv1(g) \/ Report(g)
  BY <1>6 DEF Recv1, Receive, Report
<1>7. CASE Depart(g)
  <2>1. /\ DOMAIN nic' = Hosts /\ DOMAIN pc' = Hosts /\ DOMAIN frame' = Hosts
        /\ DOMAIN stamp' = Hosts /\ DOMAIN run' = Hosts /\ DOMAIN sent' = Hosts
        /\ DOMAIN report' = Hosts
    BY <1>7 DEF Depart
  <2>2. DOMAIN rq' = Hosts
    BY <1>7 DEF Depart
  <2>3. DOMAIN eq' = Hosts
    BY <1>7 DEF Depart
  <2> QED BY <2>1, <2>2, <2>3
<1>8. CASE Intrude(g)
  BY <1>8 DEF Intrude
<1> QED BY <1>1, <1>2, <1>3, <1>4, <1>5, <1>6, <1>7, <1>8, Act(g) DEF Act, Step

\* The fields of a frame in a program.
LEMMA FrameDomain ==
  ASSUME NEW x, NEW y PROVE DOMAIN [phase |-> x, ts |-> y] = {"phase", "ts"}
OBVIOUS

\* Every step keeps the form of the state.
LEMMA ShapeStep == Pair /\ Shape /\ [Next]_vars => Shape'
<1> SUFFICES ASSUME Pair, Shape, [Next]_vars
             PROVE  Domains' /\ \A h \in Hosts : ShapeOf(h)'
  BY ShapeParts DEF Shape, Domains, ShapeOf
<1>1. CASE UNCHANGED vars
  BY <1>1, ShapeParts DEF vars, program, network, history, Domains, ShapeOf
<1>2. CASE Next
  <2>1. PICK g \in Hosts : Act(g)
    BY <1>2 DEF Next, Act
  <2>2. Domains'
    BY <2>1, ShapeParts, DomainsStep
  <2>3. ShapeOf(g) /\ ShapeOf(Other(g)) /\ Other(g) \in Hosts /\ Other(g) # g
    BY ShapeParts, PairFacts DEF Other
  <2>4. ShapeOf(Other(g))'
    <3>1. CASE Depart(g)
      <4>1. nic[g] # << >> /\ (\/ rq'[Other(g)] = rq[Other(g)]
                               \/ rq'[Other(g)] = Append(rq[Other(g)], Head(nic[g])))
        BY <2>3, <3>1, DepartFacts
      <4>2. Same(Other(g))
        BY <2>1, <2>3, OthersKept
      <4>3. IsSeq(rq'[Other(g)])
        BY <2>3, <4>1, SeqAppend DEF ShapeOf
      <4> QED BY <2>3, <4>2, <4>3 DEF Same, ShapeOf
    <3>2. CASE ~Depart(g)
      <4>1. Same(Other(g)) /\ rq'[Other(g)] = rq[Other(g)]
        BY <2>1, <2>3, <3>2, OthersKept
      <4> QED BY <2>3, <4>1 DEF Same, ShapeOf
    <3> QED BY <3>1, <3>2
  <2>5. ShapeOf(g)'
    <3>1. CASE Start(g)
      BY <2>3, <3>1, StartFacts, NoneFacts DEF ShapeOf
    <3>2. CASE StartFails(g)
      BY <2>3, <3>2 DEF StartFails, program, network, history, ShapeOf
    <3>3. CASE Kill(g)
      BY <2>3, <3>3, KillFacts DEF ShapeOf
    <3>4. CASE Send0(g)
      <4>1. /\ rq'[g] = rq[g] /\ eq'[g] = eq[g] /\ run'[g] = run[g]
            /\ nic'[g] = Append(nic[g], FrameOf(g, 0, frame[g].ts))
            /\ DOMAIN frame'[g] = {"phase", "ts"}
        BY <3>4, Send0Facts
      <4> QED BY <2>3, <4>1, SeqAppend DEF ShapeOf
    <3>5. CASE Send0Fails(g)
      BY <2>3, <3>5, Send0FailsFacts DEF ShapeOf
    <3>6. CASE Stamp0(g)
      BY <2>3, <3>6, Stamp0Facts, SeqTail DEF ShapeOf
    <3>7. CASE Stamp0Timeout(g)
      BY <2>3, <3>7, Stamp0TimeoutFacts DEF ShapeOf
    <3>8. CASE Send1(g)
      <4>1. rq'[g] = rq[g] /\ eq'[g] = eq[g] /\ run'[g] = run[g]
        BY <3>8, Send1Facts
      <4>2. DOMAIN frame'[g] = {"phase", "ts"}
        <5>1. PICK x, y : frame'[g] = [phase |-> x, ts |-> y]
          BY <3>8, Send1Facts
        <5> QED BY <5>1, FrameDomain
      <4>3. nic'[g] = Append(nic[g], FrameOf(g, 1, FollowTimes(g))) \/ nic'[g] = nic[g]
        BY <3>8, Send1Facts
      <4> QED BY <2>3, <4>1, <4>2, <4>3, SeqAppend DEF ShapeOf
    <3>9. CASE Stamp1(g)
      BY <2>3, <3>9, Stamp1Facts, SeqTail DEF ShapeOf
    <3>10. CASE Recv0(g)
      <4>1. /\ rq[g] # << >> /\ rq'[g] = Tail(rq[g])
            /\ eq'[g] = eq[g] /\ nic'[g] = nic[g] /\ run'[g] = run[g]
        BY <3>10, Recv0Facts
      <4>2. DOMAIN frame'[g] = {"phase", "ts"}
        <5>1. PICK x, y : frame'[g] = [phase |-> x, ts |-> y]
          BY <3>10, Recv0Facts
        <5> QED BY <5>1, FrameDomain
      <4> QED BY <2>3, <4>1, <4>2, SeqTail DEF ShapeOf
    <3>11. CASE Recv1(g)
      <4>1. /\ rq[g] # << >> /\ rq'[g] = Tail(rq[g])
            /\ eq'[g] = eq[g] /\ nic'[g] = nic[g] /\ run'[g] = run[g]
        BY <3>11, Recv1Facts
      <4>2. DOMAIN frame'[g] = {"phase", "ts"}
        <5>1. PICK x, y : frame'[g] = [phase |-> x, ts |-> y]
          <6>1. frame'[g] = Followup(g, Head(rq[g]))
            BY <3>11, Recv1Facts
          <6> QED BY <6>1 DEF Followup
        <5> QED BY <5>1, FrameDomain
      <4> QED BY <2>3, <4>1, <4>2, SeqTail DEF ShapeOf
    <3>12. CASE Report(g)
      BY <2>3, <3>12, ReportFacts DEF ShapeOf
    <3>13. CASE Depart(g)
      <4>1. /\ nic[g] # << >> /\ nic'[g] = Tail(nic[g])
            /\ rq'[g] = rq[g] /\ frame'[g] = frame[g] /\ run'[g] = run[g]
            /\ eq'[g] = eq[g] \/ eq'[g] = Append(eq[g], <<g, Head(nic[g]).id>>)
        BY <2>3, <3>13, DepartFacts
      <4> QED BY <2>3, <4>1, SeqTail, SeqAppend DEF ShapeOf
    <3>14. CASE Intrude(g)
      <4>1. rq'[g] = Append(rq[g], Foreign)
        BY <3>14 DEF Intrude, Shape
      <4>2. IsSeq(rq'[g])
        BY <2>3, <4>1, SeqAppend DEF ShapeOf
      <4> QED BY <2>3, <3>14, <4>2 DEF Intrude, program, history, ShapeOf
    <3> QED BY <2>1, <3>1, <3>2, <3>3, <3>4, <3>5, <3>6, <3>7, <3>8, <3>9, <3>10,
               <3>11, <3>12, <3>13, <3>14 DEF Act, Step
  <2> QED BY <2>2, <2>4, <2>5, PairFacts DEF Other
<1> QED BY <1>1, <1>2

-----------------------------------------------------------------------------
(* Frames that follow one another                                          *)

\* The times m carries to host h fit the frame i it follows.
Follows(h, i, m) ==
  IF h = Lst THEN m.ts[1] \in {Zero, <<Snd, i>>}
  ELSE /\ m.ts[1] \in {Zero, <<Snd, i[3]>>}
       /\ m.ts[2] = <<i[1], i[3]>>
       /\ m.ts[3] \in {Zero, <<i[1], i>>}

\* The frames a for host h, which is at p: a first frame is followed by its
\* follow-up, and so is i, the one that h has received.
Chain(h, a, p, i) ==
  /\ \A k \in 1..(Len(a) - 1) : a[k].phase = 0 => Follows(h, a[k].id, a[k + 1])
  /\ p = "recv1" /\ a # << >> => Follows(h, i, a[1])

\* Is the last frame that went to a host a first frame, and which?
Pending(a, p) == IF a = << >> THEN p = "recv1" ELSE a[Len(a)].phase = 0
PendingId(a, i) == IF a = << >> THEN i ELSE a[Len(a)].id

\* A frame that fits the one without a follow-up joins the others.
LEMMA ChainAppend ==
  ASSUME NEW h, NEW a, IsSeq(a), NEW p, NEW i, NEW m, Chain(h, a, p, i),
         Pending(a, p) => Follows(h, PendingId(a, i), m)
  PROVE  /\ Chain(h, Append(a, m), p, i)
         /\ Pending(Append(a, m), p) => m.phase = 0
         /\ PendingId(Append(a, m), i) = m.id
<1>1. PICK b, n : b = Append(a, m) /\ n = Len(a)
  OBVIOUS
<1>2. /\ n \in Nat /\ b # << >> /\ Len(b) = n + 1 /\ b[n + 1] = m
      /\ \A k \in 1..n : b[k] = a[k]
      /\ a = << >> <=> n = 0
  BY <1>1, AppendFacts, EmptyFacts
<1>3. /\ Pending(b, p) => m.phase = 0
      /\ PendingId(b, i) = m.id
  BY <1>2 DEF Pending, PendingId
<1>4. ASSUME NEW k \in 1..(Len(b) - 1), b[k].phase = 0
      PROVE  Follows(h, b[k].id, b[k + 1])
  <2>0. k \in 1..n
    BY <1>2, <1>4
  <2>1. CASE k = n
    <3>1. b[k] = a[n] /\ b[k + 1] = m /\ a # << >>
      BY <1>2, <2>0, <2>1
    <3> QED BY <1>1, <1>4, <3>1 DEF Pending, PendingId
  <2>2. CASE k # n
    <3>1. k \in 1..(n - 1) /\ k + 1 \in 1..n
      BY <1>2, <2>0, <2>2
    <3>2. b[k] = a[k] /\ b[k + 1] = a[k + 1]
      BY <1>2, <2>0, <3>1
    <3> QED BY <1>1, <1>4, <3>1, <3>2 DEF Chain
  <2> QED BY <2>1, <2>2
<1>5. ASSUME p = "recv1" PROVE Follows(h, i, b[1])
  <2>1. CASE a = << >>
    <3>1. b[1] = m
      BY <1>2, <2>1
    <3> QED BY <1>5, <2>1, <3>1 DEF Pending, PendingId
  <2>2. CASE a # << >>
    <3>1. 1 \in 1..n
      BY <1>2, <2>2
    <3>2. b[1] = a[1]
      BY <1>2, <3>1
    <3> QED BY <1>5, <2>2, <3>2 DEF Chain
  <2> QED BY <2>1, <2>2
<1>6. Chain(h, b, p, i)
  BY <1>4, <1>5 DEF Chain
<1> QED BY <1>1, <1>3, <1>6

\* Some of the first frames are gone.
LEMMA ChainSuffix ==
  ASSUME NEW h, NEW a, IsSeq(a), NEW b, IsSeq(b), NEW n \in Nat, Len(b) = Len(a) - n,
         \A k \in 1..Len(b) : b[k] = a[n + k],
         NEW p, NEW i, Chain(h, a, p, i), NEW q, q # "recv1", NEW j
  PROVE  /\ Chain(h, b, q, j)
         /\ Pending(b, q) => Pending(a, p) /\ PendingId(b, j) = PendingId(a, i)
<1>1. PICK m, l : m = Len(a) /\ l = Len(b)
  OBVIOUS
<1>2. m \in Nat /\ l \in Nat /\ l = m - n /\ (a = << >> <=> m = 0) /\ (b = << >> <=> l = 0)
  BY <1>1, EmptyFacts
<1>3. \A k \in 1..l : b[k] = a[n + k]
  BY <1>1
<1>4. ASSUME NEW k \in 1..(l - 1), b[k].phase = 0
      PROVE  Follows(h, b[k].id, b[k + 1])
  <2>1. k \in 1..l /\ k + 1 \in 1..l /\ n + k \in 1..(m - 1) /\ n + (k + 1) = (n + k) + 1
    BY <1>2
  <2>2. b[k] = a[n + k] /\ b[k + 1] = a[(n + k) + 1]
    BY <1>3, <2>1
  <2>3. a[n + k].phase = 0 => Follows(h, a[n + k].id, a[(n + k) + 1])
    BY <1>1, <2>1 DEF Chain
  <2> QED BY <1>4, <2>2, <2>3
<1>5. Chain(h, b, q, j)
  BY <1>1, <1>4 DEF Chain
<1>6. ASSUME Pending(b, q) PROVE Pending(a, p) /\ PendingId(b, j) = PendingId(a, i)
  <2>1. b # << >>
    BY <1>6 DEF Pending
  <2>2. l \in 1..l /\ n + l = m /\ a # << >>
    BY <1>2, <2>1
  <2>3. b[l] = a[m]
    BY <1>3, <2>2
  <2> QED BY <1>1, <1>6, <2>1, <2>2, <2>3 DEF Pending, PendingId
<1> QED BY <1>5, <1>6

\* The first frame of a, j, is received as a first frame, or turned down.
FirstTaken(a, b, j, q) ==
  /\ a # << >> /\ b = Tail(a) /\ j = a[1].id
  /\ q = "recv1" => a[1].phase = 0

\* The others still follow one another.
LEMMA ChainFirst ==
  ASSUME NEW h, NEW a, IsSeq(a), NEW p, p # "recv1", NEW i, Chain(h, a, p, i),
         NEW b, NEW j, NEW q, FirstTaken(a, b, j, q)
  PROVE  /\ Chain(h, b, q, j)
         /\ Pending(b, q) => Pending(a, p) /\ PendingId(b, j) = PendingId(a, i)
<1>0. /\ a # << >> /\ b = Tail(a) /\ j = a[1].id
      /\ q = "recv1" => a[1].phase = 0
  BY DEF FirstTaken
<1>1. PICK m : m = Len(a)
  OBVIOUS
<1>2. /\ m \in Nat \ {0} /\ IsSeq(b) /\ Len(b) = m - 1
      /\ \A k \in 1..(m - 1) : b[k] = a[k + 1]
      /\ b = << >> <=> m = 1
  <2>1. /\ m \in Nat \ {0} /\ IsSeq(b) /\ Len(b) = m - 1
        /\ \A k \in 1..Len(b) : b[k] = a[k + 1]
    <3>1. /\ Len(a) \in Nat \ {0} /\ IsSeq(Tail(a)) /\ Len(Tail(a)) = Len(a) - 1
          /\ \A k \in 1..Len(Tail(a)) : Tail(a)[k] = a[k + 1]
      BY <1>0, TailFacts
    <3> QED BY <1>0, <1>1, <3>1
  <2>2. b = << >> <=> Len(b) = 0
    BY <2>1, EmptyFacts
  <2> QED BY <2>1, <2>2
<1>3. ASSUME NEW k \in 1..(Len(b) - 1), b[k].phase = 0
      PROVE  Follows(h, b[k].id, b[k + 1])
  <2>1. k \in 1..(m - 1) /\ k + 1 \in 1..(m - 1)
    BY <1>2
  <2>2. b[k] = a[k + 1] /\ b[k + 1] = a[(k + 1) + 1]
    BY <1>2, <2>1
  <2>3. a[k + 1].phase = 0 => Follows(h, a[k + 1].id, a[(k + 1) + 1])
    BY <1>1, <2>1 DEF Chain
  <2> QED BY <1>3, <2>2, <2>3
<1>4. ASSUME q = "recv1", b # << >> PROVE Follows(h, a[1].id, b[1])
  <2>1. 1 \in 1..(m - 1) /\ 1 + 1 = 2
    BY <1>2, <1>4
  <2>2. b[1] = a[1 + 1]
    BY <1>2, <2>1
  <2>3. a[1].phase = 0 => Follows(h, a[1].id, a[1 + 1])
    BY <1>1, <2>1 DEF Chain
  <2> QED BY <1>0, <1>4, <2>2, <2>3
<1>5. Chain(h, b, q, j)
  BY <1>0, <1>3, <1>4 DEF Chain
<1>6. ASSUME Pending(b, q)
      PROVE  Pending(a, p) /\ PendingId(b, j) = PendingId(a, i)
  <2>1. CASE b = << >>
    BY <1>0, <1>1, <1>2, <1>6, <2>1 DEF Pending, PendingId
  <2>2. CASE b # << >>
    <3>1. m - 1 \in 1..(m - 1) /\ (m - 1) + 1 = m
      BY <1>2, <2>2
    <3>2. b[m - 1] = a[m]
      BY <1>2, <3>1
    <3> QED BY <1>1, <1>2, <1>6, <2>2, <3>2 DEF Pending, PendingId
  <2> QED BY <2>1, <2>2
<1> QED BY <1>1, <1>5, <1>6

\* One frame follows none, and none that h has received.
LEMMA ChainShort ==
  ASSUME NEW h, NEW b, IsSeq(b), NEW p, NEW i, Len(b) <= 1, p = "recv1" => Len(b) = 0
  PROVE  Chain(h, b, p, i)
BY EmptyFacts DEF Chain

-----------------------------------------------------------------------------
(* The frames under way to a host                                          *)

\* In its socket, which collects nothing while it is off, and in the other NIC.
Arriving(h) == IF pc[h] = "off" THEN nic[Other(h)] ELSE rq[h] \o nic[Other(h)]
\* With a first frame that waits for its follow-up.
Waiting(h) == Len(Arriving(h)) + (IF pc[h] = "recv1" THEN 1 ELSE 0)

\* The frames under way are a sequence.
LEMMA ArrivingSeq ==
  ASSUME Pair, Shape, NEW h \in Hosts
  PROVE  IsSeq(Arriving(h)) /\ Len(Arriving(h)) \in Nat
<1>1. IsSeq(rq[h]) /\ IsSeq(nic[Other(h)])
  BY PairFacts DEF Shape
<1>2. IsSeq(Arriving(h))
  BY <1>1, CatFacts DEF Arriving
<1> QED BY <1>2, EmptyFacts

\* Nothing moves.
LEMMA ArrivingSame ==
  ASSUME NEW h, rq'[h] = rq[h], nic'[Other(h)] = nic[Other(h)],
         pc'[h] = "off" <=> pc[h] = "off"
  PROVE  Arriving(h)' = Arriving(h)
BY DEF Arriving, Other

\* A socket that opens is empty, as a closed one was.
LEMMA ArrivingStarted ==
  ASSUME NEW h, IsSeq(nic[Other(h)]), rq'[h] = << >>,
         nic'[Other(h)] = nic[Other(h)], pc[h] = "off"
  PROVE  Arriving(h)' = Arriving(h)
<1>1. << >> \o nic[Other(h)] = nic[Other(h)]
  BY CatNone
<1> QED BY <1>1 DEF Arriving, Other

\* A frame handed to the other NIC is the last one under way.
LEMMA ArrivingSent ==
  ASSUME NEW h, IsSeq(rq[h]), IsSeq(nic[Other(h)]), rq'[h] = rq[h], pc'[h] = pc[h],
         NEW m, nic'[Other(h)] = Append(nic[Other(h)], m)
  PROVE  Arriving(h)' = Append(Arriving(h), m)
<1>1. rq[h] \o Append(nic[Other(h)], m) = Append(rq[h] \o nic[Other(h)], m)
  <2>1. PICK a, b : a = rq[h] /\ b = nic[Other(h)]
    OBVIOUS
  <2>2. IsSeq(a) /\ IsSeq(b)
    BY <2>1
  <2>3. a \o Append(b, m) = Append(a \o b, m)
    BY <2>2, CatAppend
  <2> QED BY <2>1, <2>3
<1> QED BY <1>1 DEF Arriving, Other

\* A frame received was the first one under way.
LEMMA ArrivingReceived ==
  ASSUME NEW h, IsSeq(rq[h]), IsSeq(nic[Other(h)]), rq[h] # << >>, rq'[h] = Tail(rq[h]),
         pc[h] # "off", pc'[h] # "off", nic'[Other(h)] = nic[Other(h)]
  PROVE  /\ Arriving(h)' = Tail(Arriving(h))
         /\ Arriving(h) # << >> /\ Arriving(h)[1] = Head(rq[h])
<1>1. PICK a, b : a = rq[h] /\ b = nic[Other(h)]
  OBVIOUS
<1>2. Tail(a \o b) = Tail(a) \o b /\ a \o b # << >>
  BY <1>1, CatTail
<1>3. (a \o b)[1] = Head(a)
  <2>1. IsSeq(a) /\ IsSeq(b) /\ a # << >>
    BY <1>1
  <2>2. Head(a) = a[1] /\ 1 \in 1..Len(a)
    BY <2>1, TailFacts
  <2>3. (a \o b)[1] = a[1]
    BY <2>1, <2>2, CatFacts
  <2> QED BY <2>2, <2>3
<1>4. Arriving(h) = a \o b /\ Arriving(h)' = Tail(a) \o b
  BY <1>1 DEF Arriving, Other
<1> QED BY <1>1, <1>2, <1>3, <1>4

\* Some of the first frames of a are not in b.
Suffix(b, a) ==
  \E n \in Nat : Len(b) = Len(a) - n /\ \A k \in 1..Len(b) : b[k] = a[n + k]

\* A socket that closes takes its frames with it.
LEMMA ArrivingGone ==
  ASSUME NEW h, IsSeq(rq[h]), IsSeq(nic[Other(h)]),
         pc[h] # "off", pc'[h] = "off", nic'[Other(h)] = nic[Other(h)]
  PROVE  Suffix(Arriving(h)', Arriving(h))
<1>1. PICK a, b : a = rq[h] /\ b = nic[Other(h)]
  OBVIOUS
<1>2. /\ Len(a) \in Nat /\ Len(b) \in Nat /\ Len(a \o b) = Len(a) + Len(b)
      /\ \A k \in 1..Len(b) : (a \o b)[Len(a) + k] = b[k]
  <2>1. IsSeq(a) /\ IsSeq(b)
    BY <1>1
  <2> QED BY <2>1, CatFacts
<1>3. Arriving(h) = a \o b /\ Arriving(h)' = b
  BY <1>1 DEF Arriving, Other
<1>4. Len(b) = Len(a \o b) - Len(a)
  BY <1>2
<1>5. Suffix(b, a \o b)
  BY <1>2, <1>4 DEF Suffix
<1> QED BY <1>3, <1>5

\* All frames remain.
LEMMA SuffixSame == ASSUME NEW a, IsSeq(a) PROVE Suffix(a, a)
<1>1. Len(a) \in Nat
  BY EmptyFacts
<1>2. 0 \in Nat /\ Len(a) = Len(a) - 0 /\ \A k \in 1..Len(a) : 0 + k = k
  BY <1>1
<1> QED BY <1>2 DEF Suffix

\* All frames but the first remain.
LEMMA SuffixTail == ASSUME NEW a, IsSeq(a), a # << >> PROVE Suffix(Tail(a), a)
<1>1. PICK b, m : b = Tail(a) /\ m = Len(a)
  OBVIOUS
<1>2. /\ m \in Nat \ {0} /\ Len(b) = m - 1
      /\ \A k \in 1..Len(b) : b[k] = a[k + 1]
  BY <1>1, TailFacts
<1>3. \A k \in 1..Len(b) : b[k] = a[1 + k]
  <2>1. \A k \in 1..Len(b) : k + 1 = 1 + k
    BY <1>2
  <2> QED BY <1>2, <2>1
<1> QED BY <1>1, <1>2, <1>3 DEF Suffix

\* A frame that leaves the NIC goes to an open socket, past a closed one, or is
\* lost.
LEMMA ArrivingDeparted ==
  ASSUME NEW h, IsSeq(rq[h]), IsSeq(nic[Other(h)]), nic[Other(h)] # << >>,
         nic'[Other(h)] = Tail(nic[Other(h)]), pc'[h] = pc[h],
         \/ rq'[h] = rq[h] /\ (pc[h] = "off" \/ "frameLost" \in faults)
         \/ rq'[h] = Append(rq[h], Head(nic[Other(h)])) /\ pc[h] # "off"
  PROVE  \/ pc[h] = "off" /\ Arriving(h) # << >> /\ Arriving(h)' = Tail(Arriving(h))
         \/ Arriving(h)' = Arriving(h)
         \/ /\ "frameLost" \in faults /\ pc[h] # "off"
            /\ Len(Arriving(h)) \in Nat \ {0} /\ Len(Arriving(h)') = Len(Arriving(h)) - 1
<1>1. PICK a, b : a = rq[h] /\ b = nic[Other(h)]
  OBVIOUS
<1>2. CASE pc[h] = "off"
  BY <1>2 DEF Arriving, Other
<1>3. CASE pc[h] # "off" /\ rq'[h] = Append(rq[h], Head(nic[Other(h)]))
  <2>1. Append(a, Head(b)) \o Tail(b) = a \o b
    BY <1>1, CatMove
  <2>2. Arriving(h)' = Append(a, Head(b)) \o Tail(b) /\ Arriving(h) = a \o b
    BY <1>1, <1>3 DEF Arriving, Other
  <2> QED BY <2>1, <2>2
<1>4. CASE pc[h] # "off" /\ rq'[h] = rq[h] /\ "frameLost" \in faults
  <2>1. Arriving(h)' = a \o Tail(b) /\ Arriving(h) = a \o b
    BY <1>1, <1>4 DEF Arriving, Other
  <2>2. /\ IsSeq(Tail(b)) /\ Len(b) \in Nat \ {0} /\ Len(Tail(b)) = Len(b) - 1
    BY <1>1, TailFacts
  <2>3. Len(a) \in Nat /\ Len(a \o b) = Len(a) + Len(b)
    BY <1>1, CatFacts
  <2>4. Len(a \o Tail(b)) = Len(a) + Len(Tail(b))
    BY <1>1, <2>2, CatFacts
  <2>5. Len(a \o b) \in Nat \ {0} /\ Len(a \o Tail(b)) = Len(a \o b) - 1
    BY <2>2, <2>3, <2>4
  <2> QED BY <1>4, <2>1, <2>5
<1> QED BY <1>2, <1>3, <1>4

-----------------------------------------------------------------------------
(* The stamps of a program's frames                                        *)

\* The frame host h has sent last.
Current(h) == <<h, sent[h], Answered(h)>>

\* The NIC n of host h, at p in start r, holds no frame of this start but the
\* one whose stamp c the program waits for, nor does the error queue e.
Stamps(h, p, n, r, e, c) ==
  /\ \A k \in 1..Len(n) : n[k].run \in 0..r
  /\ p \notin {"off", "stamp0", "stamp1"} => e = << >> /\ \A k \in 1..Len(n) : n[k].run # r
  /\ p \in {"stamp0", "stamp1"} =>
       /\ Len(e) <= 1 /\ \A k \in 1..Len(e) : e[k] = <<h, c>>
       /\ \A k \in 1..Len(n) : n[k].run = r => k = Len(n) /\ n[k].id = c /\ e = << >>

\* All frames of s carry four times.
Timed(s) == \A k \in 1..Len(s) : DOMAIN s[k].ts = 1..4

Mail(h) ==
  /\ Stamps(h, pc[h], nic[h], run[h], eq[h], Current(h))
  /\ Timed(nic[h]) /\ Timed(rq[h]) /\ DOMAIN frame[h].ts = 1..4

\* A frame with four times joins such frames.
LEMMA TimedAppend ==
  ASSUME NEW s, IsSeq(s), Timed(s), NEW m, DOMAIN m.ts = 1..4
  PROVE  Timed(Append(s, m))
<1>1. PICK t, n : t = Append(s, m) /\ n = Len(s)
  OBVIOUS
<1>2. n \in Nat /\ Len(t) = n + 1 /\ t[n + 1] = m /\ \A k \in 1..n : t[k] = s[k]
  BY <1>1, AppendFacts
<1>3. ASSUME NEW k \in 1..Len(t) PROVE DOMAIN t[k].ts = 1..4
  <2>1. k \in 1..n \/ k = n + 1
    BY <1>2
  <2> QED BY <1>1, <1>2, <2>1 DEF Timed
<1> QED BY <1>1, <1>3 DEF Timed

\* A frame with four times is taken from such frames.
LEMMA TimedTail ==
  ASSUME NEW s, IsSeq(s), Timed(s), s # << >>
  PROVE  Timed(Tail(s)) /\ DOMAIN Head(s).ts = 1..4
<1>1. /\ Head(s) = s[1] /\ 1 \in 1..Len(s)
      /\ \A k \in 1..Len(Tail(s)) : k + 1 \in 1..Len(s) /\ Tail(s)[k] = s[k + 1]
  BY TailFacts
<1> QED BY <1>1 DEF Timed

\* No frame lacks its times where there is none.
LEMMA TimedNone == Timed(<< >>)
<1>1. Len(<< >>) = 0
  BY NoneFacts
<1> QED BY <1>1 DEF Timed

\* The program waits for the stamp of the frame it has sent.
LEMMA StampsSend ==
  ASSUME NEW h, NEW p, p \notin {"off", "stamp0", "stamp1"}, NEW n, IsSeq(n), NEW r \in Nat,
         NEW e, NEW c, Stamps(h, p, n, r, e, c),
         NEW m, m.run = r, NEW q \in {"stamp0", "stamp1"}
  PROVE  Stamps(h, q, Append(n, m), r, e, m.id)
<1>1. PICK t, l : t = Append(n, m) /\ l = Len(n)
  OBVIOUS
<1>2. l \in Nat /\ Len(t) = l + 1 /\ t[l + 1] = m /\ \A k \in 1..l : t[k] = n[k]
  BY <1>1, AppendFacts
<1>3. /\ e = << >> /\ \A k \in 1..l : n[k].run # r /\ n[k].run \in 0..r
  BY <1>1 DEF Stamps
<1>4. ASSUME NEW k \in 1..Len(t)
      PROVE  t[k].run \in 0..r /\ (t[k].run = r => k = Len(t) /\ t[k].id = m.id)
  <2>1. k \in 1..l \/ k = l + 1
    BY <1>2
  <2> QED BY <1>2, <1>3, <2>1
<1>5. Len(e) = 0
  BY <1>3, NoneFacts
<1>6. Stamps(h, q, t, r, e, m.id)
  BY <1>3, <1>4, <1>5 DEF Stamps
<1> QED BY <1>1, <1>6

\* The stamp is taken: the frame has left.
LEMMA StampsTake ==
  ASSUME NEW h, NEW p \in {"stamp0", "stamp1"}, NEW n, NEW r,
         NEW e, IsSeq(e), e # << >>, NEW c, Stamps(h, p, n, r, e, c),
         NEW q, q \notin {"off", "stamp0", "stamp1"}, NEW d
  PROVE  Stamps(h, q, n, r, Tail(e), d) /\ Head(e) = <<h, c>>
<1>1. /\ Len(e) \in Nat \ {0} /\ Len(e) <= 1 /\ Len(Tail(e)) = Len(e) - 1 /\ IsSeq(Tail(e))
      /\ Head(e) = e[1] /\ 1 \in 1..Len(e)
  BY TailFacts DEF Stamps
<1>2. Tail(e) = << >>
  BY <1>1, EmptyFacts
<1>3. \A k \in 1..Len(n) : n[k].run \in 0..r /\ n[k].run # r
  BY DEF Stamps
<1>4. e[1] = <<h, c>>
  BY <1>1 DEF Stamps
<1> QED BY <1>1, <1>2, <1>3, <1>4 DEF Stamps

\* There is nothing to wait for.
LEMMA StampsOver ==
  ASSUME NEW h, NEW p, NEW n, NEW r, NEW e, e = << >>, NEW c, Stamps(h, p, n, r, e, c),
         \A k \in 1..Len(n) : n[k].run # r,
         NEW q, q \notin {"stamp0", "stamp1"}, NEW d
  PROVE  Stamps(h, q, n, r, e, d)
BY DEF Stamps

\* A program that is off waits for no stamp.
LEMMA StampsOff ==
  ASSUME NEW h, NEW p, NEW n, NEW r, NEW e, NEW c, Stamps(h, p, n, r, e, c), NEW d
  PROVE  Stamps(h, "off", n, r, e, d)
BY DEF Stamps

\* Frames of an earlier start are not those of this one.
LEMMA StampsStart ==
  ASSUME NEW h, NEW p, NEW n, NEW r \in Nat, NEW e, NEW c, Stamps(h, p, n, r, e, c),
         NEW q, q \notin {"off", "stamp0", "stamp1"}, NEW d
  PROVE  Stamps(h, q, n, r + 1, << >>, d)
<1>1. ASSUME NEW k \in 1..Len(n) PROVE n[k].run \in 0..(r + 1) /\ n[k].run # r + 1
  <2>1. n[k].run \in 0..r
    BY DEF Stamps
  <2> QED BY <2>1
<1> QED BY <1>1 DEF Stamps

\* The stamp that comes is of the frame that is waited for.
LEMMA StampsDepart ==
  ASSUME NEW h, NEW p, NEW n, IsSeq(n), n # << >>, NEW r, NEW e, IsSeq(e), NEW c,
         Stamps(h, p, n, r, e, c), NEW f,
         \/ p # "off" /\ Head(n).run = r /\ f = Append(e, <<h, Head(n).id>>)
         \/ f = e
  PROVE  Stamps(h, p, Tail(n), r, f, c)
<1>1. PICK t, l, x : t = Tail(n) /\ l = Len(n) /\ x = Head(n)
  OBVIOUS
<1>2. /\ l \in Nat \ {0} /\ Len(t) = l - 1 /\ x = n[1] /\ 1 \in 1..l
      /\ \A k \in 1..Len(t) : k + 1 \in 1..l /\ t[k] = n[k + 1]
  BY <1>1, TailFacts
<1>3. \A k \in 1..Len(t) : t[k].run \in 0..r
  BY <1>1, <1>2 DEF Stamps
<1>4. ASSUME p \notin {"off", "stamp0", "stamp1"}
      PROVE  f = << >> /\ \A k \in 1..Len(t) : t[k].run # r
  <2>1. e = << >> /\ \A k \in 1..l : n[k].run # r
    BY <1>1, <1>4 DEF Stamps
  <2> QED BY <1>1, <1>2, <2>1
<1>5. ASSUME p \in {"stamp0", "stamp1"}
      PROVE  /\ Len(f) <= 1 /\ \A k \in 1..Len(f) : f[k] = <<h, c>>
             /\ \A k \in 1..Len(t) :
                  t[k].run = r => k = Len(t) /\ t[k].id = c /\ f = << >>
  <2>1. /\ Len(e) <= 1 /\ \A k \in 1..Len(e) : e[k] = <<h, c>>
        /\ \A k \in 1..l : n[k].run = r => k = l /\ n[k].id = c /\ e = << >>
    BY <1>1, <1>5 DEF Stamps
  <2>2. CASE f = e
    <3>1. ASSUME NEW k \in 1..Len(t), t[k].run = r
          PROVE  k = Len(t) /\ t[k].id = c /\ f = << >>
      <4>1. k + 1 \in 1..l /\ t[k] = n[k + 1] /\ n[k + 1].run = r
        BY <1>2, <3>1
      <4>2. k + 1 = l /\ n[k + 1].id = c /\ e = << >>
        BY <2>1, <4>1
      <4>3. k = Len(t)
        BY <1>2, <4>2
      <4> QED BY <2>2, <4>1, <4>2, <4>3
    <3> QED BY <2>1, <2>2, <3>1
  <2>3. CASE x.run = r /\ f = Append(e, <<h, x.id>>)
    <3>1. 1 = l /\ x.id = c /\ e = << >>
      BY <1>2, <2>1, <2>3
    <3>2. Len(f) = 1 /\ f[1] = <<h, c>>
      BY <2>3, <3>1, AppendFacts, NoneFacts
    <3>3. Len(t) = 0
      BY <1>2, <3>1
    <3> QED BY <3>2, <3>3
  <2> QED BY <1>1, <2>2, <2>3
<1> QED BY <1>1, <1>3, <1>4, <1>5 DEF Stamps

\* The parts of a frame in a program.
LEMMA FrameParts ==
  ASSUME NEW f, NEW x, NEW y, f = [phase |-> x, ts |-> y] PROVE f.phase = x /\ f.ts = y
OBVIOUS

\* Cleared times are four.
LEMMA ZeroTimesDomain == DOMAIN ZeroTimes = 1..4
BY DEF ZeroTimes

\* What a step of host g leaves of the mail of the other one.
LEMMA MailOfOther ==
  ASSUME Pair, Shape, NEW g \in Hosts, Act(g), Mail(g), Mail(Other(g))
  PROVE  Mail(Other(g))'
<1>1. PICK q \in Hosts : q = Other(g) /\ q # g
  BY PairFacts
<1>2. Same(q)
  BY <1>1, OthersKept
<1>3. Stamps(q, pc'[q], nic'[q], run'[q], eq'[q], Current(q)')
  <2>1. Current(q)' = Current(q)
    BY <1>2 DEF Same, Current, Answered
  <2> QED BY <1>1, <1>2, <2>1 DEF Same, Mail
<1>4. Timed(nic'[q]) /\ DOMAIN frame'[q].ts = 1..4
  BY <1>1, <1>2 DEF Same, Mail
<1>5. Timed(rq'[q])
  <2>1. CASE rq'[q] = rq[q]
    BY <1>1, <2>1 DEF Mail
  <2>2. CASE rq'[q] # rq[q]
    <3>1. Depart(g)
      BY <1>1, <2>2, OthersKept
    <3>2. nic[g] # << >> /\ rq'[q] = Append(rq[q], Head(nic[g]))
      BY <1>1, <2>2, <3>1, DepartFacts
    <3>3. IsSeq(nic[g]) /\ Timed(nic[g]) /\ IsSeq(rq[q]) /\ Timed(rq[q])
      BY <1>1 DEF Shape, Mail
    <3>4. DOMAIN Head(nic[g]).ts = 1..4
      BY <3>2, <3>3, TimedTail
    <3> QED BY <3>2, <3>3, <3>4, TimedAppend
  <2> QED BY <2>1, <2>2
<1> QED BY <1>1, <1>3, <1>4, <1>5 DEF Mail

\* What a step of host g leaves of its own mail.
LEMMA MailOfOwn ==
  ASSUME Pair, Shape, NEW g \in Hosts, Act(g), ~Intrude(g), "stampLate" \notin faults, Mail(g)
  PROVE  Mail(g)'
<1> SUFFICES /\ Stamps(g, pc'[g], nic'[g], run'[g], eq'[g], Current(g)')
             /\ Timed(nic'[g]) /\ Timed(rq'[g]) /\ DOMAIN frame'[g].ts = 1..4
  BY DEF Mail
<1>0. /\ Stamps(g, pc[g], nic[g], run[g], eq[g], Current(g))
      /\ Timed(nic[g]) /\ Timed(rq[g]) /\ DOMAIN frame[g].ts = 1..4
      /\ IsSeq(nic[g]) /\ IsSeq(rq[g]) /\ IsSeq(eq[g]) /\ run[g] \in Nat
  BY DEF Mail, Shape
<1>1. CASE Start(g)
  <2>1. /\ pc'[g] \notin {"off", "stamp0", "stamp1"} /\ rq'[g] = << >> /\ eq'[g] = << >>
        /\ nic'[g] = nic[g] /\ frame'[g].ts = ZeroTimes /\ run'[g] = run[g] + 1
    BY <1>1, StartFacts
  <2> QED BY <1>0, <2>1, StampsStart, TimedNone, ZeroTimesDomain
<1>2. CASE StartFails(g)
  BY <1>0, <1>2 DEF StartFails, program, network, history, Current, Answered
<1>3. CASE Kill(g)
  <2>1. /\ pc'[g] = "off" /\ rq'[g] = rq[g] /\ eq'[g] = eq[g] /\ nic'[g] = nic[g]
        /\ frame'[g] = frame[g] /\ run'[g] = run[g]
    BY <1>3, KillFacts
  <2> QED BY <1>0, <2>1, StampsOff
<1>4. CASE Send0(g)
  <2>1. PICK m : m = FrameOf(g, 0, frame[g].ts)
    OBVIOUS
  <2>2. m.run = run[g] /\ m.id = <<g, sent[g] + 1, Answered(g)>> /\ m.ts = frame[g].ts
    BY <2>1 DEF FrameOf
  <2>3. /\ pc[g] = "send0" /\ pc'[g] = "stamp0" /\ rq'[g] = rq[g] /\ eq'[g] = eq[g]
        /\ nic'[g] = Append(nic[g], m) /\ frame'[g].ts = frame[g].ts
        /\ run'[g] = run[g] /\ sent'[g] = sent[g] + 1
    BY <1>4, <2>1, Send0Facts
  <2>4. Current(g)' = m.id
    BY <2>2, <2>3 DEF Current, Answered
  <2>5. Stamps(g, "stamp0", Append(nic[g], m), run[g], eq[g], m.id)
    BY <1>0, <2>2, <2>3, StampsSend
  <2>6. Timed(nic'[g])
    BY <1>0, <2>2, <2>3, TimedAppend
  <2> QED BY <1>0, <2>3, <2>4, <2>5, <2>6
<1>5. CASE Send0Fails(g)
  <2>1. /\ pc[g] = "send0" /\ pc'[g] = "send1" /\ rq'[g] = rq[g] /\ eq'[g] = eq[g]
        /\ nic'[g] = nic[g] /\ frame'[g] = frame[g] /\ run'[g] = run[g]
    BY <1>5, Send0FailsFacts
  <2>2. eq[g] = << >> /\ \A k \in 1..Len(nic[g]) : nic[g][k].run # run[g]
    BY <1>0, <2>1 DEF Stamps
  <2> QED BY <1>0, <2>1, <2>2, StampsOver
<1>6. CASE Stamp0(g) \/ (Stamp1(g) /\ eq[g] # << >>)
  <2>1. /\ pc[g] \in {"stamp0", "stamp1"} /\ pc'[g] \in {"send1", "recv0"} /\ eq[g] # << >>
        /\ rq'[g] = rq[g] /\ eq'[g] = Tail(eq[g])
        /\ nic'[g] = nic[g] /\ frame'[g] = frame[g] /\ run'[g] = run[g]
    BY <1>6, Stamp0Facts, Stamp1Facts
  <2>2. Stamps(g, pc'[g], nic[g], run[g], Tail(eq[g]), Current(g)')
    BY <1>0, <2>1, StampsTake
  <2> QED BY <1>0, <2>1, <2>2
<1>7. CASE Stamp0Timeout(g) \/ (Stamp1(g) /\ eq[g] = << >>)
  <2>1. /\ pc[g] \in {"stamp0", "stamp1"} /\ pc'[g] \in {"send1", "recv0"} /\ eq[g] = << >>
        /\ nic[g] = << >> /\ rq'[g] = rq[g] /\ eq'[g] = eq[g]
        /\ nic'[g] = nic[g] /\ frame'[g] = frame[g] /\ run'[g] = run[g]
    BY <1>7, Stamp0TimeoutFacts, Stamp1Facts
  <2>2. \A k \in 1..Len(nic[g]) : nic[g][k].run # run[g]
    BY <2>1, NoneFacts
  <2>3. Stamps(g, pc'[g], nic[g], run[g], eq[g], Current(g)')
    BY <1>0, <2>1, <2>2, StampsOver
  <2> QED BY <1>0, <2>1, <2>3
<1>8. CASE Send1(g)
  <2>1. /\ pc[g] = "send1" /\ rq'[g] = rq[g] /\ eq'[g] = eq[g] /\ run'[g] = run[g]
        /\ frame'[g].ts = FollowTimes(g)
    <3>1. /\ pc[g] = "send1" /\ rq'[g] = rq[g] /\ eq'[g] = eq[g] /\ run'[g] = run[g]
          /\ frame'[g] = [phase |-> 1, ts |-> FollowTimes(g)]
      BY <1>8, Send1Facts
    <3> QED BY <3>1, FrameParts
  <2>2. DOMAIN FollowTimes(g) = 1..4
    BY <1>0 DEF FollowTimes
  <2>3. CASE /\ pc'[g] = "stamp1" /\ sent'[g] = sent[g] + 1
             /\ nic'[g] = Append(nic[g], FrameOf(g, 1, FollowTimes(g)))
    <3>1. PICK m : m = FrameOf(g, 1, FollowTimes(g))
      OBVIOUS
    <3>2. m.run = run[g] /\ m.id = <<g, sent[g] + 1, Answered(g)>> /\ m.ts = FollowTimes(g)
      BY <3>1 DEF FrameOf
    <3>3. Answered(g)' = Answered(g)
      BY <1>0, <2>1 DEF Answered, FollowTimes, TxAt
    <3>4. Current(g)' = m.id
      BY <2>3, <3>2, <3>3 DEF Current
    <3>5. Stamps(g, "stamp1", Append(nic[g], m), run[g], eq[g], m.id)
      BY <1>0, <2>1, <3>2, StampsSend
    <3>6. Timed(nic'[g])
      BY <1>0, <2>2, <2>3, <3>1, <3>2, TimedAppend
    <3> QED BY <1>0, <2>1, <2>2, <2>3, <3>1, <3>4, <3>5, <3>6
  <2>4. CASE pc'[g] = "recv0" /\ nic'[g] = nic[g]
    <3>1. eq[g] = << >> /\ \A k \in 1..Len(nic[g]) : nic[g][k].run # run[g]
      BY <1>0, <2>1 DEF Stamps
    <3>2. Stamps(g, pc'[g], nic[g], run[g], eq[g], Current(g)')
      BY <1>0, <2>4, <3>1, StampsOver
    <3> QED BY <1>0, <2>1, <2>2, <2>4, <3>2
  <2> QED BY <1>8, <2>3, <2>4, Send1Facts
<1>9. CASE Recv0(g) \/ Recv1(g)
  <2>1. /\ pc[g] \in {"recv0", "recv1"} /\ pc'[g] \in {"recv0", "recv1", "send0", "report"}
        /\ rq[g] # << >> /\ rq'[g] = Tail(rq[g]) /\ eq'[g] = eq[g]
        /\ nic'[g] = nic[g] /\ run'[g] = run[g]
    BY <1>9, Recv0Facts, Recv1Facts
  <2>2. Timed(Tail(rq[g])) /\ DOMAIN Head(rq[g]).ts = 1..4
    BY <1>0, <2>1, TimedTail
  <2>3. DOMAIN frame'[g].ts = 1..4
    <3>1. CASE Recv0(g)
      <4>1. frame'[g] = [phase |-> Head(rq[g]).phase, ts |-> Head(rq[g]).ts]
        BY <3>1, Recv0Facts
      <4> QED BY <2>2, <4>1, FrameParts
    <3>2. CASE Recv1(g)
      <4>1. frame'[g] = Followup(g, Head(rq[g]))
        BY <3>2, Recv1Facts
      <4> QED BY <2>2, <4>1 DEF Followup
    <3> QED BY <1>9, <3>1, <3>2
  <2>4. eq[g] = << >> /\ \A k \in 1..Len(nic[g]) : nic[g][k].run # run[g]
    BY <1>0, <2>1 DEF Stamps
  <2>5. Stamps(g, pc'[g], nic[g], run[g], eq[g], Current(g)')
    BY <1>0, <2>1, <2>4, StampsOver
  <2> QED BY <1>0, <2>1, <2>2, <2>3, <2>5
<1>10. CASE Report(g)
  <2>1. /\ pc'[g] = "off" /\ rq'[g] = rq[g] /\ eq'[g] = eq[g] /\ nic'[g] = nic[g]
        /\ frame'[g] = frame[g] /\ run'[g] = run[g]
    BY <1>10, ReportFacts
  <2> QED BY <1>0, <2>1, StampsOff
<1>11. CASE Depart(g)
  <2>1. /\ nic[g] # << >> /\ nic'[g] = Tail(nic[g]) /\ rq'[g] = rq[g]
        /\ \/ /\ pc[g] # "off" /\ Head(nic[g]).run = run[g]
              /\ eq'[g] = Append(eq[g], <<g, Head(nic[g]).id>>)
           \/ eq'[g] = eq[g]
        /\ pc'[g] = pc[g] /\ frame'[g] = frame[g] /\ run'[g] = run[g] /\ sent'[g] = sent[g]
    <3>1. Other(g) \in Hosts /\ Other(g) # g
      BY PairFacts
    <3> QED BY <1>11, <3>1, DepartFacts
  <2>2. Current(g)' = Current(g)
    BY <2>1 DEF Current, Answered
  <2>3. Stamps(g, pc[g], Tail(nic[g]), run[g], eq'[g], Current(g))
    BY <1>0, <2>1, StampsDepart
  <2>4. Timed(Tail(nic[g]))
    BY <1>0, <2>1, TimedTail
  <2> QED BY <1>0, <2>1, <2>2, <2>3, <2>4
<1> QED BY <1>1, <1>2, <1>3, <1>4, <1>5, <1>6, <1>7, <1>8, <1>9, <1>10, <1>11, Act(g)
        DEF Act, Step

-----------------------------------------------------------------------------
(* How the frames under way change                                         *)

\* Steps that move no frame.
Idle(g) ==
  \/ Start(g) \/ StartFails(g) \/ Send0Fails(g)
  \/ Stamp0(g) \/ Stamp0Timeout(g) \/ Stamp1(g)

\* The frames to a host after a step of its own.
LEMMA OwnArriving ==
  ASSUME Pair, Shape, NEW g \in Hosts, Act(g), ~Intrude(g)
  PROVE  /\ Recv0(g) \/ Recv1(g) =>
              /\ Arriving(g)' = Tail(Arriving(g))
              /\ Arriving(g) # << >> /\ Arriving(g)[1] = Head(rq[g])
         /\ Kill(g) \/ Report(g) => Suffix(Arriving(g)', Arriving(g))
         /\ Idle(g) \/ Send0(g) \/ Send1(g) \/ Depart(g) => Arriving(g)' = Arriving(g)
<1>0. /\ Other(g) \in Hosts /\ Other(g) # g
      /\ IsSeq(rq[g]) /\ IsSeq(nic[Other(g)])
  BY PairFacts DEF Shape
<1>1. nic'[Other(g)] = nic[Other(g)]
  BY <1>0, OthersKept DEF Same
<1>2. ASSUME Recv0(g) \/ Recv1(g)
      PROVE  /\ Arriving(g)' = Tail(Arriving(g))
             /\ Arriving(g) # << >> /\ Arriving(g)[1] = Head(rq[g])
  <2>1. rq[g] # << >> /\ rq'[g] = Tail(rq[g]) /\ pc[g] # "off" /\ pc'[g] # "off"
    BY <1>2, Recv0Facts, Recv1Facts
  <2> QED BY <1>0, <1>1, <2>1, ArrivingReceived
<1>3. ASSUME Kill(g) \/ Report(g)
      PROVE  Suffix(Arriving(g)', Arriving(g))
  <2>1. pc[g] # "off" /\ pc'[g] = "off"
    BY <1>3, KillFacts, ReportFacts
  <2> QED BY <1>0, <1>1, <2>1, ArrivingGone
<1>4. ASSUME Idle(g) \/ Send0(g) \/ Send1(g) \/ Depart(g)
      PROVE  Arriving(g)' = Arriving(g)
  <2>1. CASE Start(g)
    <3>1. rq'[g] = << >> /\ pc[g] = "off"
      BY <2>1, StartFacts
    <3> QED BY <1>0, <1>1, <3>1, ArrivingStarted
  <2>2. CASE ~Start(g)
    <3>1. rq'[g] = rq[g] /\ (pc'[g] = "off" <=> pc[g] = "off")
      <4>1. CASE StartFails(g)
        BY <4>1 DEF StartFails, program, network
      <4>2. CASE Send0(g)
        BY <4>2, Send0Facts
      <4>3. CASE Send0Fails(g)
        BY <4>3, Send0FailsFacts
      <4>4. CASE Stamp0(g)
        BY <4>4, Stamp0Facts
      <4>5. CASE Stamp0Timeout(g)
        BY <4>5, Stamp0TimeoutFacts
      <4>6. CASE Send1(g)
        BY <4>6, Send1Facts
      <4>7. CASE Stamp1(g)
        BY <4>7, Stamp1Facts
      <4>8. CASE Depart(g)
        BY <1>0, <4>8, DepartFacts
      <4> QED BY <1>4, <2>2, <4>1, <4>2, <4>3, <4>4, <4>5, <4>6, <4>7, <4>8 DEF Idle
    <3> QED BY <1>1, <3>1, ArrivingSame
  <2> QED BY <2>1, <2>2
<1> QED BY <1>2, <1>3, <1>4

\* The frames to host q after a step of the other host.
LEMMA PeerArriving ==
  ASSUME Pair, Shape, NEW g \in Hosts, Act(g), ~Intrude(g),
         NEW q \in Hosts, q = Other(g)
  PROVE  /\ Send0(g) => Arriving(q)' = Append(Arriving(q), FrameOf(g, 0, frame[g].ts))
         /\ Send1(g) =>
              \/ /\ pc'[g] = "stamp1"
                 /\ Arriving(q)' = Append(Arriving(q), FrameOf(g, 1, FollowTimes(g)))
              \/ pc'[g] = "recv0" /\ "sendFails" \in faults /\ Arriving(q)' = Arriving(q)
         /\ Depart(g) =>
              \/ pc[q] = "off" /\ Arriving(q) # << >> /\ Arriving(q)' = Tail(Arriving(q))
              \/ Arriving(q)' = Arriving(q)
              \/ /\ "frameLost" \in faults /\ pc[q] # "off"
                 /\ Len(Arriving(q)) \in Nat \ {0}
                 /\ Len(Arriving(q)') = Len(Arriving(q)) - 1
         /\ Idle(g) \/ Kill(g) \/ Report(g) \/ Recv0(g) \/ Recv1(g) => Arriving(q)' = Arriving(q)
<1>0. /\ q # g /\ Other(q) = g
      /\ IsSeq(rq[q]) /\ IsSeq(nic[g])
  BY PairFacts DEF Shape
<1>1. pc'[q] = pc[q] /\ (Depart(g) \/ rq'[q] = rq[q])
  BY <1>0, OthersKept DEF Same
<1>2. ASSUME ~Depart(g), NEW m, nic'[g] = Append(nic[g], m)
      PROVE  Arriving(q)' = Append(Arriving(q), m)
  BY <1>0, <1>1, <1>2, ArrivingSent
<1>3. ASSUME ~Depart(g), nic'[g] = nic[g]
      PROVE  Arriving(q)' = Arriving(q)
  BY <1>0, <1>1, <1>3, ArrivingSame
<1>4. ASSUME Send0(g)
      PROVE  Arriving(q)' = Append(Arriving(q), FrameOf(g, 0, frame[g].ts))
  <2>1. nic'[g] = Append(nic[g], FrameOf(g, 0, frame[g].ts)) /\ pc[g] # pc'[g]
    BY <1>4, Send0Facts
  <2>2. ~Depart(g)
    BY <1>0, <2>1, DepartFacts
  <2> QED BY <1>2, <2>1, <2>2
<1>5. ASSUME Send1(g)
      PROVE  \/ /\ pc'[g] = "stamp1"
                /\ Arriving(q)' = Append(Arriving(q), FrameOf(g, 1, FollowTimes(g)))
             \/ pc'[g] = "recv0" /\ "sendFails" \in faults /\ Arriving(q)' = Arriving(q)
  <2>1. pc[g] = "send1" /\ pc'[g] \in {"stamp1", "recv0"}
    BY <1>5, Send1Facts
  <2>2. ~Depart(g)
    BY <1>0, <2>1, DepartFacts
  <2>3. \/ /\ pc'[g] = "stamp1"
           /\ nic'[g] = Append(nic[g], FrameOf(g, 1, FollowTimes(g)))
        \/ pc'[g] = "recv0" /\ nic'[g] = nic[g] /\ "sendFails" \in faults
    BY <1>5, Send1Facts
  <2> QED BY <1>2, <1>3, <2>2, <2>3
<1>6. ASSUME Depart(g)
      PROVE  \/ pc[q] = "off" /\ Arriving(q) # << >> /\ Arriving(q)' = Tail(Arriving(q))
             \/ Arriving(q)' = Arriving(q)
             \/ /\ "frameLost" \in faults /\ pc[q] # "off"
                /\ Len(Arriving(q)) \in Nat \ {0}
                /\ Len(Arriving(q)') = Len(Arriving(q)) - 1
  <2>1. /\ nic[g] # << >> /\ nic'[g] = Tail(nic[g])
        /\ \/ rq'[q] = rq[q] /\ (pc[q] = "off" \/ "frameLost" \in faults)
           \/ rq'[q] = Append(rq[q], Head(nic[g])) /\ pc[q] # "off"
    BY <1>0, <1>6, DepartFacts
  <2>2. /\ IsSeq(nic[Other(q)]) /\ nic[Other(q)] # << >>
        /\ nic'[Other(q)] = Tail(nic[Other(q)])
        /\ \/ rq'[q] = rq[q] /\ (pc[q] = "off" \/ "frameLost" \in faults)
           \/ rq'[q] = Append(rq[q], Head(nic[Other(q)])) /\ pc[q] # "off"
    BY <1>0, <2>1
  <2> QED BY <1>0, <1>1, <2>2, ArrivingDeparted
<1>7. ASSUME Idle(g) \/ Kill(g) \/ Report(g) \/ Recv0(g) \/ Recv1(g)
      PROVE  Arriving(q)' = Arriving(q)
  <2>1. nic'[g] = nic[g]
    <3>1. CASE Start(g)
      BY <3>1, StartFacts
    <3>2. CASE StartFails(g) \/ Kill(g) \/ Report(g)
      BY <3>2 DEF StartFails, Kill, Report, network
    <3>3. CASE Send0Fails(g)
      BY <3>3, Send0FailsFacts
    <3>4. CASE Stamp0(g)
      BY <3>4, Stamp0Facts
    <3>5. CASE Stamp0Timeout(g)
      BY <3>5, Stamp0TimeoutFacts
    <3>6. CASE Stamp1(g)
      BY <3>6, Stamp1Facts
    <3>7. CASE Recv0(g)
      BY <3>7, Recv0Facts
    <3>8. CASE Recv1(g)
      BY <3>8, Recv1Facts
    <3> QED BY <1>7, <3>1, <3>2, <3>3, <3>4, <3>5, <3>6, <3>7, <3>8 DEF Idle
  <2>2. ~Depart(g)
    <3>1. ASSUME Depart(g) PROVE FALSE
      <4>1. nic[g] # << >> /\ nic'[g] = Tail(nic[g])
        BY <1>0, <3>1, DepartFacts
      <4>2. PICK n \in Nat : n = Len(nic[g]) /\ Len(Tail(nic[g])) = n - 1
        BY <1>0, <4>1, TailFacts
      <4>3. n = n - 1
        BY <2>1, <4>1, <4>2
      <4> QED BY <4>3
    <3> QED BY <3>1
  <2> QED BY <1>3, <2>1, <2>2
<1> QED BY <1>4, <1>5, <1>6, <1>7

-----------------------------------------------------------------------------
(* The two programs in step                                                *)

\* How many frames a host waits for when it is at p and n are under way to it.
Due(p, n) == n + (IF p = "recv1" THEN 1 ELSE 0)

\* The sender at x with v frames due, the listener at y with u frames due.
InStep(x, y, u, v) ==
  /\ x \in {"off", "send0", "report"} => u = 0 /\ v = 0 /\ y \in {"off", "recv0", "stamp1"}
  /\ x \in {"stamp0", "send1"} => u <= 1
  /\ u <= 2 /\ v <= 2
  /\ y \in {"send0", "stamp0", "send1"} => u = 0 /\ x \in {"stamp1", "recv0", "recv1"}
  /\ v > 0 =>
       /\ u = 0 /\ x \in {"stamp1", "recv0", "recv1"}
       /\ y \in {"off", "stamp0", "send1", "stamp1", "recv0"}
  /\ y = "send0" => v = 0
  /\ y \in {"stamp0", "send1"} => v <= 1

NoKill == "kill" \notin faults

OnePair ==
  NoKill => InStep(pc[Snd], pc[Lst], Due(pc[Lst], Len(Arriving(Lst))),
                   Due(pc[Snd], Len(Arriving(Snd))))

\* A number of frames goes down by a step of the host they go to.
LEMMA SuffixLength ==
  ASSUME NEW a, IsSeq(a), NEW b, IsSeq(b), Suffix(b, a)
  PROVE  Len(a) \in Nat /\ Len(b) \in Nat /\ Len(b) <= Len(a)
<1>1. PICK n \in Nat : Len(b) = Len(a) - n
  BY DEF Suffix
<1>2. Len(a) \in Nat /\ Len(b) \in Nat
  BY EmptyFacts
<1> QED BY <1>1, <1>2

\* The lengths of the queues to g and to the other host, by the step of g.
LEMMA LengthsOfStep ==
  ASSUME Pair, Shape, Shape', NEW g \in Hosts, Act(g), ~Intrude(g),
         NEW q \in Hosts, q = Other(g)
  PROVE  \E a, b, c, d \in Nat :
           /\ a = Len(Arriving(g)) /\ b = Len(Arriving(g)')
           /\ c = Len(Arriving(q)) /\ d = Len(Arriving(q)')
           /\ \/ Idle(g) /\ b = a /\ d = c
              \/ (Kill(g) \/ Report(g)) /\ b <= a /\ d = c
              \/ (Recv0(g) \/ Recv1(g)) /\ b = a - 1 /\ d = c
              \/ Send0(g) /\ b = a /\ d = c + 1
              \/ Send1(g) /\ b = a /\ pc'[g] = "stamp1" /\ d = c + 1
              \/ Send1(g) /\ b = a /\ pc'[g] = "recv0" /\ d = c
              \/ Depart(g) /\ b = a /\ d <= c
<1>1. /\ IsSeq(Arriving(g)) /\ Len(Arriving(g)) \in Nat
      /\ IsSeq(Arriving(q)) /\ Len(Arriving(q)) \in Nat
  BY ArrivingSeq
<1>2. /\ IsSeq(Arriving(g)') /\ Len(Arriving(g)') \in Nat
      /\ IsSeq(Arriving(q)') /\ Len(Arriving(q)') \in Nat
  <2>1. ASSUME NEW h \in Hosts PROVE IsSeq(Arriving(h)')
    <3>1. IsSeq(rq'[h]) /\ IsSeq(nic'[Other(h)]) /\ Other(h)' = Other(h)
      BY PairFacts DEF Shape, Other
    <3>2. IsSeq(rq'[h] \o nic'[Other(h)])
      BY <3>1, CatFacts
    <3> QED BY <3>1, <3>2 DEF Arriving
  <2> QED BY <2>1, EmptyFacts
<1>3. PICK a, b, c, d \in Nat :
        /\ a = Len(Arriving(g)) /\ b = Len(Arriving(g)')
        /\ c = Len(Arriving(q)) /\ d = Len(Arriving(q)')
  BY <1>1, <1>2
<1>4. ASSUME Recv0(g) \/ Recv1(g) PROVE b = a - 1
  <2>1. Arriving(g)' = Tail(Arriving(g)) /\ Arriving(g) # << >>
    BY <1>4, OwnArriving
  <2> QED BY <1>1, <1>3, <2>1, TailFacts
<1>5. ASSUME Kill(g) \/ Report(g) PROVE b <= a
  <2>1. Suffix(Arriving(g)', Arriving(g))
    BY <1>5, OwnArriving
  <2> QED BY <1>1, <1>2, <1>3, <2>1, SuffixLength
<1>6. ASSUME Idle(g) \/ Send0(g) \/ Send1(g) \/ Depart(g) PROVE b = a
  BY <1>3, <1>6, OwnArriving
<1>7. ASSUME NEW m, Arriving(q)' = Append(Arriving(q), m) PROVE d = c + 1
  BY <1>1, <1>3, <1>7, AppendFacts
<1>8. Send0(g) => d = c + 1
  BY <1>7, PeerArriving
<1>9. Send1(g) => \/ pc'[g] = "stamp1" /\ d = c + 1
                  \/ pc'[g] = "recv0" /\ d = c
  BY <1>3, <1>7, PeerArriving
<1>10. ASSUME Depart(g) PROVE d <= c
  <2>1. CASE Arriving(q) # << >> /\ Arriving(q)' = Tail(Arriving(q))
    <3>1. Len(Tail(Arriving(q))) = Len(Arriving(q)) - 1
      BY <1>1, <2>1, TailFacts
    <3>2. d = c - 1
      BY <1>3, <2>1, <3>1
    <3> QED BY <3>2
  <2>2. CASE Arriving(q)' = Arriving(q)
    BY <1>3, <2>2
  <2>3. CASE Len(Arriving(q)') = Len(Arriving(q)) - 1
    BY <1>3, <2>3
  <2> QED BY <1>10, <2>1, <2>2, <2>3, PeerArriving
<1>11. Idle(g) \/ Kill(g) \/ Report(g) \/ Recv0(g) \/ Recv1(g) => d = c
  BY <1>3, PeerArriving
<1>12. \/ Idle(g) \/ (Kill(g) \/ Report(g)) \/ (Recv0(g) \/ Recv1(g))
       \/ Send0(g) \/ Send1(g) \/ Depart(g)
  BY Act(g), ~Intrude(g) DEF Act, Step, Idle
<1>13. \/ Idle(g) /\ b = a /\ d = c
       \/ (Kill(g) \/ Report(g)) /\ b <= a /\ d = c
       \/ (Recv0(g) \/ Recv1(g)) /\ b = a - 1 /\ d = c
       \/ Send0(g) /\ b = a /\ d = c + 1
       \/ Send1(g) /\ b = a /\ pc'[g] = "stamp1" /\ d = c + 1
       \/ Send1(g) /\ b = a /\ pc'[g] = "recv0" /\ d = c
       \/ Depart(g) /\ b = a /\ d <= c
  BY <1>4, <1>5, <1>6, <1>8, <1>9, <1>10, <1>11, <1>12
<1> QED BY <1>3, <1>13

\* The program counters, by the step.
LEMMA PcOfStep ==
  ASSUME Pair, Shape, NEW g \in Hosts, Act(g), ~Intrude(g),
         NEW x, NEW z, x = pc[g], z = pc'[g]
  PROVE  /\ Idle(g) => \/ z = x
                       \/ x = "off" /\ g \in Listeners /\ z = "recv0"
                       \/ x = "off" /\ g \notin Listeners /\ z = "send0"
                       \/ x = "send0" /\ z = "send1"
                       \/ x = "stamp0" /\ z = "send1"
                       \/ x = "stamp1" /\ z = "recv0"
         /\ Kill(g) => z = "off" /\ (g \in Senders => "kill" \in faults)
         /\ Report(g) => x = "report" /\ z = "off"
         /\ Recv0(g) => x = "recv0" /\ z \in {"recv0", "recv1"}
         /\ Recv1(g) => x = "recv1" /\ z = IF g \in Listeners THEN "send0" ELSE "report"
         /\ Send0(g) => x = "send0" /\ z = "stamp0"
         /\ Send1(g) => x = "send1"
         /\ Depart(g) => z = x
<1>1. Idle(g) => \/ z = x
                 \/ x = "off" /\ g \in Listeners /\ z = "recv0"
                 \/ x = "off" /\ g \notin Listeners /\ z = "send0"
                 \/ x = "send0" /\ z = "send1"
                 \/ x = "stamp0" /\ z = "send1"
                 \/ x = "stamp1" /\ z = "recv0"
  <2>1. Start(g) => x = "off" /\ z = IF g \in Listeners THEN "recv0" ELSE "send0"
    BY StartFacts
  <2>2. StartFails(g) => z = x
    BY DEF StartFails, program
  <2>3. Send0Fails(g) => x = "send0" /\ z = "send1"
    BY Send0FailsFacts
  <2>4. Stamp0(g) => x = "stamp0" /\ z = "send1"
    BY Stamp0Facts
  <2>5. Stamp0Timeout(g) => x = "stamp0" /\ z = "send1"
    BY Stamp0TimeoutFacts
  <2>6. Stamp1(g) => x = "stamp1" /\ z = "recv0"
    BY Stamp1Facts
  <2> QED BY <2>1, <2>2, <2>3, <2>4, <2>5, <2>6 DEF Idle
<1>2. Kill(g) => z = "off" /\ (g \in Senders => "kill" \in faults)
  BY KillFacts
<1>3. Report(g) => x = "report" /\ z = "off"
  BY ReportFacts
<1>4. Recv0(g) => x = "recv0" /\ z \in {"recv0", "recv1"}
  BY Recv0Facts
<1>5. Recv1(g) => x = "recv1" /\ z = IF g \in Listeners THEN "send0" ELSE "report"
  BY Recv1Facts
<1>6. Send0(g) => x = "send0" /\ z = "stamp0"
  BY Send0Facts
<1>7. Send1(g) => x = "send1"
  BY Send1Facts
<1>8. Depart(g) => z = x
  BY PairFacts, DepartFacts
<1> QED BY <1>1, <1>2, <1>3, <1>4, <1>5, <1>6, <1>7, <1>8

Places ==
  {"off", "send0", "stamp0", "send1", "stamp1", "recv0", "recv1", "report"}

\* A program is always at one of its places.
LEMMA PlaceStep ==
  ASSUME Pair, Shape, NEW g \in Hosts, Act(g), ~Intrude(g), NEW h \in Hosts, pc[h] \in Places
  PROVE  pc'[h] \in Places
<1>1. CASE h # g
  BY <1>1, OthersKept DEF Same
<1>2. CASE h = g
  <2>1. PICK x, z : x = pc[g] /\ z = pc'[g]
    OBVIOUS
  <2>2. z \in Places
    <3>1. CASE Idle(g)
      BY <1>2, <2>1, <3>1, PcOfStep DEF Places
    <3>2. CASE Kill(g) \/ Report(g) \/ Recv0(g) \/ Recv1(g) \/ Send0(g)
      BY <1>2, <2>1, <3>2, PcOfStep DEF Places
    <3>3. CASE Send1(g)
      BY <2>1, <3>3, Send1Facts DEF Places
    <3>4. CASE Depart(g)
      BY <1>2, <2>1, <3>4, PcOfStep DEF Places
    <3> QED BY <3>1, <3>2, <3>3, <3>4, Act(g), ~Intrude(g) DEF Act, Step, Idle
  <2> QED BY <1>2, <2>1, <2>2
<1> QED BY <1>1, <1>2

\* The two programs stay in step unless the sender is killed.
LEMMA OnePairStep ==
  ASSUME Pair, Shape, Shape', NEW g \in Hosts, Act(g), ~Intrude(g), OnePair,
         pc[Snd] \in Places
  PROVE  OnePair'
<1> SUFFICES ASSUME NoKill'
             PROVE  InStep(pc'[Snd], pc'[Lst], Due(pc'[Lst], Len(Arriving(Lst)')),
                           Due(pc'[Snd], Len(Arriving(Snd)')))
  BY DEF OnePair, Snd, Lst
<1>0. /\ Snd \in Hosts /\ Lst \in Hosts /\ Snd # Lst /\ g \in {Snd, Lst}
      /\ Other(Snd) = Lst /\ Other(Lst) = Snd
      /\ Lst \in Listeners /\ Snd \notin Listeners /\ Snd \in Senders
  BY PairFacts
<1>1. "kill" \notin faults
  BY <1>0, OthersKept DEF NoKill
<1>2. InStep(pc[Snd], pc[Lst], Due(pc[Lst], Len(Arriving(Lst))),
             Due(pc[Snd], Len(Arriving(Snd))))
  BY <1>1 DEF OnePair, NoKill
<1>3. CASE g = Snd
  <2>1. PICK a, b, c, d \in Nat :
           /\ a = Len(Arriving(Snd)) /\ b = Len(Arriving(Snd)')
           /\ c = Len(Arriving(Lst)) /\ d = Len(Arriving(Lst)')
           /\ \/ Idle(Snd) /\ b = a /\ d = c
              \/ (Kill(Snd) \/ Report(Snd)) /\ b <= a /\ d = c
              \/ (Recv0(Snd) \/ Recv1(Snd)) /\ b = a - 1 /\ d = c
              \/ Send0(Snd) /\ b = a /\ d = c + 1
              \/ Send1(Snd) /\ b = a /\ pc'[Snd] = "stamp1" /\ d = c + 1
              \/ Send1(Snd) /\ b = a /\ pc'[Snd] = "recv0" /\ d = c
              \/ Depart(Snd) /\ b = a /\ d <= c
    BY <1>0, <1>3, LengthsOfStep
  <2>2. PICK x, y, z : x = pc[Snd] /\ y = pc[Lst] /\ z = pc'[Snd]
    OBVIOUS
  <2>3. pc'[Lst] = y
    BY <1>0, <1>3, <2>2, OthersKept DEF Same
  <2>4. InStep(x, y, Due(y, c), Due(x, a))
    BY <1>2, <2>1, <2>2
  <2>5. /\ Idle(Snd) => \/ z = x
                        \/ x = "off" /\ z = "send0"
                        \/ x = "send0" /\ z = "send1"
                        \/ x = "stamp0" /\ z = "send1"
                        \/ x = "stamp1" /\ z = "recv0"
        /\ ~Kill(Snd)
        /\ Report(Snd) => x = "report" /\ z = "off"
        /\ Recv0(Snd) => x = "recv0" /\ z \in {"recv0", "recv1"}
        /\ Recv1(Snd) => x = "recv1" /\ z = "report"
        /\ Send0(Snd) => x = "send0" /\ z = "stamp0"
        /\ Send1(Snd) => x = "send1"
        /\ Depart(Snd) => z = x
    BY <1>0, <1>1, <1>3, <2>2, PcOfStep
  <2>6. InStep(z, y, Due(y, d), Due(z, b))
    <3>1. CASE Idle(Snd) /\ b = a /\ d = c
      BY <2>4, <2>5, <3>1 DEF InStep, Due
    <3>2. CASE Report(Snd) /\ b <= a /\ d = c
      BY <2>4, <2>5, <3>2 DEF InStep, Due
    <3>3. CASE Recv0(Snd) /\ b = a - 1 /\ d = c
      BY <2>4, <2>5, <3>3 DEF InStep, Due
    <3>4. CASE Recv1(Snd) /\ b = a - 1 /\ d = c
      BY <2>4, <2>5, <3>4 DEF InStep, Due
    <3>5. CASE Send0(Snd) /\ b = a /\ d = c + 1
      BY <2>4, <2>5, <3>5 DEF InStep, Due
    <3>6. CASE Send1(Snd) /\ b = a /\ z = "stamp1" /\ d = c + 1
      BY <2>4, <2>5, <3>6 DEF InStep, Due
    <3>7. CASE Send1(Snd) /\ b = a /\ z = "recv0" /\ d = c
      BY <2>4, <2>5, <3>7 DEF InStep, Due
    <3>8. CASE Depart(Snd) /\ b = a /\ d <= c
      BY <2>4, <2>5, <3>8 DEF InStep, Due
    <3> QED BY <2>1, <2>2, <2>5, <3>1, <3>2, <3>3, <3>4, <3>5, <3>6, <3>7, <3>8
  <2> QED BY <2>1, <2>2, <2>3, <2>6
<1>4. CASE g = Lst
  <2>1. PICK a, b, c, d \in Nat :
           /\ a = Len(Arriving(Lst)) /\ b = Len(Arriving(Lst)')
           /\ c = Len(Arriving(Snd)) /\ d = Len(Arriving(Snd)')
           /\ \/ Idle(Lst) /\ b = a /\ d = c
              \/ (Kill(Lst) \/ Report(Lst)) /\ b <= a /\ d = c
              \/ (Recv0(Lst) \/ Recv1(Lst)) /\ b = a - 1 /\ d = c
              \/ Send0(Lst) /\ b = a /\ d = c + 1
              \/ Send1(Lst) /\ b = a /\ pc'[Lst] = "stamp1" /\ d = c + 1
              \/ Send1(Lst) /\ b = a /\ pc'[Lst] = "recv0" /\ d = c
              \/ Depart(Lst) /\ b = a /\ d <= c
    BY <1>0, <1>4, LengthsOfStep
  <2>2. PICK x, y, z : x = pc[Snd] /\ y = pc[Lst] /\ z = pc'[Lst]
    OBVIOUS
  <2>3. pc'[Snd] = x
    BY <1>0, <1>4, <2>2, OthersKept DEF Same
  <2>4. InStep(x, y, Due(y, a), Due(x, c))
    BY <1>2, <2>1, <2>2
  <2>5. /\ Idle(Lst) => \/ z = y
                        \/ y = "off" /\ z = "recv0"
                        \/ y = "send0" /\ z = "send1"
                        \/ y = "stamp0" /\ z = "send1"
                        \/ y = "stamp1" /\ z = "recv0"
        /\ Kill(Lst) => z = "off"
        /\ Report(Lst) => z = "off"
        /\ Recv0(Lst) => y = "recv0" /\ z \in {"recv0", "recv1"}
        /\ Recv1(Lst) => y = "recv1" /\ z = "send0"
        /\ Send0(Lst) => y = "send0" /\ z = "stamp0"
        /\ Send1(Lst) => y = "send1"
        /\ Depart(Lst) => z = y
    BY <1>0, <1>4, <2>2, PcOfStep
  <2>6. InStep(x, z, Due(z, b), Due(x, d))
    <3>1. CASE Idle(Lst) /\ b = a /\ d = c
      BY <2>4, <2>5, <3>1 DEF InStep, Due
    <3>2. CASE (Kill(Lst) \/ Report(Lst)) /\ b <= a /\ d = c
      <4>1. z = "off" /\ b <= a /\ d = c
        BY <2>5, <3>2
      <4>2. PICK u, v \in Nat : u = Due(y, a) /\ v = Due(x, c)
        BY DEF Due
      <4>3. Due(z, b) <= u /\ Due(z, b) \in Nat /\ Due(x, d) = v
        BY <4>1, <4>2 DEF Due
      <4>4. InStep(x, y, u, v)
        BY <2>4, <4>2
      <4>5. InStep(x, "off", Due(z, b), v)
        BY <4>3, <4>4 DEF InStep
      <4> QED BY <4>1, <4>3, <4>5
    <3>3. CASE Recv0(Lst) /\ b = a - 1 /\ d = c
      BY <2>4, <2>5, <3>3 DEF InStep, Due
    <3>4. CASE Recv1(Lst) /\ b = a - 1 /\ d = c
      BY <2>2, <2>4, <2>5, <3>4 DEF InStep, Due, Places
    <3>5. CASE Send0(Lst) /\ b = a /\ d = c + 1
      BY <2>4, <2>5, <3>5 DEF InStep, Due
    <3>6. CASE Send1(Lst) /\ b = a /\ z = "stamp1" /\ d = c + 1
      BY <2>4, <2>5, <3>6 DEF InStep, Due
    <3>7. CASE Send1(Lst) /\ b = a /\ z = "recv0" /\ d = c
      BY <2>4, <2>5, <3>7 DEF InStep, Due
    <3>8. CASE Depart(Lst) /\ b = a /\ d <= c
      BY <2>4, <2>5, <3>8 DEF InStep, Due
    <3> QED BY <2>1, <2>2, <3>1, <3>2, <3>3, <3>4, <3>5, <3>6, <3>7, <3>8
  <2> QED BY <2>1, <2>2, <2>3, <2>6
<1> QED BY <1>0, <1>3, <1>4

-----------------------------------------------------------------------------
(* Frames and follow-ups                                                   *)

\* Follow-ups follow their first frames on the way to host h.
Paired(h) == Chain(h, Arriving(h), pc[h], stamp[h][2])

\* The first frame to h that has no follow-up yet.
IsPending(h) == Pending(Arriving(h), pc[h])
PendingFrame(h) == PendingId(Arriving(h), stamp[h][2])

\* It is the one whose follow-up the other host is about to send.
AsSent(h) ==
  IsPending(h) =>
    /\ pc[Other(h)] = "stamp0" => PendingFrame(h) = Current(Other(h))
    /\ pc[Other(h)] = "send1" =>
         /\ PendingFrame(h)[1] = Other(h)
         /\ PendingFrame(h)[3] = Answered(Other(h))
         /\ stamp[Other(h)] \in {Zero, <<Other(h), PendingFrame(h)>>}
    /\ h = Snd /\ ~NoKill => pc[Lst] \in {"stamp0", "send1"}

\* A listener that answers has the times of what it answers.
Answering ==
  pc[Lst] \in {"send0", "stamp0", "send1"} =>
    /\ frame[Lst].ts[2] = <<Lst, Answered(Lst)>>
    /\ frame[Lst].ts[1] \in {Zero, <<Snd, Answered(Lst)>>}

\* The times are those of one exchange, and the arrival of the frame is there.
Whole(h, ts) == TimesOfOneExchange(h, ts) /\ ts[2] = <<ts[4][2][1], ts[4][2][3]>>

\* What the programs hold and have reported.
Local ==
  /\ pc[Snd] = "send0" => frame[Snd].ts = ZeroTimes
  /\ \A h \in Hosts : pc[h] = "recv1" => stamp[h] = <<h, stamp[h][2]>>
  /\ pc[Snd] = "report" => Whole(Snd, frame[Snd].ts)
  /\ report[Snd] # << >> => TimesOfOneExchange(Snd, report[Snd])

\* What remains of frames that follow one another still does.
LEMMA ChainRest ==
  ASSUME NEW h, NEW a, IsSeq(a), NEW b, IsSeq(b), Suffix(b, a),
         NEW p, NEW i, Chain(h, a, p, i), NEW q, q # "recv1", NEW j
  PROVE  /\ Chain(h, b, q, j)
         /\ Pending(b, q) => Pending(a, p) /\ PendingId(b, j) = PendingId(a, i)
<1>1. PICK n \in Nat : Len(b) = Len(a) - n /\ \A k \in 1..Len(b) : b[k] = a[n + k]
  BY DEF Suffix
<1> QED BY <1>1, ChainSuffix

\* The frames under way are a sequence after a step.
LEMMA ArrivingSeqNext ==
  ASSUME Pair, Shape', NEW h \in Hosts
  PROVE  IsSeq(Arriving(h)')
<1>1. IsSeq(rq'[h]) /\ IsSeq(nic'[Other(h)]) /\ Other(h)' = Other(h)
  BY PairFacts DEF Shape, Other
<1>2. IsSeq(rq'[h] \o nic'[Other(h)])
  BY <1>1, CatFacts
<1> QED BY <1>1, <1>2 DEF Arriving

\* A host's own step keeps the pairs on the way to it, and the frame that has
\* no follow-up yet.
LEMMA OwnChain ==
  ASSUME Pair, Shape, Shape', NEW g \in Hosts, Act(g), ~Intrude(g), Paired(g)
  PROVE  /\ Paired(g)'
         /\ IsPending(g)' => IsPending(g) /\ PendingFrame(g)' = PendingFrame(g)
<1>1. PICK a, b, p, q, i, j :
        /\ a = Arriving(g) /\ b = Arriving(g)' /\ p = pc[g] /\ q = pc'[g]
        /\ i = stamp[g][2] /\ j = stamp'[g][2]
  OBVIOUS
<1>2. IsSeq(a) /\ IsSeq(b) /\ Chain(g, a, p, i)
  BY <1>1, ArrivingSeq, ArrivingSeqNext DEF Paired
<1> SUFFICES /\ Chain(g, b, q, j)
             /\ Pending(b, q) => Pending(a, p) /\ PendingId(b, j) = PendingId(a, i)
  BY <1>1 DEF Paired, IsPending, PendingFrame
<1>3. CASE Suffix(b, a) /\ q # "recv1"
  BY <1>2, <1>3, ChainRest
<1>4. CASE b = a /\ q = p /\ j = i
  BY <1>2, <1>4
<1>5. CASE Idle(g)
  <2>1. b = a
    BY <1>1, <1>5, OwnArriving
  <2>2. CASE StartFails(g)
    BY <1>1, <1>4, <2>1, <2>2 DEF StartFails, program
  <2>3. CASE ~StartFails(g)
    <3>1. q # "recv1"
      BY <1>1, <1>5, <2>3, StartFacts, Send0FailsFacts, Stamp0Facts, Stamp0TimeoutFacts,
         Stamp1Facts DEF Idle
    <3>2. Suffix(b, a)
      BY <1>2, <2>1, SuffixSame
    <3> QED BY <1>3, <3>1, <3>2
  <2> QED BY <2>2, <2>3
<1>6. CASE Send0(g) \/ Send1(g)
  <2>1. b = a
    BY <1>1, <1>6, OwnArriving
  <2>2. q # "recv1"
    BY <1>1, <1>6, Send0Facts, Send1Facts
  <2> QED BY <1>2, <1>3, <2>1, <2>2, SuffixSame
<1>7. CASE Depart(g)
  <2>1. b = a
    BY <1>1, <1>7, OwnArriving
  <2>2. pc'[g] = pc[g] /\ stamp'[g] = stamp[g]
    BY <1>7, PairFacts, DepartFacts
  <2> QED BY <1>1, <1>4, <2>1, <2>2
<1>8. CASE Kill(g) \/ Report(g)
  <2>1. Suffix(b, a)
    BY <1>1, <1>8, OwnArriving
  <2>2. q = "off"
    BY <1>1, <1>8, KillFacts, ReportFacts
  <2> QED BY <1>3, <2>1, <2>2
<1>9. CASE Recv0(g)
  <2>1. b = Tail(a) /\ a # << >> /\ a[1] = Head(rq[g])
    BY <1>1, <1>9, OwnArriving
  <2>2. /\ p = "recv0" /\ stamp'[g] = <<g, Head(rq[g]).id>>
        /\ q = IF Head(rq[g]).phase = 0 THEN "recv1" ELSE "recv0"
    BY <1>1, <1>9, Recv0Facts
  <2>3. /\ p # "recv1" /\ j = a[1].id
        /\ q = "recv1" <=> a[1].phase = 0
    BY <1>1, <2>1, <2>2
  <2>4. FirstTaken(a, b, j, q)
    BY <2>1, <2>3 DEF FirstTaken
  <2> QED BY <1>2, <2>3, <2>4, ChainFirst
<1>10. CASE Recv1(g)
  <2>1. b = Tail(a) /\ a # << >>
    BY <1>1, <1>10, OwnArriving
  <2>2. q # "recv1"
    BY <1>1, <1>10, Recv1Facts
  <2> QED BY <1>2, <1>3, <2>1, <2>2, SuffixTail
<1> QED BY <1>5, <1>6, <1>7, <1>8, <1>9, <1>10, Act(g), ~Intrude(g) DEF Act, Step, Idle

\* A step of host g keeps what the other host knows of the frame without a
\* follow-up.
LEMMA OwnSent ==
  ASSUME Pair, Shape, Shape', NEW g \in Hosts, Act(g), ~Intrude(g), Paired(g), AsSent(g)
  PROVE  AsSent(g)'
<1>1. PICK o \in Hosts : o = Other(g) /\ o # g
  BY PairFacts
<1>2. Other(g)' = o /\ Snd' = Snd /\ Lst' = Lst
  BY <1>1 DEF Other, Snd, Lst
<1>3. Same(o) /\ faults' = faults
  BY <1>1, OthersKept
<1>4. Current(o)' = Current(o) /\ Answered(o)' = Answered(o) /\ NoKill' = NoKill
  BY <1>3 DEF Same, Current, Answered, NoKill
<1>5. ASSUME IsPending(g)'
      PROVE  /\ pc'[o] = "stamp0" => PendingFrame(g)' = Current(o)'
             /\ pc'[o] = "send1" =>
                  /\ PendingFrame(g)'[1] = o
                  /\ PendingFrame(g)'[3] = Answered(o)'
                  /\ stamp'[o] \in {Zero, <<o, PendingFrame(g)'>>}
             /\ g = Snd /\ ~NoKill' => pc'[Lst] \in {"stamp0", "send1"}
  <2>1. IsPending(g) /\ PendingFrame(g)' = PendingFrame(g)
    BY <1>5, OwnChain
  <2>2. pc'[o] = pc[o] /\ stamp'[o] = stamp[o] /\ (g = Snd => o = Lst)
    BY <1>1, <1>3, PairFacts DEF Same
  <2> QED BY <1>1, <1>4, <2>1, <2>2 DEF AsSent
<1> QED BY <1>2, <1>5 DEF AsSent

\* What may go wrong: a stamp lost, and one thing more.
Known ==
  \E fault \in {"kill", "stop", "frameLost", "sendFails"} : faults \subseteq {"stampLost", fault}

\* The faults that are excluded, and those that exclude a killed sender.
LEMMA KnownFacts ==
  ASSUME Known
  PROVE  /\ "stampLate" \notin faults /\ "foreign" \notin faults
         /\ "sendFails" \in faults => NoKill
         /\ "frameLost" \in faults => NoKill
BY DEF Known, NoKill

\* The sender sends a first frame without times, the listener while nothing
\* waits for a follow-up at the sender.
LEMMA FirstFrameFits ==
  ASSUME Pair, Shape, NEW g \in Hosts, NEW q \in Hosts, q = Other(g), pc[g] = "send0",
         AsSent(q), OnePair, Local, IsPending(q)
  PROVE  Follows(q, PendingFrame(q), FrameOf(g, 0, frame[g].ts))
<1>1. CASE g = Snd
  <2>1. q = Lst /\ frame[g].ts = ZeroTimes
    BY <1>1, PairFacts DEF Local
  <2>2. FrameOf(g, 0, frame[g].ts).ts[1] = Zero
    BY <2>1 DEF FrameOf, ZeroTimes
  <2> QED BY <2>1, <2>2 DEF Follows
<1>2. CASE g = Lst
  <2>1. q = Snd /\ Snd # Lst /\ Other(Snd) = Lst
    BY <1>2, PairFacts
  <2>2. CASE ~NoKill
    <3>1. pc[Lst] \in {"stamp0", "send1"}
      BY <2>1, <2>2 DEF AsSent
    <3> QED BY <1>2, <3>1
  <2>3. CASE NoKill
    <3>1. InStep(pc[Snd], pc[Lst], Due(pc[Lst], Len(Arriving(Lst))),
                 Due(pc[Snd], Len(Arriving(Snd))))
      BY <2>3 DEF OnePair
    <3>2. Due(pc[Snd], Len(Arriving(Snd))) = 0
      BY <1>2, <3>1 DEF InStep
    <3>3. IsSeq(Arriving(Snd)) /\ Len(Arriving(Snd)) \in Nat
      BY <2>1, ArrivingSeq
    <3>4. Len(Arriving(Snd)) = 0 /\ pc[Snd] # "recv1"
      BY <3>2, <3>3 DEF Due
    <3>5. Arriving(Snd) = << >>
      BY <3>3, <3>4, EmptyFacts
    <3> QED BY <2>1, <3>4, <3>5 DEF IsPending, Pending
  <2> QED BY <2>2, <2>3
<1> QED BY <1>1, <1>2, PairFacts

\* The follow-up carries the time of the frame it follows.
LEMMA FollowupFits ==
  ASSUME Pair, Shape, NEW g \in Hosts, NEW q \in Hosts, q = Other(g), pc[g] = "send1",
         AsSent(q), Mail(g), Answering, IsPending(q)
  PROVE  Follows(q, PendingFrame(q), FrameOf(g, 1, FollowTimes(g)))
<1>1. PICK i, m : i = PendingFrame(q) /\ m = FrameOf(g, 1, FollowTimes(g))
  OBVIOUS
<1>2. Other(q) = g
  BY PairFacts
<1>3. i[1] = g /\ i[3] = Answered(g) /\ stamp[g] \in {Zero, <<g, i>>}
  BY <1>1, <1>2 DEF AsSent
<1>4. m.ts = FollowTimes(g)
  BY <1>1 DEF FrameOf
<1>5. DOMAIN frame[g].ts = 1..4
  BY DEF Mail
<1>6. CASE g = Snd
  <2>1. q = Lst /\ Snd # Lst /\ g \notin Listeners
    BY <1>6, PairFacts
  <2>2. m.ts[1] = stamp[g]
    BY <1>4, <1>5, <2>1 DEF FollowTimes, TxAt
  <2> QED BY <1>1, <1>3, <1>6, <2>1, <2>2 DEF Follows
<1>7. CASE g = Lst
  <2>1. q = Snd /\ Snd # Lst /\ g \in Listeners
    BY <1>7, PairFacts
  <2>2. m.ts[3] = stamp[g] /\ m.ts[1] = frame[g].ts[1] /\ m.ts[2] = frame[g].ts[2]
    BY <1>4, <1>5, <2>1 DEF FollowTimes, TxAt
  <2>3. frame[g].ts[2] = <<g, i[3]>> /\ frame[g].ts[1] \in {Zero, <<Snd, i[3]>>}
    BY <1>3, <1>7 DEF Answering
  <2> QED BY <1>1, <1>3, <2>1, <2>2, <2>3 DEF Follows
<1> QED BY <1>6, <1>7, PairFacts

\* The frames to host q after a step of the other host.
LEMMA PeerChain ==
  ASSUME Pair, Shape, Shape', NEW g \in Hosts, Act(g), ~Intrude(g), Known,
         NEW q \in Hosts, q = Other(g),
         Paired(q), AsSent(q), OnePair, Mail(g), Answering, Local
  PROVE  Paired(q)' /\ AsSent(q)'
<1>1. PICK a, b, p, i :
        a = Arriving(q) /\ b = Arriving(q)' /\ p = pc[q] /\ i = stamp[q][2]
  OBVIOUS
<1>2. /\ q # g /\ Other(q) = g /\ Other(q)' = g /\ Snd' = Snd /\ Lst' = Lst
      /\ pc'[q] = p /\ stamp'[q][2] = i /\ NoKill' = NoKill
      /\ q = Snd => g = Lst
  BY <1>1, PairFacts, OthersKept DEF Same, Other, Snd, Lst, NoKill
<1>3. IsSeq(a) /\ IsSeq(b) /\ Chain(q, a, p, i)
  BY <1>1, ArrivingSeq, ArrivingSeqNext DEF Paired
<1>4. ASSUME Pending(a, p)
      PROVE  /\ pc[g] = "stamp0" => PendingId(a, i) = Current(g)
             /\ pc[g] = "send1" =>
                  /\ PendingId(a, i)[1] = g /\ PendingId(a, i)[3] = Answered(g)
                  /\ stamp[g] \in {Zero, <<g, PendingId(a, i)>>}
             /\ q = Snd /\ ~NoKill => pc[Lst] \in {"stamp0", "send1"}
  BY <1>1, <1>2, <1>4 DEF AsSent, IsPending, PendingFrame
<1> SUFFICES /\ Chain(q, b, p, i)
             /\ Pending(b, p) =>
                  /\ pc'[g] = "stamp0" => PendingId(b, i) = Current(g)'
                  /\ pc'[g] = "send1" =>
                       /\ PendingId(b, i)[1] = g /\ PendingId(b, i)[3] = Answered(g)'
                       /\ stamp'[g] \in {Zero, <<g, PendingId(b, i)>>}
                  /\ q = Snd /\ ~NoKill => pc'[Lst] \in {"stamp0", "send1"}
  BY <1>1, <1>2 DEF Paired, AsSent, IsPending, PendingFrame
<1>5. CASE Send0(g)
  <2>1. PICK m : m = FrameOf(g, 0, frame[g].ts)
    OBVIOUS
  <2>2. /\ b = Append(a, m)
    BY <1>1, <1>5, <2>1, PeerArriving
  <2>3. /\ pc[g] = "send0" /\ pc'[g] = "stamp0" /\ sent'[g] = sent[g] + 1
        /\ frame'[g].ts = frame[g].ts
    BY <1>5, Send0Facts
  <2>4. Pending(a, p) => Follows(q, PendingId(a, i), m)
    BY <1>1, <2>1, <2>3, FirstFrameFits DEF IsPending, PendingFrame
  <2>5. Chain(q, b, p, i) /\ PendingId(b, i) = m.id
    BY <1>3, <2>2, <2>4, ChainAppend
  <2>6. m.id = Current(g)'
    BY <2>1, <2>3 DEF FrameOf, Current, Answered
  <2> QED BY <1>2, <2>3, <2>5, <2>6
<1>6. CASE Send1(g)
  <2>1. /\ pc[g] = "send1" /\ pc'[g] \in {"stamp1", "recv0"}
    BY <1>6, Send1Facts
  <2>2. CASE b = Append(a, FrameOf(g, 1, FollowTimes(g)))
    <3>1. PICK m : m = FrameOf(g, 1, FollowTimes(g))
      OBVIOUS
    <3>2. Pending(a, p) => Follows(q, PendingId(a, i), m)
      BY <1>1, <2>1, <3>1, FollowupFits DEF IsPending, PendingFrame
    <3>3. m.phase # 0
      BY <3>1 DEF FrameOf
    <3>4. b = Append(a, m)
      BY <2>2, <3>1
    <3>5. Chain(q, b, p, i) /\ (Pending(b, p) => m.phase = 0)
      BY <1>3, <3>2, <3>4, ChainAppend
    <3> QED BY <3>3, <3>5
  <2>3. CASE b = a /\ "sendFails" \in faults
    <3>1. NoKill
      BY <2>3, KnownFacts
    <3> QED BY <1>3, <2>1, <2>3, <3>1
  <2> QED BY <1>1, <1>6, <2>2, <2>3, PeerArriving
<1>7. CASE Depart(g)
  <2>1. /\ pc'[g] = pc[g] /\ stamp'[g] = stamp[g] /\ Current(g)' = Current(g)
        /\ Answered(g)' = Answered(g)
    <3>1. /\ pc'[g] = pc[g] /\ stamp'[g] = stamp[g]
          /\ sent'[g] = sent[g] /\ frame'[g] = frame[g]
      BY <1>2, <1>7, DepartFacts
    <3> QED BY <3>1 DEF Current, Answered
  <2>2. q = Snd => pc'[Lst] = pc[Lst]
    BY <1>2, <2>1
  <2>3. CASE b = a
    BY <1>3, <1>4, <2>1, <2>2, <2>3
  <2>4. CASE p = "off" /\ a # << >> /\ b = Tail(a)
    <3>1. Suffix(b, a)
      BY <1>3, <2>4, SuffixTail
    <3>2. /\ Chain(q, b, p, i)
          /\ Pending(b, p) => Pending(a, p) /\ PendingId(b, i) = PendingId(a, i)
      BY <1>3, <2>4, <3>1, ChainRest
    <3> QED BY <1>4, <2>1, <2>2, <3>2
  <2>5. CASE /\ "frameLost" \in faults /\ p # "off"
             /\ Len(a) \in Nat \ {0} /\ Len(b) = Len(a) - 1
    <3>1. NoKill
      BY <2>5, KnownFacts
    <3>2. InStep(pc[Snd], pc[Lst], Due(pc[Lst], Len(Arriving(Lst))),
                 Due(pc[Snd], Len(Arriving(Snd))))
      BY <3>1 DEF OnePair
    <3>3. Due(p, Len(a)) <= 2 /\ (Due(p, Len(a)) = 2 => pc[g] \notin {"stamp0", "send1"})
      <4>1. CASE q = Lst
        <5>1. g = Snd
          BY <1>2, <4>1, PairFacts
        <5>2. InStep(pc[g], p, Due(p, Len(a)), Due(pc[g], Len(Arriving(g))))
          BY <1>1, <3>2, <4>1, <5>1
        <5>3. Due(p, Len(a)) \in Nat
          BY <2>5 DEF Due
        <5> QED BY <5>2, <5>3 DEF InStep
      <4>2. CASE q = Snd
        <5>1. g = Lst
          BY <1>2, <4>2
        <5>2. InStep(p, pc[g], Due(pc[g], Len(Arriving(g))), Due(p, Len(a)))
          BY <1>1, <3>2, <4>2, <5>1
        <5>3. Due(p, Len(a)) \in Nat
          BY <2>5 DEF Due
        <5> QED BY <5>2, <5>3 DEF InStep
      <4> QED BY <4>1, <4>2, PairFacts
    <3>4. Len(b) <= 1 /\ (p = "recv1" => Len(b) = 0)
      BY <2>5, <3>3 DEF Due
    <3>5. Chain(q, b, p, i)
      BY <1>3, <3>4, ChainShort
    <3>6. ASSUME Pending(b, p) PROVE pc[g] \notin {"stamp0", "send1"}
      <4>1. Len(b) = 0 => p = "recv1"
        BY <1>3, <3>6, EmptyFacts DEF Pending
      <4>2. Due(p, Len(a)) = 2
        BY <2>5, <3>3, <3>4, <4>1 DEF Due
      <4> QED BY <3>3, <4>2
    <3> QED BY <2>1, <3>1, <3>5, <3>6
  <2> QED BY <1>1, <1>7, <2>3, <2>4, <2>5, PeerArriving
<1>8. CASE Idle(g) \/ Kill(g) \/ Report(g) \/ Recv0(g) \/ Recv1(g)
  <2>1. b = a
    BY <1>1, <1>8, PeerArriving
  <2>2. Pending(a, p) /\ q = Snd /\ ~NoKill => pc[g] \in {"stamp0", "send1"}
    BY <1>2, <1>4
  <2> SUFFICES ASSUME Pending(a, p)
               PROVE  /\ pc'[g] = "stamp0" => PendingId(a, i) = Current(g)'
                      /\ pc'[g] = "send1" =>
                           /\ PendingId(a, i)[1] = g /\ PendingId(a, i)[3] = Answered(g)'
                           /\ stamp'[g] \in {Zero, <<g, PendingId(a, i)>>}
                      /\ q = Snd /\ ~NoKill => pc'[g] \in {"stamp0", "send1"}
    BY <1>2, <1>3, <2>1
  <2>3. CASE StartFails(g)
    <3>1. UNCHANGED <<pc, stamp, sent, frame>>
      BY <2>3 DEF StartFails, program, network
    <3> QED BY <1>2, <1>4, <3>1 DEF Current, Answered
  <2>4. CASE Start(g)
    <3>1. pc[g] = "off" /\ pc'[g] \notin {"stamp0", "send1"}
      BY <2>4, StartFacts
    <3> QED BY <2>2, <3>1
  <2>5. CASE Send0Fails(g)
    <3>1. pc[g] = "send0" /\ "sendFails" \in faults
      BY <2>5, Send0FailsFacts
    <3>2. NoKill
      BY <3>1, KnownFacts
    <3>3. ~Pending(a, p)
      <4>1. InStep(pc[Snd], pc[Lst], Due(pc[Lst], Len(Arriving(Lst))),
                   Due(pc[Snd], Len(Arriving(Snd))))
        BY <3>2 DEF OnePair
      <4>2. Len(a) \in Nat
        BY <1>3, EmptyFacts
      <4>3. Due(p, Len(a)) = 0
        <5>1. CASE q = Lst
          BY <1>1, <1>2, <3>1, <4>1, <5>1, PairFacts DEF InStep
        <5>2. CASE q = Snd
          BY <1>1, <1>2, <3>1, <4>1, <5>2, PairFacts DEF InStep
        <5> QED BY <5>1, <5>2, PairFacts
      <4>4. Len(a) = 0 /\ p # "recv1"
        BY <4>2, <4>3 DEF Due
      <4>5. a = << >>
        BY <1>3, <4>4, EmptyFacts
      <4> QED BY <4>4, <4>5 DEF Pending
    <3> QED BY <3>3
  <2>6. CASE Stamp0(g) \/ Stamp0Timeout(g)
    <3>1. /\ pc[g] = "stamp0" /\ pc'[g] = "send1" /\ sent'[g] = sent[g]
          /\ frame'[g] = frame[g]
          /\ stamp'[g] = Zero \/ (eq[g] # << >> /\ stamp'[g] = Head(eq[g]))
      BY <2>6, Stamp0Facts, Stamp0TimeoutFacts
    <3>2. PendingId(a, i) = <<g, sent[g], Answered(g)>>
      BY <1>4, <3>1 DEF Current
    <3>3. stamp'[g] \in {Zero, <<g, PendingId(a, i)>>}
      <4>1. CASE stamp'[g] = Zero
        BY <4>1
      <4>2. CASE eq[g] # << >> /\ stamp'[g] = Head(eq[g])
        <5>1. IsSeq(eq[g]) /\ Stamps(g, pc[g], nic[g], run[g], eq[g], Current(g))
          BY DEF Shape, Mail
        <5>2. Head(eq[g]) = <<g, Current(g)>>
          <6>1. Head(eq[g]) = eq[g][1] /\ 1 \in 1..Len(eq[g])
            BY <4>2, <5>1, TailFacts
          <6> QED BY <3>1, <5>1, <6>1 DEF Stamps
        <5> QED BY <1>4, <3>1, <4>2, <5>2
      <4> QED BY <3>1, <4>1, <4>2
    <3>4. Answered(g)' = Answered(g)
      BY <3>1 DEF Answered
    <3> QED BY <3>1, <3>2, <3>3, <3>4
  <2>7. CASE Stamp1(g)
    <3>1. pc[g] = "stamp1" /\ pc'[g] = "recv0"
      BY <2>7, Stamp1Facts
    <3> QED BY <2>2, <3>1
  <2>8. CASE Kill(g)
    <3>1. pc'[g] = "off" /\ (IF g \in Senders THEN "kill" ELSE "stop") \in faults
      BY <2>8, KillFacts
    <3>2. q = Snd => NoKill
      BY <1>2, <3>1, PairFacts DEF Known, NoKill
    <3> QED BY <3>1, <3>2
  <2>9. CASE Report(g)
    <3>1. pc[g] = "report" /\ pc'[g] = "off"
      BY <2>9, ReportFacts
    <3> QED BY <2>2, <3>1
  <2>10. CASE Recv0(g) \/ Recv1(g)
    <3>1. pc[g] \in {"recv0", "recv1"} /\ pc'[g] \in {"recv0", "recv1", "send0", "report"}
      BY <2>10, Recv0Facts, Recv1Facts
    <3> QED BY <2>2, <3>1
  <2> QED BY <1>8, <2>3, <2>4, <2>5, <2>6, <2>7, <2>8, <2>9, <2>10 DEF Idle
<1> QED BY <1>5, <1>6, <1>7, <1>8, Act(g), ~Intrude(g) DEF Act, Step, Idle

-----------------------------------------------------------------------------
(* What the programs hold                                                  *)

\* The frame that is taken for the follow-up is the follow-up.
LEMMA FollowupTaken ==
  ASSUME Pair, Shape, NEW g \in Hosts, Act(g), ~Intrude(g), Recv1(g),
         Paired(g), Mail(g), Local
  PROVE  \E i, m :
           /\ stamp[g] = <<g, i>> /\ Follows(g, i, m) /\ DOMAIN m.ts = 1..4
           /\ frame'[g].ts = [m.ts EXCEPT ![RxAt(g)] = stamp[g]]
<1>1. PICK i, m : i = stamp[g][2] /\ m = Head(rq[g])
  OBVIOUS
<1>2. pc[g] = "recv1" /\ rq[g] # << >> /\ frame'[g] = Followup(g, m)
  BY <1>1, Recv1Facts
<1>3. stamp[g] = <<g, i>>
  BY <1>1, <1>2 DEF Local
<1>4. Arriving(g) # << >> /\ Arriving(g)[1] = m
  BY <1>1, OwnArriving
<1>5. Follows(g, i, m)
  BY <1>1, <1>2, <1>4 DEF Paired, Chain
<1>6. DOMAIN m.ts = 1..4
  <2>1. IsSeq(rq[g]) /\ Timed(rq[g])
    BY DEF Shape, Mail
  <2> QED BY <1>1, <1>2, <2>1, TimedTail
<1>7. frame'[g].ts = [m.ts EXCEPT ![RxAt(g)] = stamp[g]]
  BY <1>2 DEF Followup
<1> QED BY <1>3, <1>5, <1>6, <1>7

\* A listener that answers keeps the times of what it answers.
LEMMA AnsweringStep ==
  ASSUME Pair, Shape, NEW g \in Hosts, Act(g), ~Intrude(g),
         Paired(g), Mail(g), Local, Answering
  PROVE  Answering'
<1>0. Snd' = Snd /\ Lst' = Lst /\ Snd # Lst /\ Lst \in Hosts /\ Lst \in Listeners
  BY PairFacts DEF Snd, Lst
<1> SUFFICES ASSUME pc'[Lst] \in {"send0", "stamp0", "send1"}
             PROVE  /\ frame'[Lst].ts[2] = <<Lst, frame'[Lst].ts[2][2]>>
                    /\ frame'[Lst].ts[1] \in {Zero, <<Snd, frame'[Lst].ts[2][2]>>}
  BY <1>0 DEF Answering, Answered
<1>1. ASSUME frame'[Lst].ts = frame[Lst].ts, pc[Lst] \in {"send0", "stamp0", "send1"}
      PROVE  /\ frame'[Lst].ts[2] = <<Lst, frame'[Lst].ts[2][2]>>
             /\ frame'[Lst].ts[1] \in {Zero, <<Snd, frame'[Lst].ts[2][2]>>}
  BY <1>0, <1>1 DEF Answering, Answered
<1>2. CASE g # Lst
  BY <1>0, <1>1, <1>2, OthersKept DEF Same
<1>3. CASE g = Lst
  <2>1. CASE Recv1(Lst)
    <3>1. PICK i, m :
            /\ stamp[Lst] = <<Lst, i>> /\ Follows(Lst, i, m) /\ DOMAIN m.ts = 1..4
            /\ frame'[Lst].ts = [m.ts EXCEPT ![RxAt(Lst)] = stamp[Lst]]
      BY <1>3, <2>1, FollowupTaken
    <3>2. frame'[Lst].ts[2] = <<Lst, i>> /\ frame'[Lst].ts[1] = m.ts[1]
      BY <1>0, <3>1 DEF RxAt
    <3>3. m.ts[1] \in {Zero, <<Snd, i>>}
      BY <3>1 DEF Follows
    <3>4. frame'[Lst].ts[2][2] = i
      BY <3>2
    <3> QED BY <3>2, <3>3, <3>4
  <2>2. CASE Send0(Lst)
    BY <1>0, <1>1, <2>2, Send0Facts
  <2>3. CASE Send0Fails(Lst)
    BY <1>0, <1>1, <2>3, Send0FailsFacts
  <2>4. CASE Stamp0(Lst)
    BY <1>0, <1>1, <2>4, Stamp0Facts
  <2>5. CASE Stamp0Timeout(Lst)
    BY <1>0, <1>1, <2>5, Stamp0TimeoutFacts
  <2>6. CASE Depart(Lst)
    BY <1>0, <1>1, <1>3, <2>6, PairFacts, DepartFacts
  <2>7. CASE StartFails(Lst)
    BY <1>0, <1>1, <2>7 DEF StartFails, program
  <2>8. CASE Start(Lst) \/ Kill(Lst) \/ Report(Lst) \/ Stamp1(Lst) \/ Recv0(Lst) \/ Send1(Lst)
    <3>1. pc'[Lst] \in {"off", "recv0", "recv1", "stamp1"}
      BY <1>0, <2>8, StartFacts, KillFacts, ReportFacts, Stamp1Facts, Recv0Facts, Send1Facts
    <3> QED BY <3>1
  <2> QED BY <1>3, <2>1, <2>2, <2>3, <2>4, <2>5, <2>6, <2>7, <2>8, Act(g), ~Intrude(g)
          DEF Act, Step
<1> QED BY <1>2, <1>3

\* The conditions of Local that are about host h.
LocalOf(h) ==
  /\ h = Snd /\ pc[h] = "send0" => frame[h].ts = ZeroTimes
  /\ pc[h] = "recv1" => stamp[h] = <<h, stamp[h][2]>>
  /\ h = Snd /\ pc[h] = "report" => Whole(h, frame[h].ts)
  /\ h = Snd /\ report[h] # << >> => TimesOfOneExchange(h, report[h])

\* Local, host by host.
LEMMA LocalParts == ASSUME Pair PROVE Local <=> \A h \in Hosts : LocalOf(h)
BY PairFacts DEF Local, LocalOf

\* A host that nothing changes keeps its part of it.
LEMMA LocalKept ==
  ASSUME NEW h, LocalOf(h), pc'[h] = pc[h], frame'[h] = frame[h], stamp'[h] = stamp[h],
         report'[h] = report[h]
  PROVE  LocalOf(h)'
BY DEF LocalOf, Whole, TimesOfOneExchange, Snd

\* Every step keeps what the programs hold and have reported.
LEMMA LocalStep ==
  ASSUME Pair, Shape, NEW g \in Hosts, Act(g), ~Intrude(g), Paired(g), Mail(g), Local
  PROVE  Local'
<1> SUFFICES ASSUME NEW h \in Hosts PROVE LocalOf(h)'
  BY PairFacts DEF Local, LocalOf, Snd
<1>0. LocalOf(h) /\ Snd' = Snd
  BY LocalParts DEF Snd
<1>1. CASE h # g
  BY <1>0, <1>1, OthersKept, LocalKept DEF Same
<1>2. CASE h = g
  <2>1. CASE StartFails(g) \/ Depart(g)
    <3>1. /\ pc'[g] = pc[g] /\ frame'[g] = frame[g] /\ stamp'[g] = stamp[g]
          /\ report'[g] = report[g]
      <4>1. CASE StartFails(g)
        BY <4>1 DEF StartFails, program
      <4>2. CASE Depart(g)
        <5>1. Other(g) \in Hosts /\ Other(g) # g
          BY PairFacts
        <5> QED BY <4>2, <5>1, DepartFacts
      <4> QED BY <2>1, <4>1, <4>2
    <3> QED BY <1>0, <1>2, <3>1, LocalKept
  <2>2. CASE Start(g)
    <3>1. pc'[g] \in {"recv0", "send0"} /\ frame'[g].ts = ZeroTimes /\ report'[g] = << >>
      BY <2>2, StartFacts
    <3> QED BY <1>0, <1>2, <3>1 DEF LocalOf
  <2>3. CASE Recv0(g)
    <3>1. /\ pc'[g] \in {"recv0", "recv1"} /\ report'[g] = report[g]
          /\ stamp'[g] = <<g, Head(rq[g]).id>>
      BY <2>3, Recv0Facts
    <3>2. stamp'[g] = <<g, stamp'[g][2]>>
      BY <3>1
    <3> QED BY <1>0, <1>2, <3>1, <3>2 DEF LocalOf, TimesOfOneExchange
  <2>4. CASE Recv1(g)
    <3>1. pc'[g] = (IF g \in Listeners THEN "send0" ELSE "report") /\ report'[g] = report[g]
      BY <2>4, Recv1Facts
    <3>2. CASE g = Snd
      <4>1. PICK i, m :
              /\ stamp[g] = <<g, i>> /\ Follows(g, i, m) /\ DOMAIN m.ts = 1..4
              /\ frame'[g].ts = [m.ts EXCEPT ![RxAt(g)] = stamp[g]]
        BY <2>4, FollowupTaken
      <4>2. g \notin Listeners /\ Snd # Lst
        BY <3>2, PairFacts
      <4>3. PICK ts : ts = frame'[g].ts
        OBVIOUS
      <4>4. ts[4] = <<g, i>> /\ ts[1] = m.ts[1] /\ ts[2] = m.ts[2] /\ ts[3] = m.ts[3]
        BY <4>1, <4>2, <4>3 DEF RxAt
      <4>5. ts[4][2] = i
        BY <4>4
      <4>6. /\ m.ts[1] \in {Zero, <<g, i[3]>>} /\ m.ts[2] = <<i[1], i[3]>>
            /\ m.ts[3] \in {Zero, <<i[1], i>>}
        BY <3>2, <4>1, <4>2 DEF Follows
      <4>7. Whole(g, ts)
        BY <4>4, <4>5, <4>6 DEF Whole, TimesOfOneExchange
      <4> QED BY <1>0, <1>2, <3>1, <4>2, <4>3, <4>7 DEF LocalOf
    <3>3. CASE g # Snd
      <4>1. pc'[g] = "send0"
        BY <3>1, <3>3, PairFacts
      <4> QED BY <1>0, <1>2, <3>3, <4>1 DEF LocalOf
    <3> QED BY <3>2, <3>3
  <2>5. CASE Report(g)
    <3>1. pc[g] = "report" /\ pc'[g] = "off" /\ report'[g] = frame[g].ts
      BY <2>5, ReportFacts
    <3>2. g = Snd => TimesOfOneExchange(g, report'[g])
      BY <1>0, <1>2, <3>1 DEF LocalOf, Whole
    <3> QED BY <1>0, <1>2, <3>1, <3>2 DEF LocalOf
  <2>6. CASE \/ Kill(g) \/ Send0(g) \/ Send0Fails(g) \/ Stamp0(g) \/ Stamp0Timeout(g)
             \/ Send1(g) \/ Stamp1(g)
    <3>1. /\ pc'[g] \in {"off", "stamp0", "send1", "stamp1", "recv0"}
          /\ report'[g] = report[g]
      BY <2>6, KillFacts, Send0Facts, Send0FailsFacts, Stamp0Facts, Stamp0TimeoutFacts,
         Send1Facts, Stamp1Facts
    <3> QED BY <1>0, <1>2, <3>1 DEF LocalOf
  <2> QED BY <2>1, <2>2, <2>3, <2>4, <2>5, <2>6, Act(g), ~Intrude(g) DEF Act, Step
<1> QED BY <1>1, <1>2

-----------------------------------------------------------------------------
(* The invariant                                                           *)

HostInv(h) == pc[h] \in Places /\ Mail(h) /\ Paired(h) /\ AsSent(h)

FrameInv == Known => (\A h \in Hosts : HostInv(h)) /\ OnePair /\ Answering /\ Local

\* The invariant holds at first.
LEMMA FrameInit == Pair /\ Init => FrameInv
<1> SUFFICES ASSUME Pair, Init
             PROVE  (\A h \in Hosts : HostInv(h)) /\ OnePair /\ Answering /\ Local
  BY DEF FrameInv
<1>1. Snd \in Hosts /\ Lst \in Hosts
  BY PairFacts
<1>2. ASSUME NEW h \in Hosts
      PROVE  /\ pc[h] = "off" /\ frame[h].ts = ZeroTimes /\ report[h] = << >>
             /\ rq[h] = << >> /\ eq[h] = << >> /\ nic[h] = << >> /\ run[h] = 0
             /\ Arriving(h) = << >>
  BY <1>2, PairFacts DEF Init, Arriving, Other
<1>3. ASSUME NEW h \in Hosts PROVE HostInv(h)
  <2>1. Stamps(h, pc[h], nic[h], run[h], eq[h], Current(h))
    BY <1>2, <1>3, NoneFacts DEF Stamps
  <2>2. Mail(h)
    BY <1>2, <1>3, <2>1, TimedNone, ZeroTimesDomain DEF Mail
  <2>3. Paired(h)
    BY <1>2, <1>3, NoneFacts DEF Paired, Chain
  <2>4. AsSent(h)
    BY <1>2, <1>3 DEF AsSent, IsPending, Pending
  <2> QED BY <1>2, <1>3, <2>2, <2>3, <2>4 DEF HostInv, Places
<1>4. OnePair
  BY <1>1, <1>2, NoneFacts DEF OnePair, InStep, Due
<1>5. Answering /\ Local
  BY <1>1, <1>2 DEF Answering, Local
<1> QED BY <1>3, <1>4, <1>5

\* Every step keeps the invariant.
LEMMA FrameStep == Pair /\ Shape /\ Shape' /\ FrameInv /\ [Next]_vars => FrameInv'
<1> SUFFICES ASSUME Pair, Shape, Shape', FrameInv, [Next]_vars, Known'
             PROVE  (\A h \in Hosts : HostInv(h)') /\ OnePair' /\ Answering' /\ Local'
  BY DEF FrameInv
<1>1. CASE UNCHANGED vars
  <2>1. /\ UNCHANGED <<faults, pc, frame, stamp, rq, eq, nic, run, sent, report>>
        /\ Known
    BY <1>1 DEF vars, program, network, history, Known
  <2>2. UNCHANGED <<Snd, Lst>> /\ \A h \in Hosts :
          UNCHANGED <<Other(h), Arriving(h), Current(h), Answered(h)>>
    BY <2>1 DEF Snd, Lst, Other, Arriving, Current, Answered
  <2>3. (\A h \in Hosts : HostInv(h)) /\ OnePair /\ Answering /\ Local
    BY <2>1 DEF FrameInv
  <2>4. \A h \in Hosts : Mail(h)' /\ Paired(h)'
    BY <2>1, <2>2, <2>3 DEF HostInv, Mail, Paired
  <2>5. ASSUME NEW h \in Hosts PROVE AsSent(h)'
    <3>1. Other(h) \in Hosts
      BY PairFacts
    <3>2. UNCHANGED <<Other(h), Current(Other(h)), Answered(Other(h)), Arriving(h)>>
      BY <2>2, <3>1 DEF Other, Current, Answered, Snd, Lst
    <3> QED BY <2>1, <2>2, <2>3, <3>2 DEF HostInv, AsSent, IsPending, PendingFrame, NoKill
  <2>6. OnePair'
    BY <2>1, <2>2, <2>3, PairFacts DEF OnePair, NoKill
  <2>7. Answering'
    BY <2>1, <2>2, <2>3, PairFacts DEF Answering
  <2>8. Local'
    BY <2>1, <2>2, <2>3, PairFacts DEF Local, Whole, TimesOfOneExchange
  <2> QED BY <2>1, <2>3, <2>4, <2>5, <2>6, <2>7, <2>8 DEF HostInv
<1>2. CASE Next
  <2>1. PICK g \in Hosts : Act(g)
    BY <1>2 DEF Next, Act
  <2>2. PICK q \in Hosts : q = Other(g) /\ q # g /\ \A h \in Hosts : h = g \/ h = q
    BY PairFacts
  <2>3. faults' = faults /\ Known
    BY <2>1, <2>2, OthersKept DEF Known
  <2>4. ~Intrude(g)
    BY <2>3, KnownFacts DEF Intrude
  <2>5. HostInv(g) /\ HostInv(q) /\ OnePair /\ Answering /\ Local
    BY <2>3 DEF FrameInv
  <2>6. pc'[g] \in Places /\ pc'[q] \in Places
    BY <2>1, <2>4, <2>5, PlaceStep DEF HostInv
  <2>7. Mail(g)' /\ Mail(q)'
    <3>1. Mail(g)'
      BY <2>1, <2>3, <2>4, <2>5, KnownFacts, MailOfOwn DEF HostInv
    <3>2. Mail(Other(g))'
      BY <2>1, <2>2, <2>5, MailOfOther DEF HostInv
    <3>3. Other(g)' = q
      BY <2>2 DEF Other, Snd, Lst
    <3> QED BY <2>2, <3>1, <3>2
  <2>8. Paired(g)' /\ AsSent(g)'
    BY <2>1, <2>4, <2>5, OwnChain, OwnSent DEF HostInv
  <2>9. Paired(q)' /\ AsSent(q)'
    BY <2>1, <2>2, <2>3, <2>4, <2>5, PeerChain DEF HostInv
  <2>10. OnePair'
    <3>1. pc[Snd] \in Places
      BY <2>2, <2>5, PairFacts DEF HostInv
    <3> QED BY <2>1, <2>4, <2>5, <3>1, OnePairStep
  <2>11. Answering' /\ Local'
    BY <2>1, <2>4, <2>5, AnsweringStep, LocalStep DEF HostInv
  <2>12. HostInv(g)' /\ HostInv(q)'
    BY <2>6, <2>7, <2>8, <2>9 DEF HostInv
  <2> QED BY <2>2, <2>10, <2>11, <2>12
<1> QED BY <1>1, <1>2

(* OneExchange: with one sender and one listener the times of a report are *)
(* of one frame and of the reply to it, whatever one of the four faults    *)
(* does besides lost stamps, for every number of starts and frames.  With  *)
(* two senders it does not hold.                                           *)
THEOREM ExchangeCorrect == Pair => (Spec => []OneExchange)
<1> SUFFICES ASSUME Pair PROVE Spec => []OneExchange
  OBVIOUS
<1>1. Init => Shape /\ FrameInv
  BY ShapeInit, FrameInit
<1>2. Shape /\ FrameInv /\ [Next]_vars => (Shape /\ FrameInv)'
  <2> SUFFICES ASSUME Shape, FrameInv, [Next]_vars PROVE Shape' /\ FrameInv'
    OBVIOUS
  <2>1. Shape'
    BY ShapeStep
  <2> QED BY <2>1, FrameStep
<1>3. Shape /\ FrameInv => OneExchange
  BY PairFacts DEF FrameInv, Known, Local, OneExchange
<1> QED BY <1>1, <1>2, <1>3, PTL DEF Spec

-----------------------------------------------------------------------------
(* A killed sender spoils one exchange                                     *)

KillOnly == faults \subseteq {"stampLost", "kill"}

\* Nothing else goes wrong.
LEMMA KillOnlyFacts ==
  ASSUME KillOnly
  PROVE  /\ Known
         /\ "sendFails" \notin faults /\ "stop" \notin faults /\ "frameLost" \notin faults
         /\ "foreign" \notin faults
BY DEF KillOnly, Known

\* The form of the histories.
Histories ==
  /\ DOMAIN first = Hosts /\ DOMAIN quiet = Hosts
  /\ kills \in Nat /\ spoilt \in Nat

\* The steps that no history remembers.
Calm(g) ==
  \/ StartFails(g) \/ Send0(g) \/ Send0Fails(g) \/ Stamp0(g) \/ Stamp0Timeout(g)
  \/ Send1(g) \/ Stamp1(g) \/ Recv0(g) \/ Recv1(g) \/ Depart(g) \/ Intrude(g)

\* What a step of host g does to the histories.
LEMMA HistoryFacts ==
  ASSUME Histories, NEW g \in Hosts, Act(g)
  PROVE  /\ Histories'
         /\ \/ /\ Start(g) /\ kills' = kills /\ spoilt' = spoilt
               /\ first'[g] = sent[g] + 1 /\ quiet'[g] = AtRest
               /\ \A q \in Hosts : q # g => first'[q] = first[q] /\ quiet'[q] = quiet[q]
            \/ /\ Kill(g) /\ kills' = kills + 1 /\ spoilt' = spoilt
               /\ first' = first /\ quiet' = quiet
            \/ /\ Report(g) /\ kills' = kills /\ first' = first /\ quiet' = quiet
               /\ spoilt' = IF quiet[g] /\ ~OwnExchange(g, frame[g].ts)
                            THEN spoilt + 1 ELSE spoilt
            \/ /\ Calm(g) /\ kills' = kills /\ spoilt' = spoilt
               /\ first' = first /\ quiet' = quiet
<1> USE DEF Histories
<1>1. CASE Start(g)
  <2>1. /\ kills' = kills /\ spoilt' = spoilt
        /\ first' = [first EXCEPT ![g] = sent[g] + 1]
        /\ quiet' = [quiet EXCEPT ![g] = AtRest]
    BY <1>1 DEF Start
  <2> QED BY <1>1, <2>1
<1>2. CASE Kill(g)
  BY <1>2 DEF Kill
<1>3. CASE Report(g)
  BY <1>3 DEF Report
<1>4. CASE Calm(g)
  <2>1. UNCHANGED history
    <3>1. CASE StartFails(g) \/ Send0(g) \/ Send0Fails(g) \/ Stamp0(g) \/ Stamp0Timeout(g)
      BY <3>1 DEF StartFails, Send0, Send0Fails, Stamp0, Stamp0Timeout
    <3>2. CASE Send1(g) \/ Stamp1(g) \/ Recv0(g) \/ Recv1(g)
      BY <3>2 DEF Send1, Stamp1, Recv0, Recv1
    <3>3. CASE Depart(g) \/ Intrude(g)
      BY <3>3 DEF Depart, Intrude
    <3> QED BY <1>4, <3>1, <3>2, <3>3 DEF Calm
  <2> QED BY <1>4, <2>1 DEF history
<1> QED BY <1>1, <1>2, <1>3, <1>4, Act(g) DEF Act, Step, Calm

\* The steps of a host that send nothing.
Sendless(g) == Idle(g) \/ Kill(g) \/ Report(g) \/ Recv0(g) \/ Recv1(g) \/ Depart(g)

\* Where a step without history takes the sender.
LEMMA SenderMoves ==
  ASSUME Pair, Shape, NEW g \in Hosts, Calm(g), KillOnly,
         NEW x, NEW z, x = pc[Snd], z = pc'[Snd]
  PROVE  \/ g = Lst /\ z = x
         \/ /\ g = Snd /\ Sendless(g)
            /\ \/ z = x /\ (x = "send0" => Depart(g))
               \/ x = "stamp0" /\ z = "send1"
               \/ x = "stamp1" /\ z = "recv0"
               \/ x = "recv0" /\ z = "recv1"
               \/ x = "recv1" /\ z = "report"
         \/ g = Snd /\ Send0(g) /\ x = "send0" /\ z = "stamp0"
         \/ g = Snd /\ Send1(g) /\ x = "send1" /\ z = "stamp1"
<1>0. /\ Snd \in Hosts /\ Lst \in Hosts /\ Snd # Lst /\ (g = Snd \/ g = Lst)
      /\ Snd \notin Listeners
  BY PairFacts
<1>1. CASE g = Lst
  <2>1. Act(g)
    BY DEF Calm, Act, Step
  <2> QED BY <1>0, <1>1, <2>1, OthersKept DEF Same
<1>2. CASE g = Snd
  <2>1. CASE Send0(g)
    BY <1>2, <2>1, Send0Facts
  <2>2. CASE Send1(g)
    BY <1>2, <2>2, Send1Facts, KillOnlyFacts
  <2>3. CASE StartFails(g)
    <3>1. pc[g] = "off" /\ pc'[g] = pc[g]
      BY <2>3 DEF StartFails, program
    <3> QED BY <1>2, <2>3, <3>1 DEF Sendless, Idle
  <2>4. CASE Send0Fails(g) \/ Intrude(g)
    BY <2>4, Send0FailsFacts, KillOnlyFacts DEF Intrude
  <2>5. CASE Stamp0(g) \/ Stamp0Timeout(g)
    BY <1>2, <2>5, Stamp0Facts, Stamp0TimeoutFacts DEF Sendless, Idle
  <2>6. CASE Stamp1(g)
    BY <1>2, <2>6, Stamp1Facts DEF Sendless, Idle
  <2>7. CASE Recv0(g)
    <3>1. x = "recv0" /\ z \in {"recv0", "recv1"}
      BY <1>2, <2>7, Recv0Facts
    <3> QED BY <1>2, <2>7, <3>1 DEF Sendless
  <2>8. CASE Recv1(g)
    <3>1. x = "recv1" /\ z = "report"
      BY <1>0, <1>2, <2>8, Recv1Facts
    <3> QED BY <1>2, <2>8, <3>1 DEF Sendless
  <2>9. CASE Depart(g)
    <3>1. z = x
      BY <1>0, <1>2, <2>9, DepartFacts
    <3> QED BY <1>2, <2>9, <3>1 DEF Sendless
  <2> QED BY <2>1, <2>2, <2>3, <2>4, <2>5, <2>6, <2>7, <2>8, <2>9, Calm(g) DEF Calm
<1> QED BY <1>0, <1>1, <1>2

\* The listener takes the step, or the sender one that sends nothing.
Apart(g) == g = Lst \/ (g = Snd /\ Sendless(g))

\* A first frame that waits for its follow-up has waited before, unless the
\* sender has just sent it.
LEMMA NotSent ==
  ASSUME Pair, Shape, Shape', NEW g \in Hosts, Act(g), KillOnly, Paired(Lst),
         Apart(g), IsPending(Lst)'
  PROVE  IsPending(Lst)
<1>0. /\ Snd \in Hosts /\ Lst \in Hosts /\ Snd # Lst /\ Lst = Other(Snd) /\ ~Intrude(g)
      /\ Lst' = Lst
  BY PairFacts, KillOnlyFacts DEF Intrude, Lst
<1>1. CASE g = Lst
  BY <1>0, <1>1, OwnChain
<1>2. CASE g = Snd /\ Sendless(g)
  <2>1. PICK a, b, p, i :
          a = Arriving(Lst) /\ b = Arriving(Lst)' /\ p = pc[Lst] /\ i = stamp[Lst][2]
    OBVIOUS
  <2>2. pc'[Lst] = p
    BY <1>0, <1>2, <2>1, OthersKept DEF Same
  <2>3. IsSeq(a) /\ IsSeq(b) /\ Chain(Lst, a, p, i) /\ Pending(b, p)
    <3>1. IsSeq(a) /\ IsSeq(b)
      BY <1>0, <2>1, ArrivingSeq, ArrivingSeqNext
    <3>2. Chain(Lst, a, p, i)
      BY <2>1 DEF Paired
    <3>3. Pending(b, p)
      BY <1>0, <2>1, <2>2 DEF IsPending
    <3> QED BY <3>1, <3>2, <3>3
  <2>4. b = a \/ (p = "off" /\ a # << >> /\ b = Tail(a))
    BY <1>0, <1>2, <2>1, PeerArriving, KillOnlyFacts DEF Sendless
  <2>5. CASE b = a
    BY <2>1, <2>3, <2>5 DEF IsPending
  <2>6. CASE p = "off" /\ a # << >> /\ b = Tail(a)
    <3>1. Suffix(b, a)
      BY <2>3, <2>6, SuffixTail
    <3>2. Pending(b, p) => Pending(a, p)
      BY <2>3, <2>6, <3>1, ChainRest
    <3> QED BY <2>1, <2>3, <3>2 DEF IsPending
  <2> QED BY <2>4, <2>5, <2>6
<1> QED BY <1>1, <1>2 DEF Apart

\* The first frame that the program of the sender sends.
OwnFrame == <<Snd, first[Snd], << >> >>

\* To host h the frame id is that one, or answers it.
Mine(h, id, own) == IF h = Lst THEN id = own ELSE id[3] = own

\* So are all the first frames in a.
Firsts(h, a, own) == \A k \in 1..Len(a) : a[k].phase = 0 => Mine(h, a[k].id, own)

\* What host h has received is of the exchange that starts with frame own.
Held(h, own) ==
  /\ pc[h] = "recv1" => Mine(h, stamp[h][2], own)
  /\ h = Lst /\ pc[h] \in {"send0", "stamp0", "send1"} => Answered(h) = own
  /\ h = Snd /\ pc[h] = "report" => frame[h].ts[4][2][3] = own

\* So is what is on the way to it.
GoodOf(h, own) == Firsts(h, Arriving(h), own) /\ Held(h, own)

\* The program of the sender and the listener are about the same exchange.
Good == \A h \in Hosts : GoodOf(h, OwnFrame)

\* A frame joins the others.
LEMMA FirstsAppend ==
  ASSUME NEW h, NEW a, IsSeq(a), NEW own, Firsts(h, a, own),
         NEW m, m.phase = 0 => Mine(h, m.id, own)
  PROVE  Firsts(h, Append(a, m), own)
<1>1. PICK b, n : b = Append(a, m) /\ n = Len(a)
  OBVIOUS
<1>2. n \in Nat /\ Len(b) = n + 1 /\ b[n + 1] = m /\ \A k \in 1..n : b[k] = a[k]
  BY <1>1, AppendFacts
<1>3. ASSUME NEW k \in 1..Len(b), b[k].phase = 0 PROVE Mine(h, b[k].id, own)
  <2>1. CASE k = n + 1
    BY <1>2, <1>3, <2>1
  <2>2. CASE k \in 1..n
    <3>1. b[k] = a[k]
      BY <1>2, <2>2
    <3> QED BY <1>1, <1>3, <2>2, <3>1 DEF Firsts
  <2> QED BY <1>2, <2>1, <2>2
<1> QED BY <1>1, <1>3 DEF Firsts

\* Some are taken from the front.
LEMMA FirstsSuffix ==
  ASSUME NEW h, NEW a, IsSeq(a), NEW b, IsSeq(b), Suffix(b, a), NEW own, Firsts(h, a, own)
  PROVE  Firsts(h, b, own)
<1>1. PICK n \in Nat : Len(b) = Len(a) - n /\ \A k \in 1..Len(b) : b[k] = a[n + k]
  BY DEF Suffix
<1>2. PICK l, m : l = Len(b) /\ m = Len(a)
  OBVIOUS
<1>3. l \in Nat /\ m \in Nat /\ l = m - n /\ \A k \in 1..l : b[k] = a[n + k]
  BY <1>1, <1>2, EmptyFacts
<1>4. ASSUME NEW k \in 1..l, b[k].phase = 0 PROVE Mine(h, b[k].id, own)
  <2>1. n + k \in 1..m /\ b[k] = a[n + k]
    BY <1>3
  <2> QED BY <1>2, <1>4, <2>1 DEF Firsts
<1> QED BY <1>2, <1>4 DEF Firsts

\* The frames to host g after a step of its own are among those before.
LEMMA OwnSuffix ==
  ASSUME Pair, Shape, Shape', NEW g \in Hosts, Act(g), ~Intrude(g)
  PROVE  Suffix(Arriving(g)', Arriving(g))
<1>1. PICK a, b : a = Arriving(g) /\ b = Arriving(g)'
  OBVIOUS
<1>2. IsSeq(a) /\ IsSeq(b)
  BY <1>1, ArrivingSeq, ArrivingSeqNext
<1>3. CASE b = a
  BY <1>1, <1>2, <1>3, SuffixSame
<1>4. CASE a # << >> /\ b = Tail(a)
  BY <1>1, <1>2, <1>4, SuffixTail
<1>5. CASE Suffix(b, a)
  BY <1>1, <1>5
<1> QED BY <1>1, <1>3, <1>4, <1>5, OwnArriving, Act(g), ~Intrude(g) DEF Act, Step, Idle

\* Every step of a running exchange keeps it good, at the host that takes it
LEMMA GoodOfOwn ==
  ASSUME Pair, Shape, Shape', NEW g \in Hosts, Act(g), KillOnly,
         Paired(g), Mail(g), Local, NEW own, GoodOf(g, own),
         g = Snd => pc[g] \notin {"off", "send0"}
  PROVE  GoodOf(g, own)'
<1>0. /\ ~Intrude(g) /\ ~Send0Fails(g) /\ Snd' = Snd /\ Lst' = Lst /\ Snd # Lst
      /\ Listeners = {Lst} /\ (g = Snd \/ g = Lst)
  BY PairFacts, KillOnlyFacts DEF Intrude, Send0Fails, Snd, Lst
<1>1. Firsts(g, Arriving(g)', own)
  <2>1. PICK a, b : a = Arriving(g) /\ b = Arriving(g)'
    OBVIOUS
  <2>2. IsSeq(a) /\ IsSeq(b) /\ Suffix(b, a) /\ Firsts(g, a, own)
    BY <1>0, <2>1, ArrivingSeq, ArrivingSeqNext, OwnSuffix DEF GoodOf
  <2> QED BY <2>1, <2>2, FirstsSuffix
<1>2. Held(g, own)'
  <2>0. /\ pc[g] = "recv1" => Mine(g, stamp[g][2], own)
        /\ g = Lst /\ pc[g] \in {"send0", "stamp0", "send1"} => Answered(g) = own
        /\ g = Snd /\ pc[g] = "report" => frame[g].ts[4][2][3] = own
    BY DEF GoodOf, Held
  <2>1. ASSUME pc'[g] = pc[g], stamp'[g] = stamp[g], frame'[g] = frame[g]
        PROVE  Held(g, own)'
    <3>1. Answered(g)' = Answered(g)
      BY <2>1 DEF Answered
    <3> QED BY <1>0, <2>0, <2>1, <3>1 DEF Held, Mine
  <2>2. ASSUME pc'[g] \in {"off", "recv0", "stamp1"} PROVE Held(g, own)'
    BY <2>2 DEF Held
  <2>3. ASSUME pc[g] \in {"send0", "stamp0", "send1"}, pc'[g] \in {"stamp0", "send1"},
               frame'[g].ts = frame[g].ts
        PROVE  Held(g, own)'
    <3>1. Answered(g)' = Answered(g)
      BY <2>3 DEF Answered
    <3> QED BY <1>0, <2>0, <2>3, <3>1 DEF Held
  <2>4. CASE StartFails(g)
    BY <2>1, <2>4 DEF StartFails, program
  <2>5. CASE Start(g)
    <3>1. pc'[g] = "recv0"
      BY <1>0, <2>5, StartFacts
    <3> QED BY <2>2, <3>1
  <2>6. CASE Kill(g) \/ Report(g) \/ Send1(g) \/ Stamp1(g)
    <3>1. pc'[g] \in {"off", "recv0", "stamp1"}
      BY <2>6, KillFacts, ReportFacts, Send1Facts, Stamp1Facts
    <3> QED BY <2>2, <3>1
  <2>7. CASE Send0(g)
    BY <2>3, <2>7, Send0Facts
  <2>8. CASE Stamp0(g) \/ Stamp0Timeout(g)
    BY <2>3, <2>8, Stamp0Facts, Stamp0TimeoutFacts
  <2>9. CASE Depart(g)
    BY <2>1, <2>9, PairFacts, DepartFacts
  <2>10. CASE Recv0(g)
    <3>1. PICK m : m = Head(rq[g])
      OBVIOUS
    <3>2. /\ stamp'[g] = <<g, m.id>>
          /\ pc'[g] = IF m.phase = 0 THEN "recv1" ELSE "recv0"
      BY <2>10, <3>1, Recv0Facts
    <3>3. m.phase = 0 => Mine(g, m.id, own)
      <4>1. PICK a : a = Arriving(g)
        OBVIOUS
      <4>2. a # << >> /\ a[1] = m /\ IsSeq(a)
        BY <1>0, <2>10, <3>1, <4>1, OwnArriving, ArrivingSeq
      <4>3. 1 \in 1..Len(a) /\ Firsts(g, a, own)
        BY <4>1, <4>2, TailFacts DEF GoodOf
      <4> QED BY <4>2, <4>3 DEF Firsts
    <3>4. stamp'[g][2] = m.id
      BY <3>2
    <3> QED BY <1>0, <3>2, <3>3, <3>4 DEF Held, Mine
  <2>11. CASE Recv1(g)
    <3>1. PICK i, m :
            /\ stamp[g] = <<g, i>> /\ Follows(g, i, m) /\ DOMAIN m.ts = 1..4
            /\ frame'[g].ts = [m.ts EXCEPT ![RxAt(g)] = stamp[g]]
      BY <1>0, <2>11, FollowupTaken
    <3>2. pc[g] = "recv1" /\ pc'[g] = IF g \in Listeners THEN "send0" ELSE "report"
      BY <2>11, Recv1Facts
    <3>3. stamp[g][2] = i
      BY <3>1
    <3>4. Mine(g, i, own)
      BY <2>0, <3>2, <3>3
    <3>5. CASE g = Lst
      <4>1. frame'[g].ts[2] = <<g, i>>
        BY <1>0, <3>1, <3>5 DEF RxAt
      <4>2. Answered(g)' = i
        <5>1. frame'[g].ts[2][2] = i
          BY <4>1
        <5> QED BY <1>0, <3>5, <5>1 DEF Answered
      <4> QED BY <1>0, <3>2, <3>4, <3>5, <4>2 DEF Mine, Held
    <3>6. CASE g = Snd
      <4>1. frame'[g].ts[4] = <<g, i>>
        BY <1>0, <3>1, <3>6 DEF RxAt
      <4>2. frame'[g].ts[4][2] = i
        BY <4>1
      <4> QED BY <1>0, <3>2, <3>4, <3>6, <4>2 DEF Mine, Held
    <3> QED BY <1>0, <3>5, <3>6
  <2> QED BY <1>0, <2>4, <2>5, <2>6, <2>7, <2>8, <2>9, <2>10, <2>11, Act(g) DEF Act, Step
<1> QED BY <1>0, <1>1, <1>2 DEF GoodOf

\* ... and at the other one.
LEMMA GoodOfPeer ==
  ASSUME Pair, Shape, Shape', NEW g \in Hosts, Act(g), KillOnly,
         NEW q \in Hosts, q = Other(g), NEW own, GoodOf(g, own), GoodOf(q, own),
         g = Snd => pc[g] \notin {"off", "send0"}
  PROVE  GoodOf(q, own)'
<1>0. /\ ~Intrude(g) /\ Snd' = Snd /\ Lst' = Lst /\ Snd # Lst /\ q # g
      /\ (g = Snd \/ g = Lst) /\ (g = Lst => q = Snd)
  <2>1. Snd' = Snd /\ Lst' = Lst
    BY DEF Snd, Lst
  <2>2. ~Intrude(g)
    BY KillOnlyFacts DEF Intrude
  <2> QED BY <2>1, <2>2, PairFacts
<1>1. Same(q)
  BY <1>0, OthersKept
<1>2. Held(q, own)'
  <2>1. Answered(q)' = Answered(q)
    BY <1>1 DEF Same, Answered
  <2> QED BY <1>0, <1>1, <2>1 DEF Same, GoodOf, Held, Mine
<1>3. Firsts(q, Arriving(q)', own)
  <2>1. PICK a, b : a = Arriving(q) /\ b = Arriving(q)'
    OBVIOUS
  <2>2. IsSeq(a) /\ IsSeq(b) /\ Firsts(q, a, own)
    BY <2>1, ArrivingSeq, ArrivingSeqNext DEF GoodOf
  <2>3. CASE b = a
    BY <2>1, <2>2, <2>3
  <2>4. CASE a # << >> /\ b = Tail(a)
    BY <2>1, <2>2, <2>4, SuffixTail, FirstsSuffix
  <2>5. CASE Send0(g)
    <3>1. PICK m : m = FrameOf(g, 0, frame[g].ts)
      OBVIOUS
    <3>2. b = Append(a, m)
      BY <1>0, <2>1, <2>5, <3>1, PeerArriving
    <3>3. pc[g] = "send0"
      BY <2>5, Send0Facts
    <3>4. g = Lst /\ Answered(g) = own
      BY <1>0, <3>3 DEF GoodOf, Held
    <3>5. m.id[3] = Answered(g)
      BY <3>1 DEF FrameOf
    <3>6. Mine(q, m.id, own)
      BY <1>0, <3>4, <3>5 DEF Mine
    <3> QED BY <2>1, <2>2, <3>2, <3>6, FirstsAppend
  <2>6. CASE Send1(g) /\ b = Append(a, FrameOf(g, 1, FollowTimes(g)))
    <3>1. PICK m : m = FrameOf(g, 1, FollowTimes(g))
      OBVIOUS
    <3>2. m.phase # 0
      BY <3>1 DEF FrameOf
    <3>3. b = Append(a, m)
      BY <2>6, <3>1
    <3> QED BY <2>1, <2>2, <3>2, <3>3, FirstsAppend
  <2>7. "frameLost" \notin faults
    BY KillOnlyFacts
  <2>8. CASE Send1(g)
    BY <1>0, <2>1, <2>3, <2>6, <2>8, PeerArriving
  <2>9. CASE Depart(g)
    BY <1>0, <2>1, <2>3, <2>4, <2>7, <2>9, PeerArriving
  <2>10. CASE Idle(g) \/ Kill(g) \/ Report(g) \/ Recv0(g) \/ Recv1(g)
    BY <1>0, <2>1, <2>3, <2>10, PeerArriving
  <2> QED BY <1>0, <2>5, <2>8, <2>9, <2>10, Act(g) DEF Act, Step, Idle
<1> QED BY <1>0, <1>2, <1>3 DEF GoodOf

\* A first frame waits for its follow-up though no program is to send that; or
\* the program runs, started at rest, and the listener is about another exchange.
Misstep ==
  \/ pc[Snd] \in {"off", "send0"} /\ IsPending(Lst)
  \/ quiet[Snd] /\ pc[Snd] \notin {"off", "send0"} /\ ~Good

\* Before its first frame a program that was started at rest is alone.
Resting ==
  quiet[Snd] /\ pc[Snd] = "send0" =>
    /\ \A h \in Hosts : nic[h] = << >> /\ rq[h] = << >>
    /\ pc[Lst] \in {"recv0", "recv1"}
    /\ first[Snd] = sent[Snd] + 1

\* The follow-up has been sent.
Followed == pc[Snd] \in {"stamp1", "recv0", "recv1", "report"} => ~IsPending(Lst)

\* Each report of another exchange, and the next one, has a kill of its own.
Accounts == spoilt <= kills /\ (Misstep => spoilt + 1 <= kills)

KillInv == KillOnly => Accounts /\ Resting /\ Followed /\ pc[Lst] # "report"

\* It holds at first.
LEMMA KillInit == Pair /\ Init => Histories /\ KillInv
<1> SUFFICES ASSUME Pair, Init
             PROVE  Histories /\ Accounts /\ Resting /\ Followed /\ pc[Lst] # "report"
  BY DEF KillInv
<1>1. Snd \in Hosts /\ Lst \in Hosts /\ Other(Lst) = Snd
  BY PairFacts
<1>2. /\ pc[Snd] = "off" /\ pc[Lst] = "off" /\ nic[Snd] = << >>
      /\ kills = 0 /\ spoilt = 0
  BY <1>1 DEF Init
<1>3. ~IsPending(Lst)
  BY <1>1, <1>2 DEF IsPending, Pending, Arriving
<1>4. Histories
  BY DEF Init, Histories
<1> QED BY <1>2, <1>3, <1>4 DEF Accounts, Misstep, Resting, Followed

\* A program sends its first frame, and is about the same exchange as the
\* listener unless that waits for a follow-up.
LEMMA GoodFromRest ==
  ASSUME Pair, Shape, Shape', Send0(Snd), first' = first, quiet[Snd], Resting,
         ~IsPending(Lst), KillOnly
  PROVE  Good'
<1>0. /\ Snd \in Hosts /\ Lst \in Hosts /\ Snd # Lst /\ Snd' = Snd /\ Lst' = Lst
      /\ Hosts = {Snd, Lst} /\ Other(Snd) = Lst /\ Other(Lst) = Snd /\ Listeners = {Lst}
      /\ ~Intrude(Snd)
  BY PairFacts, KillOnlyFacts DEF Intrude, Snd, Lst
<1>1. Act(Snd)
  BY DEF Act, Step
<1>2. pc[Snd] = "send0" /\ pc'[Snd] = "stamp0"
  BY <1>0, Send0Facts
<1>3. /\ nic[Snd] = << >> /\ nic[Lst] = << >> /\ rq[Snd] = << >> /\ rq[Lst] = << >>
      /\ pc[Lst] \in {"recv0", "recv1"} /\ first[Snd] = sent[Snd] + 1
  BY <1>0, <1>2 DEF Resting
<1>4. Arriving(Snd) = << >> /\ Arriving(Lst) = << >>
  BY <1>0, <1>3, CatNone, NoneFacts DEF Arriving
<1>5. pc[Lst] = "recv0"
  BY <1>3, <1>4 DEF IsPending, Pending
<1>6. pc'[Lst] = "recv0"
  BY <1>0, <1>1, <1>5, OthersKept DEF Same
<1>7. PICK own : own = OwnFrame
  OBVIOUS
<1>8. own = <<Snd, sent[Snd] + 1, << >> >> /\ OwnFrame' = own
  BY <1>0, <1>3, <1>7 DEF OwnFrame
<1>9. GoodOf(Snd, own)'
  <2>1. Arriving(Snd)' = << >>
    BY <1>0, <1>1, <1>4, OwnArriving
  <2>2. Firsts(Snd, << >>, own)
    BY NoneFacts DEF Firsts
  <2> QED BY <1>0, <1>2, <2>1, <2>2 DEF GoodOf, Held
<1>10. GoodOf(Lst, own)'
  <2>1. PICK m, b : m = FrameOf(Snd, 0, frame[Snd].ts) /\ b = Append(<< >>, m)
    OBVIOUS
  <2>2. Arriving(Lst)' = b
    BY <1>0, <1>1, <1>4, <2>1, PeerArriving
  <2>3. m.id = own
    <3>1. Answered(Snd) = << >>
      BY <1>0 DEF Answered
    <3> QED BY <1>8, <2>1, <3>1 DEF FrameOf
  <2>4. Firsts(Lst, << >>, own) /\ Mine(Lst, m.id, own)
    BY <2>3, NoneFacts DEF Firsts, Mine
  <2>5. Firsts(Lst, b, own)
    BY <2>1, <2>4, NoneFacts, FirstsAppend
  <2> QED BY <1>0, <1>6, <2>2, <2>5 DEF GoodOf, Held
<1> QED BY <1>0, <1>8, <1>9, <1>10 DEF Good

\* A misstep was one before a step that neither starts nor ends a program.
LEMMA MisstepBefore ==
  ASSUME Pair, Shape, Shape', NEW g \in Hosts, Act(g), KillOnly, FrameInv,
         NEW x, NEW z, x = pc[Snd], z = pc'[Snd],
         z \in {"off", "send0"} => x \in {"off", "send0"} /\ Apart(g),
         z \notin {"off", "send0"} =>
           /\ x \notin {"off", "send0"}
           /\ first'[Snd] = first[Snd] /\ quiet'[Snd] = quiet[Snd],
         Misstep'
  PROVE  Misstep
<1>0. Snd \in Hosts /\ Lst \in Hosts /\ Snd' = Snd /\ Lst' = Lst /\ Hosts' = Hosts
  BY PairFacts DEF Snd, Lst, Hosts
<1>1. (\A h \in Hosts : HostInv(h)) /\ Local
  BY KillOnlyFacts DEF FrameInv
<1>2. CASE z \in {"off", "send0"}
  <2>1. IsPending(Lst)'
    BY <1>0, <1>2 DEF Misstep
  <2>2. Paired(Lst)
    BY <1>0, <1>1 DEF HostInv
  <2>3. Apart(g)
    BY <1>2
  <2>4. IsPending(Lst)
    BY <2>1, <2>2, <2>3, NotSent
  <2> QED BY <1>2, <2>4 DEF Misstep
<1>3. CASE z \notin {"off", "send0"}
  <2>1. quiet[Snd] /\ ~Good'
    BY <1>0, <1>3 DEF Misstep
  <2>2. ASSUME Good PROVE Good'
    <3>1. PICK own : own = OwnFrame /\ own = OwnFrame'
      BY <1>0, <1>3 DEF OwnFrame
    <3>2. PICK q \in Hosts : q = Other(g) /\ \A h \in Hosts : h = g \/ h = q
      BY PairFacts
    <3>3. GoodOf(g, own) /\ GoodOf(q, own)
      BY <2>2, <3>1 DEF Good
    <3>4. g = Snd => pc[g] \notin {"off", "send0"}
      BY <1>3
    <3>5. GoodOf(g, own)'
      BY <1>1, <3>3, <3>4, GoodOfOwn DEF HostInv
    <3>6. GoodOf(q, own)'
      BY <3>2, <3>3, <3>4, GoodOfPeer
    <3> QED BY <1>0, <3>1, <3>2, <3>5, <3>6 DEF Good
  <2> QED BY <1>3, <2>1, <2>2 DEF Misstep
<1> QED BY <1>2, <1>3

\* While the sender rests the listener has nothing to do.
LEMMA ListenerRests ==
  ASSUME Pair, Shape, Act(Lst), KillOnly, pc[Lst] \in {"recv0", "recv1"},
         nic[Lst] = << >>, rq[Lst] = << >>
  PROVE  FALSE
<1>0. Lst \in Hosts /\ Snd \in Hosts /\ Snd # Lst /\ Lst \notin Senders
  BY PairFacts
<1>1. ~Start(Lst) /\ ~StartFails(Lst)
  BY DEF Start, StartFails
<1>2. ~Kill(Lst)
  BY <1>0, KillFacts, KillOnlyFacts
<1>3. ~Send0(Lst) /\ ~Send0Fails(Lst) /\ ~Send1(Lst)
  BY DEF Send0, Send0Fails, Send1
<1>4. ~Stamp0(Lst) /\ ~Stamp0Timeout(Lst) /\ ~Stamp1(Lst)
  BY DEF Stamp0, Stamp0Timeout, Stamp1
<1>5. ~Recv0(Lst) /\ ~Recv1(Lst) /\ ~Report(Lst)
  BY DEF Recv0, Recv1, Receive, Report
<1>6. ~Depart(Lst) /\ ~Intrude(Lst)
  BY KillOnlyFacts DEF Depart, Intrude
<1> QED BY <1>1, <1>2, <1>3, <1>4, <1>5, <1>6, Act(Lst) DEF Act, Step

\* The follow-up joins the frames to the listener.
LEMMA FollowupSent ==
  ASSUME Pair, Shape, Shape', Send1(Snd), KillOnly
  PROVE  ~IsPending(Lst)'
<1>0. /\ Snd \in Hosts /\ Lst \in Hosts /\ Snd # Lst /\ Other(Snd) = Lst /\ Lst' = Lst
      /\ Act(Snd) /\ ~Intrude(Snd)
  BY PairFacts, KillOnlyFacts DEF Intrude, Lst, Act, Step
<1>1. PICK a, m : a = Arriving(Lst) /\ m = FrameOf(Snd, 1, FollowTimes(Snd))
  OBVIOUS
<1>2. IsSeq(a) /\ m.phase = 1
  BY <1>0, <1>1, ArrivingSeq DEF FrameOf
<1>3. Arriving(Lst)' = Append(a, m)
  BY <1>0, <1>1, PeerArriving, KillOnlyFacts
<1>4. PICK b : b = Append(a, m)
  OBVIOUS
<1>5. b # << >> /\ b[Len(b)] = m
  BY <1>2, <1>4, AppendFacts
<1>6. \A p : ~Pending(b, p)
  BY <1>2, <1>5 DEF Pending
<1> QED BY <1>0, <1>3, <1>4, <1>6 DEF IsPending

\* A listener never reports.
LEMMA ListenerReports ==
  ASSUME Pair, Shape, NEW g \in Hosts, Act(g), KillOnly, pc[Lst] # "report"
  PROVE  pc'[Lst] # "report"
<1>0. Lst \in Hosts /\ Lst \in Listeners /\ ~Intrude(g)
  BY PairFacts, KillOnlyFacts DEF Intrude
<1>1. CASE g # Lst
  BY <1>0, <1>1, OthersKept DEF Same
<1>2. CASE g = Lst
  <2>1. CASE Idle(g) \/ Kill(g) \/ Send1(g)
    BY <1>2, <2>1, StartFacts, Send0FailsFacts, Stamp0Facts, Stamp0TimeoutFacts,
       Stamp1Facts, KillFacts, Send1Facts DEF Idle, StartFails, program
  <2>2. CASE Send0(g) \/ Recv0(g) \/ Recv1(g) \/ Report(g)
    BY <1>0, <1>2, <2>2, Send0Facts, Recv0Facts, Recv1Facts, ReportFacts
  <2>3. CASE Depart(g)
    BY <1>2, <2>3, PairFacts, DepartFacts
  <2> QED BY <1>0, <2>1, <2>2, <2>3, Act(g) DEF Act, Step, Idle
<1> QED BY <1>1, <1>2

\* Every step keeps what is known of killed senders.
LEMMA KillStep ==
  Pair /\ Shape /\ Shape' /\ FrameInv /\ Histories /\ KillInv /\ [Next]_vars
    => Histories' /\ KillInv'
<1> SUFFICES ASSUME Pair, Shape, Shape', FrameInv, Histories, KillInv, [Next]_vars
             PROVE  Histories' /\ KillInv'
  OBVIOUS
<1>0. Snd' = Snd /\ Lst' = Lst /\ Snd \in Hosts /\ Lst \in Hosts /\ Snd # Lst
  BY PairFacts DEF Snd, Lst
<1>1. CASE UNCHANGED vars
  <2>1. UNCHANGED <<faults, pc, frame, stamp, rq, nic, sent, first, quiet, kills, spoilt>>
    BY <1>1 DEF vars, program, network, history
  <2>2. \A h \in Hosts : UNCHANGED <<Arriving(h), Answered(h)>>
    BY <2>1, <1>0 DEF Arriving, Answered, Other
  <2>3. IsPending(Lst)' = IsPending(Lst)
    BY <1>0, <2>1, <2>2 DEF IsPending
  <2>4. Good' = Good
    <3>1. OwnFrame' = OwnFrame
      BY <1>0, <2>1 DEF OwnFrame
    <3>2. ASSUME NEW h \in Hosts, NEW own PROVE GoodOf(h, own)' = GoodOf(h, own)
      BY <1>0, <2>1, <2>2, <3>2 DEF GoodOf, Held, Firsts, Mine
    <3> QED BY <3>1, <3>2 DEF Good
  <2>5. Histories'
    BY <2>1 DEF Histories
  <2>6. KillInv'
    BY <1>0, <2>1, <2>3, <2>4 DEF KillInv, KillOnly, Accounts, Misstep, Resting, Followed
  <2> QED BY <2>5, <2>6
<1>2. CASE Next
  <2>1. PICK g \in Hosts : Act(g)
    BY <1>2 DEF Next, Act
  <2>2. Histories'
    BY <2>1, HistoryFacts
  <2> SUFFICES ASSUME KillOnly'
               PROVE  Accounts' /\ Resting' /\ Followed' /\ pc'[Lst] # "report"
    BY <1>0, <2>2 DEF KillInv
  <2>3. /\ KillOnly /\ Accounts /\ Resting /\ Followed /\ pc[Lst] # "report"
        /\ ~Intrude(g) /\ (g = Snd \/ g = Lst)
    <3>1. faults' = faults
      BY <2>1, PairFacts, OthersKept
    <3>2. KillOnly
      BY <3>1 DEF KillOnly
    <3> QED BY <3>2, PairFacts, KillOnlyFacts DEF KillInv, Intrude
  <2>4. pc'[Lst] # "report"
    BY <2>1, <2>3, ListenerReports
  <2>5. (\A h \in Hosts : HostInv(h)) /\ Local /\ Paired(Lst)
    BY <1>0, <2>3, KillOnlyFacts DEF FrameInv, HostInv
  <2>6. PICK x, z : x = pc[Snd] /\ z = pc'[Snd]
    OBVIOUS
  <2>7. ASSUME first'[Snd] = first[Snd], quiet'[Snd] = quiet[Snd], z = x, g = Lst
        PROVE  /\ Misstep' => Misstep
               /\ Resting' /\ Followed'
    <3>1. Misstep' => Misstep
      BY <2>1, <2>3, <2>6, <2>7, MisstepBefore DEF Apart
    <3>2. Resting'
      <4>1. ASSUME quiet[Snd], x = "send0" PROVE FALSE
        BY <1>0, <2>1, <2>3, <2>6, <2>7, <4>1, ListenerRests DEF Resting
      <4> QED BY <1>0, <2>6, <2>7, <4>1 DEF Resting
    <3>3. Followed'
      <4>1. IsPending(Lst)' => IsPending(Lst)
        BY <2>1, <2>3, <2>5, <2>7, NotSent DEF Apart
      <4> QED BY <1>0, <2>3, <2>6, <2>7, <4>1 DEF Followed
    <3> QED BY <3>1, <3>2, <3>3
  <2>8. CASE /\ Start(g) /\ kills' = kills /\ spoilt' = spoilt
             /\ first'[g] = sent[g] + 1 /\ quiet'[g] = AtRest
             /\ \A q \in Hosts : q # g => first'[q] = first[q] /\ quiet'[q] = quiet[q]
    <3>1. CASE g = Lst
      <4>1. z = x
        BY <1>0, <2>1, <2>6, <3>1, OthersKept DEF Same
      <4> QED BY <1>0, <2>3, <2>4, <2>7, <2>8, <3>1, <4>1 DEF Accounts
    <3>2. CASE g = Snd
      <4>1. x = "off" /\ z = "send0" /\ Apart(g)
        BY <2>6, <2>8, <3>2, StartFacts, PairFacts DEF Apart, Sendless, Idle
      <4>2. Misstep' => Misstep
        BY <2>1, <2>3, <2>6, <4>1, MisstepBefore
      <4>3. Accounts'
        BY <2>3, <2>8, <4>2 DEF Accounts
      <4>4. Followed'
        BY <1>0, <2>6, <4>1 DEF Followed
      <4>5. Resting'
        <5>1. ASSUME quiet'[Snd]
              PROVE  /\ \A h \in Hosts : nic'[h] = << >> /\ rq'[h] = << >>
                     /\ pc'[Lst] \in {"recv0", "recv1"}
                     /\ first'[Snd] = sent'[Snd] + 1
          <6>1. /\ \A h \in Hosts : nic[h] = << >> /\ rq[h] = << >>
                /\ pc[Lst] \in {"recv0", "recv1"}
            BY <2>8, <3>2, <5>1, PairFacts DEF AtRest
          <6>2. nic' = nic /\ sent' = sent /\ rq' = [rq EXCEPT ![g] = << >>]
            BY <2>8 DEF Start, Open
          <6>3. pc'[Lst] = pc[Lst]
            BY <1>0, <2>1, <3>2, OthersKept DEF Same
          <6>4. \A h \in Hosts : rq'[h] = << >>
            BY <6>1, <6>2 DEF Shape
          <6> QED BY <2>8, <3>2, <6>1, <6>2, <6>3, <6>4
        <5> QED BY <1>0, <5>1 DEF Resting
      <4> QED BY <2>4, <4>3, <4>4, <4>5
    <3> QED BY <2>3, <3>1, <3>2
  <2>9. CASE Kill(g) /\ kills' = kills + 1 /\ spoilt' = spoilt
             /\ first' = first /\ quiet' = quiet
    <3>1. Accounts'
      BY <2>3, <2>9 DEF Accounts, Histories
    <3>2. CASE g = Lst
      <4>1. z = x
        BY <1>0, <2>1, <2>6, <3>2, OthersKept DEF Same
      <4> QED BY <2>4, <2>7, <2>9, <3>1, <3>2, <4>1
    <3>3. CASE g = Snd
      <4>1. z = "off"
        BY <2>6, <2>9, <3>3, KillFacts
      <4> QED BY <1>0, <2>4, <2>6, <3>1, <4>1 DEF Resting, Followed
    <3> QED BY <2>3, <3>2, <3>3
  <2>10. CASE /\ Report(g) /\ kills' = kills /\ first' = first /\ quiet' = quiet
              /\ spoilt' = IF quiet[g] /\ ~OwnExchange(g, frame[g].ts)
                           THEN spoilt + 1 ELSE spoilt
    <3>1. pc[g] = "report" /\ pc'[g] = "off"
      BY <2>10, ReportFacts
    <3>2. g = Snd /\ x = "report" /\ z = "off"
      BY <2>3, <2>6, <3>1
    <3>3. ~Misstep'
      <4>1. ~IsPending(Lst)
        BY <2>3, <2>6, <3>2 DEF Followed
      <4>2. ~IsPending(Lst)'
        BY <2>1, <2>3, <2>5, <2>10, <3>2, <4>1, NotSent DEF Sendless, Apart
      <4> QED BY <1>0, <2>6, <3>2, <4>2 DEF Misstep
    <3>4. Good => OwnExchange(Snd, frame[Snd].ts)
      <4>1. SUFFICES ASSUME Good PROVE OwnExchange(Snd, frame[Snd].ts)
        OBVIOUS
      <4>2. PICK ts, own : ts = frame[Snd].ts /\ own = <<Snd, first[Snd], << >> >>
        OBVIOUS
      <4>3. ts[4][2][3] = own
        BY <1>0, <2>6, <3>2, <4>1, <4>2 DEF Good, GoodOf, Held, OwnFrame
      <4>4. Whole(Snd, ts)
        BY <2>5, <2>6, <3>2, <4>2 DEF Local
      <4>5. ts[1] \in {Zero, <<Snd, own>>} /\ ts[2] = <<ts[4][2][1], own>>
        BY <4>3, <4>4 DEF Whole, TimesOfOneExchange
      <4>6. ts[2] # Zero /\ ts[2][2] = own
        BY <4>5 DEF Zero
      <4> QED BY <4>2, <4>3, <4>5, <4>6 DEF OwnExchange
    <3>5. Accounts'
      <4>1. CASE quiet[Snd] /\ ~OwnExchange(Snd, frame[Snd].ts)
        <5>1. Misstep
          BY <2>6, <3>2, <3>4, <4>1 DEF Misstep
        <5>2. spoilt' = spoilt + 1
          BY <2>10, <3>2, <4>1
        <5> QED BY <2>3, <2>10, <3>3, <5>1, <5>2 DEF Accounts
      <4>2. CASE ~(quiet[Snd] /\ ~OwnExchange(Snd, frame[Snd].ts))
        <5>1. spoilt' = spoilt
          BY <2>10, <3>2, <4>2
        <5> QED BY <2>3, <2>10, <3>3, <5>1 DEF Accounts
      <4> QED BY <4>1, <4>2
    <3> QED BY <1>0, <2>4, <2>6, <3>2, <3>5 DEF Resting, Followed
  <2>11. CASE /\ Calm(g) /\ kills' = kills /\ spoilt' = spoilt
              /\ first' = first /\ quiet' = quiet
    <3>1. CASE g = Lst /\ z = x
      BY <2>3, <2>4, <2>7, <2>11, <3>1 DEF Accounts
    <3>2. CASE /\ g = Snd /\ Sendless(g)
               /\ \/ z = x /\ (x = "send0" => Depart(g))
                  \/ x = "stamp0" /\ z = "send1"
                  \/ x = "stamp1" /\ z = "recv0"
                  \/ x = "recv0" /\ z = "recv1"
                  \/ x = "recv1" /\ z = "report"
      <4>1. Misstep' => Misstep
        <5>1. Apart(g) /\ (z \in {"off", "send0"} => x \in {"off", "send0"})
              /\ (z \notin {"off", "send0"} => x \notin {"off", "send0"})
          BY <3>2 DEF Apart
        <5> QED BY <2>1, <2>3, <2>6, <2>11, <5>1, MisstepBefore
      <4>2. Resting'
        <5>1. ASSUME quiet[Snd], z = "send0" PROVE FALSE
          <6>1. nic[Snd] = << >>
            BY <1>0, <2>3, <2>6, <3>2, <5>1 DEF Resting
          <6>2. Depart(Snd)
            BY <3>2, <5>1
          <6> QED BY <6>1, <6>2 DEF Depart
        <5> QED BY <1>0, <2>6, <2>11, <5>1 DEF Resting
      <4>3. Followed'
        <5>1. IsPending(Lst)' => IsPending(Lst)
          BY <2>1, <2>3, <2>5, <3>2, NotSent DEF Apart
        <5>2. z \in {"stamp1", "recv0", "recv1", "report"} =>
                x \in {"stamp1", "recv0", "recv1", "report"}
          BY <3>2
        <5> QED BY <1>0, <2>3, <2>6, <5>1, <5>2 DEF Followed
      <4> QED BY <2>3, <2>4, <2>11, <4>1, <4>2, <4>3 DEF Accounts
    <3>3. CASE g = Snd /\ Send0(g) /\ x = "send0" /\ z = "stamp0"
      <4>1. Misstep' => Misstep
        <5>1. SUFFICES ASSUME Misstep', ~IsPending(Lst) PROVE FALSE
          BY <2>6, <3>3 DEF Misstep
        <5>2. quiet[Snd] /\ ~Good'
          BY <1>0, <2>6, <2>11, <3>3, <5>1 DEF Misstep
        <5> QED BY <2>3, <2>11, <3>3, <5>1, <5>2, GoodFromRest
      <4> QED BY <1>0, <2>3, <2>4, <2>6, <2>11, <3>3, <4>1 DEF Accounts, Resting, Followed
    <3>4. CASE g = Snd /\ Send1(g) /\ x = "send1" /\ z = "stamp1"
      <4>1. Misstep' => Misstep
        BY <2>1, <2>3, <2>6, <2>11, <3>4, MisstepBefore
      <4>2. Followed'
        <5>1. ~IsPending(Lst)'
          BY <2>3, <3>4, FollowupSent
        <5> QED BY <1>0, <5>1 DEF Followed
      <4> QED BY <1>0, <2>3, <2>4, <2>6, <2>11, <3>4, <4>1, <4>2 DEF Accounts, Resting
    <3> QED BY <2>3, <2>6, <2>11, <3>1, <3>2, <3>3, <3>4, SenderMoves
  <2> QED BY <2>1, <2>8, <2>9, <2>10, <2>11, HistoryFacts
<1> QED BY <1>1, <1>2

(* OneSpoiltPerKill: with one sender and one listener, of which the sender *)
(* may be killed anywhere and stamps be lost, no more programs that were   *)
(* started with the network at rest report another exchange than their own *)
(* than programs were killed, for every number of starts and frames.       *)
THEOREM SpoiltCorrect == Pair => (Spec => []OneSpoiltPerKill)
<1> SUFFICES ASSUME Pair PROVE Spec => []OneSpoiltPerKill
  OBVIOUS
<1> DEFINE Inv == Shape /\ FrameInv /\ Histories /\ KillInv
<1>1. Init => Inv
  BY ShapeInit, FrameInit, KillInit
<1>2. Inv /\ [Next]_vars => Inv'
  <2> SUFFICES ASSUME Inv, [Next]_vars PROVE Inv'
    OBVIOUS
  <2>1. Shape'
    BY ShapeStep
  <2>2. FrameInv'
    BY <2>1, FrameStep
  <2>3. Histories' /\ KillInv'
    BY <2>1, KillStep
  <2> QED BY <2>1, <2>2, <2>3
<1>3. Inv => OneSpoiltPerKill
  BY DEF KillInv, KillOnly, Accounts, OneSpoiltPerKill
<1> QED BY <1>1, <1>2, <1>3, PTL DEF Spec
=============================================================================
