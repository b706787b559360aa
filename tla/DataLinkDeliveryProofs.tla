----------------------- MODULE DataLinkDeliveryProofs -----------------------
(***************************************************************************)
(* Proofs about the way of a message from send to the other page, for any  *)
(* sizes of messages, any limit and any number of messages: what is given  *)
(* to the page is whole, and the connection implements Courier.            *)
(***************************************************************************)
EXTENDS DataLinkProofs

USE DEF modeVars, pageVars, accVars, encVars, bufVars, dcVars, rxVars

-----------------------------------------------------------------------------
(* What every step keeps about the frames behind the network (the line),    *)
(* those in it, and the messages that have come.                            *)

\* The order in which send makes the frames.
Before(f, g) == f.msg < g.msg \/ (f.msg = g.msg /\ f.n < g.n)

Sorted(fs) == \A p, q \in DOMAIN fs : p < q => Before(fs[p], fs[q])

\* A chunk of an accepted message.
Proper(f) == f.msg \in DOMAIN accepted /\ f.total = accepted[f.msg] /\ f.n < f.total

SmallFrame(id) == [msg |-> id, n |-> 0, total |-> 1]

Line == channel \o (buffer \o (reading \o queue))

Landed == blobs \cup Range(delivered)

\* The line is in order, and behind all that has left it.
LineInv ==
    /\ Sorted(Line)
    /\ \A g \in Range(Line) :
           /\ Proper(g)
           /\ \A f \in Range(net) \cup chunked : Before(f, g)
           /\ \A id \in Landed : id < g.msg
    /\ tx = "closed" => channel = <<>>

\* Every chunk is in one place, and none is left of a message that has come.
NetInv ==
    /\ \A p, q \in DOMAIN net : p # q => net[p] # net[q]
    /\ ordered => Sorted(net)
    /\ Range(net) \cap chunked = {}
    /\ \A f \in Range(net) \cup chunked : Proper(f) /\ f.msg \notin Landed

\* A message comes once; only those of several chunks are read as blobs.
LandedInv ==
    /\ Landed \subseteq DOMAIN accepted
    /\ blobs \cap Range(delivered) = {}
    /\ \A id \in blobs : accepted[id] # 1

\* A small message has come, or is in the network, or is in the line behind all that is in
\* the network, or was lost there when the connection closed.
SmallInv ==
    \A id \in DOMAIN accepted : accepted[id] = 1 =>
        \/ id \in Range(delivered)
        \/ SmallFrame(id) \in Range(net)
        \/ /\ \A f \in Range(net) : f.msg < id
           /\ tx = "closed" \/ SmallFrame(id) \in Range(Line)

DeliveryInv == LineInv /\ NetInv /\ LandedInv /\ SmallInv

-----------------------------------------------------------------------------
(* Sequences of frames, by their elements.                                  *)

\* The elements of a sequence of frames are frames.
LEMMA RangeTyped ==
  ASSUME NEW fs \in Seq(Frame)
  PROVE  Range(fs) \subseteq Frame
BY DEF Range

\* The elements of a concatenation.
LEMMA RangeConcat ==
  ASSUME NEW s \in Seq(Frame), NEW t \in Seq(Frame)
  PROVE  Range(s \o t) = Range(s) \cup Range(t)
<1>1. /\ Len(s) \in Nat /\ Len(t) \in Nat /\ DOMAIN s = 1..Len(s) /\ DOMAIN t = 1..Len(t)
      /\ DOMAIN (s \o t) = 1..(Len(s) + Len(t))
      /\ \A i \in 1..(Len(s) + Len(t)) :
             (s \o t)[i] = IF i <= Len(s) THEN s[i] ELSE t[i - Len(s)]
  OBVIOUS
<1>2. ASSUME NEW x \in Range(s \o t) PROVE x \in Range(s) \cup Range(t)
  <2>1. PICK i \in 1..(Len(s) + Len(t)) : x = (s \o t)[i]
    BY <1>1 DEF Range
  <2>2. CASE i <= Len(s)
    BY <1>1, <2>1, <2>2 DEF Range
  <2>3. CASE i > Len(s)
    <3>1. i - Len(s) \in 1..Len(t) /\ x = t[i - Len(s)]
      BY <1>1, <2>1, <2>3
    <3> QED BY <1>1, <3>1 DEF Range
  <2> QED BY <1>1, <2>2, <2>3
<1>3. ASSUME NEW x \in Range(s) PROVE x \in Range(s \o t)
  <2>1. PICK i \in 1..Len(s) : x = s[i]
    BY <1>1, <1>3 DEF Range
  <2>2. i \in 1..(Len(s) + Len(t)) /\ (s \o t)[i] = x
    BY <1>1, <2>1
  <2> QED BY <1>1, <2>2 DEF Range
<1>4. ASSUME NEW x \in Range(t) PROVE x \in Range(s \o t)
  <2>1. PICK i \in 1..Len(t) : x = t[i]
    BY <1>1, <1>4 DEF Range
  <2>2. i + Len(s) \in 1..(Len(s) + Len(t)) /\ (s \o t)[i + Len(s)] = x
    BY <1>1, <2>1
  <2> QED BY <1>1, <2>2 DEF Range
<1> QED BY <1>2, <1>3, <1>4

\* A sequence in order stays so with what comes after all of it.
LEMMA SortedConcat ==
  ASSUME NEW s \in Seq(Frame), NEW t \in Seq(Frame), Sorted(s), Sorted(t),
         \A f \in Range(s), g \in Range(t) : Before(f, g)
  PROVE  Sorted(s \o t)
<1>1. /\ Len(s) \in Nat /\ Len(t) \in Nat /\ DOMAIN s = 1..Len(s) /\ DOMAIN t = 1..Len(t)
      /\ DOMAIN (s \o t) = 1..(Len(s) + Len(t))
      /\ \A i \in 1..(Len(s) + Len(t)) :
             (s \o t)[i] = IF i <= Len(s) THEN s[i] ELSE t[i - Len(s)]
  OBVIOUS
<1> SUFFICES ASSUME NEW p \in 1..(Len(s) + Len(t)), NEW q \in 1..(Len(s) + Len(t)), p < q
             PROVE  Before((s \o t)[p], (s \o t)[q])
  BY <1>1 DEF Sorted
<1>2. CASE q <= Len(s)
  <2>1. p \in DOMAIN s /\ q \in DOMAIN s /\ (s \o t)[p] = s[p] /\ (s \o t)[q] = s[q]
    BY <1>1, <1>2
  <2> QED BY <2>1 DEF Sorted
<1>3. CASE p <= Len(s) /\ q > Len(s)
  <2>1. p \in DOMAIN s /\ q - Len(s) \in DOMAIN t
        /\ (s \o t)[p] = s[p] /\ (s \o t)[q] = t[q - Len(s)]
    BY <1>1, <1>3
  <2>2. s[p] \in Range(s) /\ t[q - Len(s)] \in Range(t)
    BY <2>1 DEF Range
  <2> QED BY <2>1, <2>2
<1>4. CASE p > Len(s)
  <2>1. p - Len(s) \in DOMAIN t /\ q - Len(s) \in DOMAIN t /\ p - Len(s) < q - Len(s)
        /\ (s \o t)[p] = t[p - Len(s)] /\ (s \o t)[q] = t[q - Len(s)]
    BY <1>1, <1>4
  <2> QED BY <2>1 DEF Sorted
<1> QED BY <1>1, <1>2, <1>3, <1>4

\* Without its head a sequence in order is in order, behind its head.
LEMMA SortedTail ==
  ASSUME NEW h \in Frame, NEW t \in Seq(Frame), Sorted(<<h>> \o t)
  PROVE  /\ Sorted(t) /\ Range(<<h>> \o t) = {h} \cup Range(t)
         /\ \A g \in Range(t) : Before(h, g)
<1>1. PICK fs : fs = <<h>> \o t
  OBVIOUS
<1>2. /\ Len(t) \in Nat /\ DOMAIN fs = 1..(Len(t) + 1) /\ DOMAIN t = 1..Len(t)
      /\ fs[1] = h /\ \A i \in 1..Len(t) : fs[i + 1] = t[i]
  BY <1>1
<1> DEFINE B(p, q) == Before(fs[p], fs[q])
<1>0. \A p, q \in 1..(Len(t) + 1) : p < q => B(p, q)
  BY <1>1, <1>2 DEF Sorted
<1> HIDE DEF B
<1>3. Sorted(t)
  <2> SUFFICES ASSUME NEW p \in 1..Len(t), NEW q \in 1..Len(t), p < q
               PROVE  Before(t[p], t[q])
    BY <1>2 DEF Sorted
  <2>1. p + 1 \in 1..(Len(t) + 1) /\ q + 1 \in 1..(Len(t) + 1) /\ p + 1 < q + 1
    BY <1>2
  <2>2. B(p + 1, q + 1)
    BY <1>0, <2>1
  <2> QED BY <1>2, <2>2 DEF B
<1>4. ASSUME NEW i \in 1..Len(t) PROVE Before(h, t[i])
  <2>1. 1 \in 1..(Len(t) + 1) /\ i + 1 \in 1..(Len(t) + 1) /\ 1 < i + 1
    BY <1>2
  <2>2. B(1, i + 1)
    BY <1>0, <2>1
  <2> QED BY <1>2, <2>2 DEF B
<1>5. Range(fs) = {h} \cup Range(t)
  <2>1. <<h>> \in Seq(Frame) /\ Range(<<h>>) = {h}
    BY DEF Range
  <2> QED BY <1>1, <2>1, RangeConcat
<1> QED BY <1>1, <1>2, <1>3, <1>4, <1>5 DEF Range

\* Without one of its elements, a sequence of different frames.
LEMMA RemoveOne ==
  ASSUME NEW fs \in Seq(Frame), NEW i \in DOMAIN fs,
         \A p, q \in DOMAIN fs : p # q => fs[p] # fs[q]
  PROVE  /\ Range(RemoveAt(fs, i)) = Range(fs) \ {fs[i]}
         /\ \A p, q \in DOMAIN RemoveAt(fs, i) :
                p # q => RemoveAt(fs, i)[p] # RemoveAt(fs, i)[q]
         /\ Sorted(fs) => Sorted(RemoveAt(fs, i))
<1>1. i \in 1..Len(fs) /\ Len(fs) \in Nat /\ DOMAIN fs = 1..Len(fs)
  OBVIOUS
<1>2. PICK r : r = RemoveAt(fs, i)
  OBVIOUS
<1>3. /\ DOMAIN r = 1..(Len(fs) - 1)
      /\ \A p \in 1..(Len(fs) - 1) : r[p] = IF p < i THEN fs[p] ELSE fs[p + 1]
  <2>1. r = SubSeq(fs, 1, i - 1) \o SubSeq(fs, i + 1, Len(fs))
    BY <1>2 DEF RemoveAt
  <2>2. PICK a : a = SubSeq(fs, 1, i - 1)
    OBVIOUS
  <2>3. a \in Seq(Frame) /\ Len(a) = i - 1 /\ \A p \in 1..(i - 1) : a[p] = fs[p]
    BY <1>1, <2>2
  <2>4. PICK b : b = SubSeq(fs, i + 1, Len(fs))
    OBVIOUS
  <2>5. b \in Seq(Frame) /\ Len(b) = Len(fs) - i /\ \A p \in 1..(Len(fs) - i) : b[p] = fs[i + p]
    BY <1>1, <2>4
  <2>6. r = a \o b
    BY <2>1, <2>2, <2>4
  <2>7. /\ DOMAIN r = 1..((i - 1) + (Len(fs) - i))
        /\ \A p \in 1..((i - 1) + (Len(fs) - i)) :
               r[p] = IF p <= i - 1 THEN a[p] ELSE b[p - (i - 1)]
    BY <1>1, <2>3, <2>5, <2>6
  <2>8. (i - 1) + (Len(fs) - i) = Len(fs) - 1
    BY <1>1
  <2>9. ASSUME NEW p \in 1..(Len(fs) - 1), p >= i PROVE r[p] = fs[p + 1]
    <3>1. p - (i - 1) \in 1..(Len(fs) - i) /\ ~(p <= i - 1)
      BY <1>1, <2>9
    <3>2. r[p] = b[p - (i - 1)] /\ b[p - (i - 1)] = fs[i + (p - (i - 1))]
      BY <2>5, <2>7, <2>8, <3>1
    <3> QED BY <1>1, <2>9, <3>2
  <2>10. ASSUME NEW p \in 1..(Len(fs) - 1), p < i PROVE r[p] = fs[p]
    BY <1>1, <2>3, <2>7, <2>8, <2>10
  <2> QED BY <1>1, <2>7, <2>8, <2>9, <2>10
<1>4. ASSUME NEW p \in DOMAIN r
      PROVE  \E j \in DOMAIN fs : j # i /\ r[p] = fs[j] /\ j = IF p < i THEN p ELSE p + 1
  BY <1>1, <1>3
<1>5. ASSUME NEW j \in DOMAIN fs, j # i
      PROVE  \E p \in DOMAIN r : r[p] = fs[j]
  <2>1. CASE j < i
    BY <1>1, <1>3, <2>1
  <2>2. CASE j > i
    <3>1. j - 1 \in DOMAIN r /\ r[j - 1] = fs[j]
      BY <1>1, <1>3, <2>2
    <3> QED BY <3>1
  <2> QED BY <1>1, <1>5, <2>1, <2>2
<1>6. Range(r) = Range(fs) \ {fs[i]}
  BY <1>4, <1>5 DEF Range
<1>7. ASSUME NEW p \in DOMAIN r, NEW q \in DOMAIN r, p < q
      PROVE  r[p] # r[q] /\ (Sorted(fs) => Before(r[p], r[q]))
  <2>1. PICK j \in DOMAIN fs : r[p] = fs[j] /\ j = IF p < i THEN p ELSE p + 1
    BY <1>4
  <2>2. PICK k \in DOMAIN fs : r[q] = fs[k] /\ k = IF q < i THEN q ELSE q + 1
    BY <1>4
  <2>3. j < k
    BY <1>1, <1>3, <1>7, <2>1, <2>2
  <2> QED BY <1>1, <2>1, <2>2, <2>3 DEF Sorted
<1>8. \A p, q \in DOMAIN r : p # q => p < q \/ q < p
  BY <1>3
<1>9. \A p, q \in DOMAIN r : p # q => r[p] # r[q]
  BY <1>7, <1>8
<1>10. Sorted(fs) => Sorted(r)
  BY <1>7 DEF Sorted
<1> QED BY <1>2, <1>6, <1>9, <1>10

-----------------------------------------------------------------------------
(* What the sender does to the line.                                        *)

\* The chunks of a message are in order.
LEMMA FramesSorted ==
  ASSUME NEW id \in Nat \ {0}, NEW size \in Sizes
  PROVE  /\ Sorted(Frames(id, size))
         /\ \A f \in Range(Frames(id, size)) : f.msg = id /\ f.total = size /\ f.n < size
         /\ size = 1 => SmallFrame(id) \in Range(Frames(id, size))
<1>1. size \in Nat \ {0}
  BY LinkAssumption
<1>2. PICK fs : fs = Frames(id, size)
  OBVIOUS
<1>3. /\ DOMAIN fs = 1..size
      /\ \A i \in 1..size : fs[i] = [msg |-> id, n |-> i - 1, total |-> size]
  BY <1>2 DEF Frames
<1>4. \A i \in 1..size : fs[i].msg = id /\ fs[i].n = i - 1 /\ fs[i].total = size
  BY <1>3
<1>5. Sorted(fs)
  BY <1>1, <1>3, <1>4 DEF Sorted, Before
<1>6. \A f \in Range(fs) : f.msg = id /\ f.total = size /\ f.n < size
  BY <1>1, <1>3, <1>4 DEF Range
<1>7. size = 1 => SmallFrame(id) \in Range(fs)
  <2>1. size = 1 => 1 \in DOMAIN fs /\ fs[1] = [msg |-> id, n |-> 0, total |-> 1]
    BY <1>1, <1>3
  <2> QED BY <2>1 DEF Range, SmallFrame
<1> QED BY <1>2, <1>5, <1>6, <1>7

\* The line goes on with fs, or it is lost but for one frame that is left in _buffer.
Moves(fs) ==
    \/ /\ Line' = Line \o fs
       /\ tx' = "closed" <=> tx = "closed"
       /\ tx = "closed" => channel' = channel
    \/ /\ tx' = "closed" /\ channel' = <<>>
       /\ Line' = <<>> \/ \E g \in Range(Line \o fs) : Line' = <<g>>

\* A concatenation of four.
LEMMA FourTyped ==
  ASSUME NEW a \in Seq(Frame), NEW b \in Seq(Frame), NEW c \in Seq(Frame), NEW d \in Seq(Frame)
  PROVE  a \o (b \o (c \o d)) \in Seq(Frame)
<1>1. c \o d \in Seq(Frame)
  OBVIOUS
<1>2. b \o (c \o d) \in Seq(Frame)
  BY <1>1
<1> QED BY <1>2

\* Whatever the sender does, the line stays in order behind all that has left it.
LEMMA LineMoves ==
  ASSUME PageTyped, SenderTyped, SenderTyped', DeliveryInv,
         UNCHANGED <<ordered, net, rxVars>>,
         NEW fs \in Seq(Frame), Moves(fs),
         \/ fs = <<>> /\ accepted' = accepted
         \/ \E size \in Sizes : /\ accepted' = Append(accepted, size)
                                /\ fs = Frames(Len(accepted) + 1, size)
  PROVE  DeliveryInv'
<1>1. /\ accepted \in Seq(Sizes) /\ Len(accepted) \in Nat /\ DOMAIN accepted = 1..Len(accepted)
      /\ Sizes \subseteq Nat
  BY LinkAssumption DEF PageTyped
<1>2. /\ DOMAIN accepted \subseteq DOMAIN accepted'
      /\ \A id \in DOMAIN accepted : accepted'[id] = accepted[id]
  BY <1>1
<1>3. \A f : Proper(f) => Proper(f)'
  BY <1>2 DEF Proper
<1> DEFINE Behind ==
       /\ Sorted(fs)
       /\ \A g \in Range(fs) : Proper(g)' /\ \A id \in DOMAIN accepted : id < g.msg
       /\ \A id \in DOMAIN accepted' : accepted'[id] = 1
              => id \in DOMAIN accepted
                 \/ (SmallFrame(id) \in Range(fs) /\ \A j \in DOMAIN accepted : j < id)
<1>4. Behind
  <2>1. CASE fs = <<>> /\ accepted' = accepted
    BY <2>1 DEF Sorted, Range
  <2>2. ASSUME NEW size \in Sizes, accepted' = Append(accepted, size),
               fs = Frames(Len(accepted) + 1, size)
        PROVE  Behind
    <3>1. PICK id \in Nat \ {0} : id = Len(accepted) + 1
      BY <1>1
    <3>2. DOMAIN accepted' = 1..id /\ accepted'[id] = size /\ \A j \in DOMAIN accepted : j < id
      <4>1. Len(accepted') = id /\ accepted'[id] = size /\ accepted' \in Seq(Sizes)
        <5>1. ASSUME NEW s \in Seq(Sizes)
              PROVE  /\ Append(s, size) \in Seq(Sizes) /\ Len(Append(s, size)) = Len(s) + 1
                     /\ Append(s, size)[Len(s) + 1] = size
          OBVIOUS
        <5> QED BY ONLY <1>1, <2>2, <3>1, <5>1
      <4>2. DOMAIN accepted' = 1..Len(accepted')
        BY <4>1
      <4> QED BY <1>1, <3>1, <4>1, <4>2
    <3>3. /\ Sorted(fs)
          /\ \A f \in Range(fs) : f.msg = id /\ f.total = size /\ f.n < size
          /\ size = 1 => SmallFrame(id) \in Range(fs)
      BY <2>2, <3>1, FramesSorted
    <3>4. \A f \in Range(fs) : Proper(f)'
      BY <3>2, <3>3 DEF Proper
    <3>5. \A j \in DOMAIN accepted' : j = id \/ j \in DOMAIN accepted
      BY <1>1, <3>1, <3>2
    <3> QED BY <3>2, <3>3, <3>4, <3>5
  <2> QED BY <2>1, <2>2
<1>5. PICK L \in Seq(Frame) : L = Line
  <2>1. Line \in Seq(Frame)
    BY FourTyped DEF SenderTyped, Line
  <2> QED BY <2>1
<1>6. PICK M \in Seq(Frame) : M = Line'
  <2>1. Line' \in Seq(Frame)
    BY FourTyped DEF SenderTyped, Line
  <2> QED BY <2>1
<1>7. PICK K \in Seq(Frame) : K = L \o fs
  <2>1. L \o fs \in Seq(Frame)
    OBVIOUS
  <2> QED BY <2>1
<1>8. Range(K) = Range(L) \cup Range(fs)
  BY <1>7, RangeConcat
<1>9. \A f \in Range(net) \cup chunked \cup Range(L) : f.msg \in DOMAIN accepted
  BY <1>5 DEF DeliveryInv, LineInv, NetInv, Proper
<1>10. \A g \in Range(K) :
           /\ Proper(g)'
           /\ \A f \in Range(net) \cup chunked : Before(f, g)
           /\ \A id \in Landed : id < g.msg
  <2>1. ASSUME NEW g \in Range(L)
        PROVE  /\ Proper(g)'
               /\ \A f \in Range(net) \cup chunked : Before(f, g)
               /\ \A id \in Landed : id < g.msg
    BY <1>3, <1>5, <2>1 DEF DeliveryInv, LineInv
  <2>2. ASSUME NEW g \in Range(fs)
        PROVE  /\ Proper(g)'
               /\ \A f \in Range(net) \cup chunked : Before(f, g)
               /\ \A id \in Landed : id < g.msg
    <3>1. \A f \in Range(net) \cup chunked : Before(f, g)
      BY <1>4, <1>9, <2>2 DEF Before
    <3>2. \A id \in Landed : id < g.msg
      BY <1>4, <2>2 DEF DeliveryInv, LandedInv
    <3> QED BY <1>4, <2>2, <3>1, <3>2
  <2> QED BY <1>8, <2>1, <2>2
<1>11. Sorted(K)
  <2>1. \A f \in Range(L), g \in Range(fs) : Before(f, g)
    BY <1>4, <1>9 DEF Before
  <2>2. Sorted(L)
    BY <1>5 DEF DeliveryInv, LineInv
  <2> QED BY <1>4, <1>7, <2>1, <2>2, SortedConcat
<1>12. \/ M = K /\ (tx' = "closed" <=> tx = "closed") /\ (tx = "closed" => channel' = channel)
       \/ tx' = "closed" /\ channel' = <<>> /\ (M = <<>> \/ \E g \in Range(K) : M = <<g>>)
  BY <1>5, <1>6, <1>7 DEF Moves
<1>13. Range(M) \subseteq Range(K) /\ Sorted(M)
  <2>1. CASE M = K
    BY <1>11, <2>1
  <2>2. CASE M = <<>>
    BY <2>2 DEF Range, Sorted
  <2>3. ASSUME NEW g \in Range(K), M = <<g>> PROVE Range(M) \subseteq Range(K) /\ Sorted(M)
    <3>1. DOMAIN M = {1} /\ M[1] = g
      BY <2>3
    <3> QED BY <2>3, <3>1 DEF Range, Sorted
  <2> QED BY <1>12, <2>1, <2>2, <2>3
<1>14. tx' = "closed" => channel' = <<>>
  BY <1>12 DEF DeliveryInv, LineInv
<1>15. Landed' = Landed /\ Range(net)' = Range(net) /\ chunked' = chunked
  BY DEF Landed
<1>16. LineInv'
  BY <1>6, <1>10, <1>13, <1>14, <1>15 DEF LineInv
<1>17. NetInv'
  BY <1>3, <1>15 DEF DeliveryInv, NetInv
<1>18. LandedInv'
  <2>1. blobs' = blobs /\ delivered' = delivered /\ blobs \subseteq Landed
    BY DEF Landed
  <2> QED BY <1>2, <1>15, <2>1 DEF DeliveryInv, LandedInv
<1>19. SmallInv'
  <2> SUFFICES ASSUME NEW id \in DOMAIN accepted', accepted'[id] = 1
               PROVE  \/ id \in Range(delivered)
                      \/ SmallFrame(id) \in Range(net)
                      \/ /\ \A f \in Range(net) : f.msg < id
                         /\ tx' = "closed" \/ SmallFrame(id) \in Range(M)
    BY <1>6, <1>15 DEF SmallInv
  <2>1. CASE id \in DOMAIN accepted
    <3>1. accepted[id] = 1
      BY <1>2, <2>1
    <3>2. \/ id \in Range(delivered)
          \/ SmallFrame(id) \in Range(net)
          \/ /\ \A f \in Range(net) : f.msg < id
             /\ tx = "closed" \/ SmallFrame(id) \in Range(L)
      BY <1>5, <2>1, <3>1 DEF DeliveryInv, SmallInv
    <3> QED BY <1>8, <1>12, <3>2
  <2>2. CASE SmallFrame(id) \in Range(fs) /\ \A j \in DOMAIN accepted : j < id
    BY <1>8, <1>9, <1>12, <2>2
  <2> QED BY <1>4, <2>1, <2>2
<1> QED BY <1>16, <1>17, <1>18, <1>19 DEF DeliveryInv

\* close leaves of the line at most one frame of those that were being sent.
LEMMA CloseMoves ==
  ASSUME NEW fs \in Seq(Frame), CloseTx(<<>>) \/ \E g \in Range(Line \o fs) : CloseTx(<<g>>)
  PROVE  Moves(fs)
<1>1. /\ tx' = "closed" /\ channel' = <<>> /\ reading' = <<>> /\ queue' = <<>>
      /\ buffer' = <<>> \/ \E g \in Range(Line \o fs) : buffer' = <<g>>
  BY DEF CloseTx
<1>2. Line' = buffer'
  <2>1. Line' = <<>> \o (buffer' \o (<<>> \o <<>>))
    BY <1>1 DEF Line
  <2>2. \A g : <<>> \o (<<g>> \o (<<>> \o <<>>)) = <<g>>
    OBVIOUS
  <2>3. <<>> \o (<<>> \o (<<>> \o <<>>)) = <<>>
    OBVIOUS
  <2> QED BY <1>1, <2>1, <2>2, <2>3
<1> QED BY <1>1, <1>2 DEF Moves

\* The frames that _bufferedSend gets go to the end of the channel's buffer and of _buffer.
LEMMA BufferedSendMoves ==
  ASSUME SenderTyped, ~buffering => buffer = <<>>,
         NEW fs \in Seq(Frame), NEW nr \in Seq(Frame), NEW nq \in Seq(Frame),
         NEW x \in Seq(Frame),
         BufferedSend(fs, nr, nq)
  PROVE  \/ /\ tx' = "open" /\ reading' = nr /\ queue' = nq
            /\ channel' \o (buffer' \o x) = channel \o (buffer \o (fs \o x))
         \/ \E g \in Range(fs) : CloseTx(<<g>>)
<1>1. channel \in Seq(Frame) /\ buffer \in Seq(Frame)
  BY DEF SenderTyped
<1>2. CASE /\ buffering /\ buffer' = buffer \o fs
           /\ reading' = nr /\ queue' = nq /\ tx' = "open"
           /\ UNCHANGED <<buffering, timer, dcVars>>
  <2>1. (buffer \o fs) \o x = buffer \o (fs \o x)
    BY <1>1, Assoc
  <2> QED BY <1>2, <2>1
<1>3. CASE ~buffering /\ tx' = "open" /\ HandOver(fs, Fit(fs))
           /\ buffer' = buffer \o SubSeq(fs, Fit(fs) + 1, Len(fs))
           /\ buffering' = (Fit(fs) < Len(fs)) /\ timer' = (timer \/ buffering')
           /\ reading' = nr /\ queue' = nq
  <2>1. PICK k \in 0..Len(fs) : k = Fit(fs)
    BY FitInside
  <2>2. SubSeq(fs, k + 1, Len(fs)) \in Seq(Frame) /\ fs \o x \in Seq(Frame)
    BY Halves
  <2>3. \A z \in Seq(Frame) : <<>> \o z = z
    OBVIOUS
  <2>4. buffer' = SubSeq(fs, k + 1, Len(fs)) /\ buffer \o (fs \o x) = fs \o x
    BY <1>3, <2>1, <2>2, <2>3
  <2>5. channel' = channel \o SubSeq(fs, 1, k)
    BY <1>3, <2>1 DEF HandOver
  <2>6. ASSUME NEW h \in Seq(Frame)
        PROVE  (h \o SubSeq(fs, 1, k)) \o (SubSeq(fs, k + 1, Len(fs)) \o x) = h \o (fs \o x)
    BY SplitKeepsOrder, ZenonT(40)
  <2>7. channel' \o (buffer' \o x) = channel \o (buffer \o (fs \o x))
    BY ONLY <1>1, <2>4, <2>5, <2>6
  <2> QED BY <1>3, <2>7
<1>4. CASE \E k \in 0..(Len(fs) - 1) : Throws(fs, k, <<fs[k + 1]>>)
  <2>1. PICK k \in 0..(Len(fs) - 1) : Throws(fs, k, <<fs[k + 1]>>)
    BY <1>4
  <2>2. fs[k + 1] \in Range(fs)
    BY DEF Range
  <2> QED BY <2>1, <2>2 DEF Throws
<1> QED BY <1>2, <1>3, <1>4 DEF BufferedSend

\* send puts the chunks of its message behind the line.
LEMMA SendMoves ==
  ASSUME PageTyped, SenderTyped, SenderInv, tx \in {"opening", "open"},
         NEW size \in Sizes, Send(size)
  PROVE  /\ accepted' = Append(accepted, size)
         /\ Frames(Len(accepted) + 1, size) \in Seq(Frame)
         /\ Moves(Frames(Len(accepted) + 1, size))
<1>1. accepted' = Append(accepted, size) /\ Len(accepted') = Len(accepted) + 1
      /\ Len(accepted) + 1 \in Nat \ {0}
  BY DEF Send, PageTyped
<1>2. PICK fs \in Seq(Frame) : fs = Frames(Len(accepted) + 1, size) /\ fs # <<>>
  BY <1>1, FramesTyped
<1>3. /\ channel \in Seq(Frame) /\ buffer \in Seq(Frame)
      /\ reading \in Seq(Frame) /\ queue \in Seq(Frame)
  BY DEF SenderTyped
<1>4. ~buffering => buffer = <<>>
  BY Flowing
<1>5. Line \o fs = channel \o (buffer \o ((reading \o queue) \o fs))
  <2>1. PICK y \in Seq(Frame) : y = reading \o queue
    <3>1. reading \o queue \in Seq(Frame)
      BY <1>3
    <3> QED BY <3>1, Zenon
  <2>2. PICK b \in Seq(Frame), c \in Seq(Frame) : b = buffer /\ c = channel
    BY <1>3
  <2>3. PICK z \in Seq(Frame) : z = b \o y
    <3>1. b \o y \in Seq(Frame)
      OBVIOUS
    <3> QED BY <3>1, Zenon
  <2>4. (c \o z) \o fs = c \o (z \o fs)
    BY ONLY c \in Seq(Frame), z \in Seq(Frame), fs \in Seq(Frame), Assoc, ZenonT(40)
  <2>5. (b \o y) \o fs = b \o (y \o fs)
    BY ONLY b \in Seq(Frame), y \in Seq(Frame), fs \in Seq(Frame), Assoc, ZenonT(40)
  <2> QED BY ONLY <2>1, <2>2, <2>3, <2>4, <2>5 DEF Line
<1>6. CASE binaryBlob
  <2>1. BufferedSend(fs, reading, queue)
    BY <1>1, <1>2, <1>6 DEF Send
  <2>2. reading = <<>> /\ queue = <<>>
    BY <1>6 DEF SenderInv
  <2>3. <<>> \in Seq(Frame) /\ <<>> \o <<>> = <<>> /\ \A s \in Seq(Frame) : s \o <<>> = s /\ <<>> \o s = s
    OBVIOUS
  <2>4. \/ /\ tx' = "open" /\ reading' = <<>> /\ queue' = <<>>
           /\ channel' \o (buffer' \o <<>>) = channel \o (buffer \o (fs \o <<>>))
        \/ \E g \in Range(fs) : CloseTx(<<g>>)
    BY <1>4, <2>1, <2>2, <2>3, BufferedSendMoves
  <2>5. Line \o fs = channel \o (buffer \o fs)
    BY ONLY <1>5, <2>2, <2>3, fs \in Seq(Frame)
  <2>6. CASE /\ tx' = "open" /\ reading' = <<>> /\ queue' = <<>>
             /\ channel' \o (buffer' \o <<>>) = channel \o (buffer \o (fs \o <<>>))
    <3>1. Line' = Line \o fs
      BY ONLY <2>3, <2>5, <2>6, fs \in Seq(Frame) DEF Line
    <3> QED BY <1>1, <1>2, <2>6, <3>1 DEF Moves
  <2>7. CASE \E g \in Range(fs) : CloseTx(<<g>>)
    <3>1. Line \in Seq(Frame)
      BY <1>3, FourTyped DEF Line
    <3>2. Range(fs) \subseteq Range(Line \o fs)
      BY <3>1, RangeConcat
    <3> QED BY <1>1, <1>2, <2>7, <3>2, CloseMoves
  <2> QED BY <2>4, <2>6, <2>7
<1>7. CASE ~binaryBlob
  <2>1. Enque(fs)
    BY <1>1, <1>2, <1>7 DEF Send
  <2>2. tx' = "open" /\ buffer' = buffer /\ channel' = channel
    BY <2>1 DEF Enque
  <2>3. reading' \o queue' = (reading \o queue) \o fs
    <3>1. CASE reading = <<>>
      <4>1. queue \o fs = fs /\ (reading \o queue) \o fs = fs
        BY <3>1 DEF SenderInv
      <4>2. reading' = <<Head(fs)>> /\ queue' = Tail(fs)
        BY <2>1, <3>1, <4>1 DEF Enque
      <4>3. <<Head(fs)>> \o Tail(fs) = fs
        BY <1>2, HeadAndTail
      <4> QED BY <4>1, <4>2, <4>3
    <3>2. CASE reading # <<>>
      <4>1. reading' = reading /\ queue' = queue \o fs
        BY <2>1, <3>2 DEF Enque
      <4>2. (reading \o queue) \o fs = reading \o (queue \o fs)
        BY <1>3, Assoc, ZenonT(40)
      <4> QED BY ONLY <4>1, <4>2
    <3> QED BY <3>1, <3>2
  <2>4. Line' = Line \o fs
    BY ONLY <1>5, <2>2, <2>3 DEF Line
  <2> QED BY <1>1, <1>2, <2>2, <2>4 DEF Moves
<1> QED BY <1>6, <1>7

\* The FileReader's frame goes behind those in _buffer, where it was in the line.
LEMMA EncodedMoves ==
  ASSUME SenderTyped, SenderInv, Encoded
  PROVE  Moves(<<>>)
<1>1. tx = "open" /\ reading # <<>>
  BY DEF Encoded, SenderInv, SenderTyped
<1>2. /\ channel \in Seq(Frame) /\ buffer \in Seq(Frame)
      /\ reading \in Seq(Frame) /\ queue \in Seq(Frame)
  BY DEF SenderTyped
<1>3. PICK nr \in Seq(Frame), nq \in Seq(Frame) :
          nr \o nq = queue /\ BufferedSend(reading, nr, nq)
  <2>1. CASE queue # <<>>
    <3>1. BufferedSend(reading, <<Head(queue)>>, Tail(queue))
      BY <2>1 DEF Encoded
    <3>2. Head(queue) \in Frame /\ Tail(queue) \in Seq(Frame) /\ <<Head(queue)>> \o Tail(queue) = queue
      BY <1>2, <2>1, HeadAndTail
    <3>3. <<Head(queue)>> \in Seq(Frame)
      BY <3>2
    <3> QED BY ONLY <3>1, <3>2, <3>3
  <2>2. CASE queue = <<>>
    <3>1. BufferedSend(reading, <<>>, <<>>)
      BY <2>2 DEF Encoded
    <3>2. <<>> \in Seq(Frame) /\ <<>> \o <<>> = <<>>
      OBVIOUS
    <3> QED BY ONLY <2>2, <3>1, <3>2
  <2> QED BY <2>1, <2>2
<1>4. ~buffering => buffer = <<>>
  BY <1>1 DEF SenderInv
<1>5. PICK r \in Seq(Frame), x \in Seq(Frame) : r = reading /\ x = queue
  BY <1>2
<1>6. \/ /\ tx' = "open" /\ reading' = nr /\ queue' = nq
         /\ channel' \o (buffer' \o x) = channel \o (buffer \o (r \o x))
      \/ \E g \in Range(r) : CloseTx(<<g>>)
  <2>1. BufferedSend(r, nr, nq)
    BY <1>3, <1>5
  <2> QED BY <1>4, <2>1, BufferedSendMoves, Zenon
<1>7. PICK L \in Seq(Frame) : L = Line /\ L \o <<>> = L
  <2>1. Line \in Seq(Frame)
    BY <1>2, FourTyped DEF Line
  <2> QED BY <2>1
<1>8. CASE /\ tx' = "open" /\ reading' = nr /\ queue' = nq
           /\ channel' \o (buffer' \o x) = channel \o (buffer \o (r \o x))
  <2>1. Line' = Line
    BY ONLY <1>3, <1>5, <1>8 DEF Line
  <2> QED BY <1>1, <1>7, <1>8, <2>1 DEF Moves
<1>9. CASE \E g \in Range(r) : CloseTx(<<g>>)
  <2>1. PICK b \in Seq(Frame) : b = buffer \o (r \o x)
    <3>1. buffer \o (r \o x) \in Seq(Frame)
      BY <1>2
    <3> QED BY <3>1, Zenon
  <2>2. r \o x \in Seq(Frame)
    OBVIOUS
  <2>3. Range(r) \subseteq Range(r \o x) /\ Range(r \o x) \subseteq Range(b)
        /\ Range(b) \subseteq Range(channel \o b)
    <3>1. ASSUME NEW s \in Seq(Frame), NEW t \in Seq(Frame)
          PROVE  Range(s) \subseteq Range(s \o t) /\ Range(t) \subseteq Range(s \o t)
      BY RangeConcat
    <3>2. buffer \in Seq(Frame) /\ channel \in Seq(Frame)
      BY <1>2
    <3> QED BY ONLY <2>1, <2>2, <3>1, <3>2, r \in Seq(Frame), x \in Seq(Frame), b \in Seq(Frame)
  <2>4. L = channel \o b
    BY <1>5, <1>7, <2>1 DEF Line
  <2>5. Range(r) \subseteq Range(Line \o <<>>)
    BY <1>7, <2>3, <2>4
  <2> QED BY <1>9, <2>5, CloseMoves, <<>> \in Seq(Frame)
<1> QED BY <1>6, <1>8, <1>9

\* The timer moves frames from _buffer to the channel, one place on in the line.
LEMMA TimerMoves ==
  ASSUME SenderTyped, SenderInv, TimerFires
  PROVE  Moves(<<>>)
<1>1. /\ channel \in Seq(Frame) /\ buffer \in Seq(Frame)
      /\ reading \in Seq(Frame) /\ queue \in Seq(Frame)
  BY DEF SenderTyped
<1>2. PICK x \in Seq(Frame) : x = reading \o queue
  <2>1. reading \o queue \in Seq(Frame)
    BY <1>1
  <2> QED BY <2>1, Zenon
<1>3. PICK L \in Seq(Frame) : L = Line /\ L \o <<>> = L
  <2>1. Line \in Seq(Frame)
    BY <1>1, FourTyped DEF Line
  <2> QED BY <2>1
<1>4. CASE /\ tx = "open" /\ HandOver(buffer, Fit(buffer))
           /\ buffer' = SubSeq(buffer, Fit(buffer) + 1, Len(buffer))
           /\ UNCHANGED <<tx, encVars>>
  <2>1. PICK k \in 0..Len(buffer) : k = Fit(buffer)
    BY <1>1, FitInside
  <2>2. buffer' = SubSeq(buffer, k + 1, Len(buffer)) /\ channel' = channel \o SubSeq(buffer, 1, k)
    BY <1>4, <2>1 DEF HandOver
  <2>3. ASSUME NEW h \in Seq(Frame), NEW w \in Seq(Frame), NEW j \in 0..Len(w)
        PROVE  (h \o SubSeq(w, 1, j)) \o (SubSeq(w, j + 1, Len(w)) \o x) = h \o (w \o x)
    BY SplitKeepsOrder, ZenonT(40)
  <2>4. channel' \o (buffer' \o x) = channel \o (buffer \o x)
    BY ONLY <1>1, <2>2, <2>3, k \in 0..Len(buffer)
  <2>5. Line' = Line
    BY ONLY <1>2, <1>4, <2>4 DEF Line, encVars
  <2> QED BY <1>3, <1>4, <2>5 DEF Moves
<1>5. CASE \E k \in 0..(Len(buffer) - 1) : Throws(buffer, k, <<>>)
  <2>1. CloseTx(<<>>)
    BY <1>5 DEF Throws
  <2> QED BY <2>1, CloseMoves, <<>> \in Seq(Frame)
<1>6. CASE tx # "open" /\ UNCHANGED <<tx, encVars, buffer, dcVars>>
  <2>1. Line' = Line
    BY <1>6 DEF Line
  <2> QED BY <1>3, <1>6, <2>1 DEF Moves
<1> QED BY <1>4, <1>5, <1>6 DEF TimerFires

-----------------------------------------------------------------------------
(* What the channel and the receiver do.                                    *)

\* The elements of a sequence with one more.
LEMMA RangeAppend ==
  ASSUME NEW S, NEW s \in Seq(S), NEW x \in S
  PROVE  Range(Append(s, x)) = Range(s) \cup {x}
<1>1. PICK t : t = Append(s, x)
  OBVIOUS
<1>2. /\ Len(s) \in Nat /\ DOMAIN s = 1..Len(s) /\ DOMAIN t = 1..(Len(s) + 1)
      /\ t[Len(s) + 1] = x /\ \A i \in 1..Len(s) : t[i] = s[i]
  BY <1>1
<1>3. \A i \in 1..(Len(s) + 1) : i = Len(s) + 1 \/ i \in 1..Len(s)
  BY <1>2
<1>4. Range(s) \cup {x} \subseteq Range(t)
  <2>1. Len(s) + 1 \in DOMAIN t /\ \A i \in 1..Len(s) : i \in DOMAIN t
    BY <1>2
  <2> QED BY <1>2, <2>1 DEF Range
<1> QED BY <1>1, <1>2, <1>3, <1>4 DEF Range

\* A message has one chunk at each place.
LEMMA SameFrame ==
  ASSUME NEW f \in Frame, NEW g \in Frame, Proper(f), Proper(g), f.msg = g.msg, f.n = g.n
  PROVE  f = g
BY DEF Proper, Frame

\* The head of the line goes into the network, behind all that is there.
LEMMA TransmitDelivery ==
  ASSUME SenderTyped, ReceiverTyped, DeliveryInv, Transmit
  PROVE  DeliveryInv'
<1>1. /\ UNCHANGED <<ordered, tx, accepted, queue, reading, buffer, rxVars>>
      /\ channel # <<>> /\ channel' = Tail(channel) /\ net' = Append(net, Head(channel))
  BY DEF Transmit
<1>2. /\ channel \in Seq(Frame) /\ buffer \in Seq(Frame) /\ net \in Seq(Frame)
      /\ reading \in Seq(Frame) /\ queue \in Seq(Frame)
  BY DEF SenderTyped, ReceiverTyped
<1>3. PICK h \in Frame, c \in Seq(Frame) :
          h = Head(channel) /\ c = Tail(channel) /\ channel = <<h>> \o c
  <2>1. /\ Head(channel) \in Frame /\ Tail(channel) \in Seq(Frame)
        /\ <<Head(channel)>> \o Tail(channel) = channel
    BY <1>1, <1>2, HeadAndTail
  <2> QED BY <2>1
<1>4. PICK R \in Seq(Frame) : R = buffer \o (reading \o queue)
  <2>1. reading \o queue \in Seq(Frame)
    BY <1>2
  <2>2. buffer \o (reading \o queue) \in Seq(Frame)
    BY <1>2, <2>1
  <2> QED BY <2>2, Zenon
<1>5. PICK M \in Seq(Frame) : M = Line' /\ Line = <<h>> \o M
  <2>1. (<<h>> \o c) \o R = <<h>> \o (c \o R)
    <3>1. <<h>> \in Seq(Frame)
      OBVIOUS
    <3> QED BY ONLY <3>1, c \in Seq(Frame), R \in Seq(Frame), Assoc, ZenonT(40)
  <2>2. Line' = c \o R /\ Line = (<<h>> \o c) \o R
    BY ONLY <1>1, <1>3, <1>4 DEF Line
  <2>3. c \o R \in Seq(Frame)
    OBVIOUS
  <2> QED BY ONLY <2>1, <2>2, <2>3
<1>6. /\ Sorted(M) /\ Range(Line) = {h} \cup Range(M)
      /\ \A g \in Range(M) : Before(h, g)
  BY <1>5, SortedTail DEF DeliveryInv, LineInv
<1>7. Range(net') = Range(net) \cup {h}
  BY <1>1, <1>2, <1>3, RangeAppend
<1>8. /\ Proper(h) /\ h.msg \notin Landed
      /\ \A f \in Range(net) \cup chunked : Before(f, h)
  <2>1. /\ Proper(h) /\ \A id \in Landed : id < h.msg
        /\ \A f \in Range(net) \cup chunked : Before(f, h)
    BY <1>6 DEF DeliveryInv, LineInv
  <2>2. Proper(h) => h.msg \in Nat
    BY DEF Frame
  <2> QED BY <2>1, <2>2
<1>9. ~Before(h, h)
  BY DEF Before, Frame
<1>10. /\ Landed' = Landed /\ chunked' = chunked /\ delivered' = delivered /\ blobs' = blobs
       /\ accepted' = accepted /\ tx' = tx /\ ordered' = ordered
       /\ \A f : Proper(f) <=> Proper(f)'
  BY <1>1 DEF Landed, Proper
<1>11. LineInv'
  <2>1. \A g \in Range(M) : \A f \in Range(net') \cup chunked : Before(f, g)
    BY <1>6, <1>7 DEF DeliveryInv, LineInv
  <2>2. tx # "closed"
    BY <1>1 DEF DeliveryInv, LineInv
  <2>3. \A g \in Range(M) : Proper(g) /\ \A id \in Landed : id < g.msg
    BY <1>6 DEF DeliveryInv, LineInv
  <2> QED BY <1>5, <1>6, <1>10, <2>1, <2>2, <2>3 DEF LineInv
<1>12. NetInv'
  <2>1. h \notin Range(net) \cup chunked
    BY <1>8, <1>9
  <2>2. /\ Len(net) \in Nat /\ DOMAIN net = 1..Len(net) /\ DOMAIN net' = 1..(Len(net) + 1)
        /\ net'[Len(net) + 1] = h /\ \A i \in 1..Len(net) : net'[i] = net[i]
    <3>1. ASSUME NEW s \in Seq(Frame)
          PROVE  /\ Len(s) \in Nat /\ DOMAIN s = 1..Len(s) /\ DOMAIN Append(s, h) = 1..(Len(s) + 1)
                 /\ Append(s, h)[Len(s) + 1] = h /\ \A i \in 1..Len(s) : Append(s, h)[i] = s[i]
      OBVIOUS
    <3> QED BY ONLY <1>1, <1>2, <1>3, <3>1
  <2>3. \A i \in 1..Len(net) : net[i] \in Range(net)
    BY <2>2 DEF Range
  <2>4. \A p, q \in DOMAIN net' : p # q => net'[p] # net'[q]
    <3>1. \A p, q \in 1..Len(net) : p # q => net[p] # net[q]
      BY <2>2 DEF DeliveryInv, NetInv
    <3>2. \A p \in 1..Len(net) : net[p] # h
      BY <2>1, <2>3
    <3>3. \A p \in 1..(Len(net) + 1) : p \in 1..Len(net) \/ p = Len(net) + 1
      BY <2>2
    <3> QED BY ONLY <2>2, <3>1, <3>2, <3>3
  <2>5. ordered => Sorted(net')
    <3>1. ordered => \A p, q \in 1..Len(net) : p < q => Before(net[p], net[q])
      BY <2>2 DEF DeliveryInv, NetInv, Sorted
    <3>2. \A p \in 1..Len(net) : Before(net[p], h)
      BY <1>8, <2>3
    <3>3. \A p, q \in 1..(Len(net) + 1) : p < q
             => p \in 1..Len(net) /\ (q \in 1..Len(net) \/ q = Len(net) + 1)
      BY <2>2
    <3> QED BY ONLY <2>2, <3>1, <3>2, <3>3 DEF Sorted
  <2>6. \A f \in Range(net') \cup chunked : Proper(f) /\ f.msg \notin Landed
    BY <1>7, <1>8 DEF DeliveryInv, NetInv
  <2>7. Range(net') \cap chunked = {}
    BY <1>7, <2>1 DEF DeliveryInv, NetInv
  <2> QED BY <1>10, <2>4, <2>5, <2>6, <2>7 DEF NetInv
<1>13. LandedInv'
  BY <1>10 DEF DeliveryInv, LandedInv
<1>14. SmallInv'
  <2> SUFFICES ASSUME NEW id \in DOMAIN accepted, accepted[id] = 1
               PROVE  \/ id \in Range(delivered)
                      \/ SmallFrame(id) \in Range(net')
                      \/ /\ \A f \in Range(net') : f.msg < id
                         /\ tx = "closed" \/ SmallFrame(id) \in Range(M)
    BY <1>5, <1>10 DEF SmallInv
  <2>1. tx # "closed"
    BY <1>1 DEF DeliveryInv, LineInv
  <2>2. \/ id \in Range(delivered)
        \/ SmallFrame(id) \in Range(net)
        \/ (\A f \in Range(net) : f.msg < id) /\ SmallFrame(id) \in {h} \cup Range(M)
    BY <1>6, <2>1 DEF DeliveryInv, SmallInv
  <2>3. SmallFrame(id) \in Range(M) => h.msg < id
    <3>1. Before(h, SmallFrame(id)) => h.msg < id
      BY DEF Before, SmallFrame, Frame
    <3> QED BY <1>6, <3>1
  <2> QED BY <1>7, <2>2, <2>3
<1> QED BY <1>11, <1>12, <1>13, <1>14 DEF DeliveryInv

\* A frame completes its message only when no other chunk of it is anywhere else.
LEMMA WholeMessage ==
  ASSUME SenderTyped, ReceiverTyped, DeliveryInv, NEW f \in Range(net),
         NEW chunks, chunks = {g \in chunked : g.msg = f.msg} \cup {f},
         \A n \in 0..(f.total - 1) : \E g \in chunks : g.n = n
  PROVE  /\ \A g \in Range(Line) : f.msg < g.msg
         /\ \A g \in Range(net) \cup chunked : g.msg = f.msg => g \in chunks
<1>1. /\ f \in Frame /\ chunked \subseteq Frame /\ chunks \subseteq Frame
      /\ Range(net) \subseteq Frame /\ Range(Line) \subseteq Frame
  <2>1. Range(net) \subseteq Frame
    BY RangeTyped DEF ReceiverTyped
  <2>2. Line \in Seq(Frame)
    BY FourTyped DEF SenderTyped, Line
  <2> QED BY <2>1, <2>2, RangeTyped DEF ReceiverTyped
<1>2. \A g \in Range(net) \cup chunked \cup Range(Line) : Proper(g)
  BY DEF DeliveryInv, LineInv, NetInv
<1>3. ASSUME NEW g \in Range(net) \cup chunked \cup Range(Line), g.msg = f.msg
      PROVE  \E h \in chunks : h = g
  <2>1. g.n \in 0..(f.total - 1)
    BY <1>1, <1>2, <1>3 DEF Proper, Frame
  <2>2. PICK h \in chunks : h.n = g.n
    BY <2>1
  <2>3. h \in Range(net) \cup chunked /\ h.msg = g.msg
    BY <1>3, <2>2
  <2>4. h = g
    BY <1>1, <1>2, <2>2, <2>3, SameFrame
  <2> QED BY <2>4
<1>4. ASSUME NEW g \in Range(Line) PROVE f.msg < g.msg
  <2>1. /\ Before(f, g)
        /\ \A h \in Range(net) \cup chunked : Before(h, g)
    BY DEF DeliveryInv, LineInv
  <2>2. g.msg # f.msg
    <3>1. ASSUME g.msg = f.msg PROVE FALSE
      <4>1. g \in Range(net) \cup chunked
        BY <1>3, <3>1
      <4>2. Before(g, g)
        BY <2>1, <4>1
      <4> QED BY <1>1, <4>2 DEF Before, Frame
    <3> QED BY <3>1
  <2> QED BY <2>1, <2>2 DEF Before
<1> QED BY <1>3, <1>4

\* A frame that arrives goes to its message; a whole message leaves no frame behind.
LEMMA MessageDelivery ==
  ASSUME SenderTyped, ReceiverTyped, DeliveryInv, NEW i \in DOMAIN net, Message(i)
  PROVE  DeliveryInv'
<1>1. net \in Seq(Frame) /\ chunked \subseteq Frame /\ delivered \in Seq(Nat)
  BY DEF ReceiverTyped
<1>2. PICK f \in Frame : f = net[i] /\ f \in Range(net)
  BY <1>1, RemoveTyped DEF Range
<1>3. PICK chunks : chunks = {g \in chunked : g.msg = f.msg} \cup {f}
  OBVIOUS
<1>4. /\ Range(net') = Range(net) \ {f}
      /\ \A p, q \in DOMAIN net' : p # q => net'[p] # net'[q]
      /\ Sorted(net) => Sorted(net')
  <2>1. net' = RemoveAt(net, i)
    BY DEF Message
  <2>2. \A p, q \in DOMAIN net : p # q => net[p] # net[q]
    BY DEF DeliveryInv, NetInv
  <2> QED BY <1>1, <1>2, <2>1, <2>2, RemoveOne
<1>5. /\ Line' = Line /\ channel' = channel /\ tx' = tx /\ accepted' = accepted
      /\ ordered' = ordered /\ \A g : Proper(g) <=> Proper(g)'
  BY DEF Message, Line, Proper
<1>6. /\ Proper(f) /\ f.msg \notin Landed /\ f \notin chunked
      /\ f.msg \in Nat /\ f.n \in Nat /\ f.total \in Nat
  BY <1>2 DEF DeliveryInv, NetInv, Frame
<1>7. \/ /\ f.total = 1
         /\ delivered' = Append(delivered, f.msg)
         /\ UNCHANGED <<chunked, blobs>>
      \/ /\ f.total > 1
         /\ chunked' = chunked \cup {f}
         /\ UNCHANGED <<blobs, delivered>>
      \/ /\ f.total > 1 /\ \A n \in 0..(f.total - 1) : \E g \in chunks : g.n = n
         /\ chunked' = chunked \ chunks
         /\ blobs' = blobs \cup {f.msg}
         /\ UNCHANGED delivered
  BY <1>2, <1>3 DEF Message
<1>8. Range(Append(delivered, f.msg)) = Range(delivered) \cup {f.msg}
  BY <1>1, <1>6, RangeAppend
<1>9. /\ Range(net') \cup chunked' \subseteq Range(net) \cup chunked
      /\ Range(net') \cap chunked' = {}
  BY <1>2, <1>4, <1>6, <1>7 DEF DeliveryInv, NetInv
<1>10. Landed' = Landed
       \/ /\ Landed' = Landed \cup {f.msg}
          /\ \A n \in 0..(f.total - 1) : \E g \in chunks : g.n = n
          /\ \A g \in chunks : g \notin Range(net') \cup chunked'
  <2>1. CASE f.total = 1 /\ delivered' = Append(delivered, f.msg) /\ UNCHANGED <<chunked, blobs>>
    <3>1. Landed' = Landed \cup {f.msg}
      BY <1>8, <2>1 DEF Landed
    <3>2. f.n = 0 /\ f \in chunks
      BY <1>3, <1>6, <2>1 DEF Proper
    <3>3. ASSUME NEW g \in chunks PROVE g = f
      <4>1. g = f \/ (g \in chunked /\ g.msg = f.msg)
        BY <1>3, <3>3
      <4>2. ASSUME g \in chunked, g.msg = f.msg PROVE g = f
        <5>1. Proper(g) /\ g \in Frame
          BY <1>1, <4>2 DEF DeliveryInv, NetInv
        <5>2. g.n = 0
          BY <2>1, <4>2, <5>1, <1>6 DEF Proper, Frame
        <5> QED BY <1>6, <3>2, <4>2, <5>1, <5>2, SameFrame
      <4> QED BY <4>1, <4>2
    <3>4. f \notin Range(net') \cup chunked'
      BY <1>4, <1>6, <2>1
    <3> QED BY <2>1, <3>1, <3>2, <3>3, <3>4
  <2>2. CASE f.total > 1 /\ UNCHANGED <<blobs, delivered>>
    BY <2>2 DEF Landed
  <2>3. CASE /\ \A n \in 0..(f.total - 1) : \E g \in chunks : g.n = n
             /\ chunked' = chunked \ chunks
             /\ blobs' = blobs \cup {f.msg}
             /\ UNCHANGED delivered
    <3>1. Landed' = Landed \cup {f.msg}
      BY <2>3 DEF Landed
    <3>2. \A g \in chunks : g \notin Range(net')
      BY <1>3, <1>4 DEF DeliveryInv, NetInv
    <3> QED BY <2>3, <3>1, <3>2
  <2> QED BY <1>7, <2>1, <2>2, <2>3
<1>11. ASSUME Landed' # Landed
       PROVE  /\ \A g \in Range(Line) : f.msg < g.msg
              /\ \A g \in Range(net') \cup chunked' : g.msg # f.msg
  <2>1. /\ \A g \in Range(Line) : f.msg < g.msg
        /\ \A g \in Range(net) \cup chunked : g.msg = f.msg => g \in chunks
    BY <1>2, <1>3, <1>10, <1>11, WholeMessage
  <2> QED BY <1>9, <1>10, <1>11, <2>1
<1>12. LineInv'
  <2>1. \A g \in Range(Line) : \A id \in Landed' : id < g.msg
    BY <1>10, <1>11 DEF DeliveryInv, LineInv
  <2>2. \A g \in Range(Line) : Proper(g)' /\ \A h \in Range(net') \cup chunked' : Before(h, g)
    BY <1>5, <1>9 DEF DeliveryInv, LineInv
  <2>3. Sorted(Line') /\ Range(Line') = Range(Line) /\ (tx' = "closed" => channel' = <<>>)
    BY <1>5 DEF DeliveryInv, LineInv
  <2> QED BY <2>1, <2>2, <2>3 DEF LineInv
<1>13. NetInv'
  <2>1. \A g \in Range(net') \cup chunked' : Proper(g)' /\ g.msg \notin Landed'
    BY <1>5, <1>9, <1>10, <1>11 DEF DeliveryInv, NetInv
  <2>2. ordered' => Sorted(net')
    BY <1>4, <1>5 DEF DeliveryInv, NetInv
  <2> QED BY <1>4, <1>9, <2>1, <2>2 DEF NetInv
<1>14. LandedInv'
  <2>1. Landed' \subseteq DOMAIN accepted'
    BY <1>5, <1>6, <1>10 DEF DeliveryInv, LandedInv, Proper
  <2>2. blobs' \cap Range(delivered') = {} /\ \A id \in blobs' : accepted[id] # 1
    <3>1. blobs \cap Range(delivered) = {} /\ \A id \in blobs : accepted[id] # 1
      BY DEF DeliveryInv, LandedInv
    <3>2. f.msg \notin blobs /\ f.msg \notin Range(delivered) /\ accepted[f.msg] = f.total
      BY <1>6 DEF Landed, Proper
    <3>3. CASE f.total = 1 /\ delivered' = Append(delivered, f.msg) /\ UNCHANGED <<chunked, blobs>>
      BY <1>8, <3>1, <3>2, <3>3
    <3>4. CASE UNCHANGED <<blobs, delivered>>
      BY <3>1, <3>4
    <3>5. CASE f.total > 1 /\ blobs' = blobs \cup {f.msg} /\ UNCHANGED delivered
      BY <1>6, <3>1, <3>2, <3>5
    <3> QED BY <1>7, <3>3, <3>4, <3>5
  <2> QED BY <1>5, <2>1, <2>2 DEF LandedInv
<1>15. SmallInv'
  <2> SUFFICES ASSUME NEW id \in DOMAIN accepted, accepted[id] = 1
               PROVE  \/ id \in Range(delivered')
                      \/ SmallFrame(id) \in Range(net')
                      \/ /\ \A g \in Range(net') : g.msg < id
                         /\ tx = "closed" \/ SmallFrame(id) \in Range(Line)
    BY <1>5 DEF SmallInv
  <2>1. \/ id \in Range(delivered)
        \/ SmallFrame(id) \in Range(net)
        \/ /\ \A g \in Range(net) : g.msg < id
           /\ tx = "closed" \/ SmallFrame(id) \in Range(Line)
    BY DEF DeliveryInv, SmallInv
  <2>2. Range(delivered) \subseteq Range(delivered')
    BY <1>7, <1>8
  <2>3. f = SmallFrame(id) => id \in Range(delivered')
    <3>1. f = SmallFrame(id) => f.total = 1 /\ f.msg = id
      BY DEF SmallFrame
    <3>2. f.total = 1 => delivered' = Append(delivered, f.msg)
      BY <1>6, <1>7
    <3> QED BY <1>8, <3>1, <3>2
  <2> QED BY <1>4, <2>1, <2>2, <2>3
<1> QED BY <1>12, <1>13, <1>14, <1>15 DEF DeliveryInv

\* A blob that has been read is given to the page.
LEMMA BlobReadDelivery ==
  ASSUME ReceiverTyped, DeliveryInv, NEW id \in blobs, BlobRead(id)
  PROVE  DeliveryInv'
<1>1. /\ blobs' = blobs \ {id} /\ delivered' = Append(delivered, id)
      /\ UNCHANGED <<ordered, tx, accepted, channel, buffer, reading, queue, net, chunked>>
  BY DEF BlobRead
<1>2. Range(delivered') = Range(delivered) \cup {id}
  BY <1>1, RangeAppend DEF ReceiverTyped
<1>3. Landed' = Landed
  BY <1>1, <1>2 DEF Landed
<1>4. Line' = Line /\ \A g : Proper(g) <=> Proper(g)'
  BY <1>1 DEF Line, Proper
<1>5. LineInv'
  BY <1>1, <1>3, <1>4 DEF DeliveryInv, LineInv
<1>6. NetInv'
  BY <1>1, <1>3, <1>4 DEF DeliveryInv, NetInv
<1>7. LandedInv'
  BY <1>1, <1>2, <1>3 DEF DeliveryInv, LandedInv
<1>8. SmallInv'
  BY <1>1, <1>2, <1>4 DEF DeliveryInv, SmallInv
<1> QED BY <1>5, <1>6, <1>7, <1>8 DEF DeliveryInv

\* Nothing else of the receiver moves a frame, except that close drops the chunks.
LEMMA RestDelivery ==
  ASSUME DeliveryInv, chunked' \subseteq chunked, tx' = "closed" <=> tx = "closed",
         UNCHANGED <<ordered, accepted, channel, buffer, reading, queue, net, blobs, delivered>>
  PROVE  DeliveryInv'
<1>1. Line' = Line /\ Landed' = Landed /\ \A g : Proper(g) <=> Proper(g)'
  BY DEF Line, Landed, Proper
<1>2. LineInv'
  BY <1>1 DEF DeliveryInv, LineInv
<1>3. NetInv'
  BY <1>1 DEF DeliveryInv, NetInv
<1>4. LandedInv' /\ SmallInv'
  BY <1>1 DEF DeliveryInv, LandedInv, SmallInv
<1> QED BY <1>2, <1>3, <1>4 DEF DeliveryInv

-----------------------------------------------------------------------------
(* Every step.                                                             *)

\* A page's click moves the line, or nothing.
LEMMA ClickDelivery ==
  ASSUME PageTyped, SenderTyped, SenderTyped', SenderInv, DeliveryInv,
         NEW size \in Sizes, Click(size)
  PROVE  DeliveryInv'
<1>1. UNCHANGED <<ordered, net, rxVars>>
  BY DEF Click
<1>2. CASE tx = "open" /\ Send(size)
  <2>1. /\ accepted' = Append(accepted, size)
        /\ Frames(Len(accepted) + 1, size) \in Seq(Frame)
        /\ Moves(Frames(Len(accepted) + 1, size))
    BY <1>2, SendMoves
  <2> QED BY <1>1, <2>1, LineMoves
<1>3. CASE /\ tx = "none" /\ tx' = "opening"
           /\ UNCHANGED <<accVars, encVars, bufVars, dcVars>>
  BY <1>1, <1>3, RestDelivery
<1>4. CASE UNCHANGED <<tx, accVars, encVars, bufVars, dcVars>>
  BY <1>1, <1>4, RestDelivery
<1> QED BY <1>2, <1>3, <1>4 DEF Click

\* Every step keeps every part.
LEMMA DeliveryStep == Inv /\ Inv' /\ DeliveryInv /\ [Next]_vars => DeliveryInv'
<1> SUFFICES ASSUME Inv, Inv', DeliveryInv, [Next]_vars PROVE DeliveryInv'
  OBVIOUS
<1>1. PageTyped /\ SenderTyped /\ ReceiverTyped /\ SenderInv /\ SenderTyped'
  BY DEF Inv
<1>2. ASSUME accepted' = accepted, UNCHANGED <<ordered, net, rxVars>>, Moves(<<>>)
      PROVE  DeliveryInv'
  BY <1>1, <1>2, LineMoves, <<>> \in Seq(Frame)
<1>3. ASSUME NEW size \in Sizes, Click(size) PROVE DeliveryInv'
  BY <1>1, <1>3, ClickDelivery
<1>4. CASE Opens
  <2>1. tx = "opening" /\ Send(first[1]) /\ UNCHANGED <<ordered, net, rxVars>>
    BY <1>4 DEF Opens
  <2>2. first[1] \in Sizes
    <3>1. first \in Seq(Sizes) /\ Len(first) = 1
      BY <1>1, <2>1 DEF PageTyped
    <3> QED BY <3>1
  <2>3. PICK size \in Sizes : Send(size)
    BY <2>1, <2>2
  <2>4. /\ accepted' = Append(accepted, size)
        /\ Frames(Len(accepted) + 1, size) \in Seq(Frame)
        /\ Moves(Frames(Len(accepted) + 1, size))
    BY <1>1, <2>1, <2>3, SendMoves
  <2> QED BY <1>1, <2>1, <2>4, LineMoves
<1>5. CASE Encoded
  <2>1. accepted' = accepted /\ UNCHANGED <<ordered, net, rxVars>>
    BY <1>5 DEF Encoded
  <2> QED BY <1>1, <1>2, <1>5, <2>1, EncodedMoves
<1>6. CASE EncodingFails
  <2>1. accepted' = accepted /\ UNCHANGED <<ordered, net, rxVars>> /\ CloseTx(<<>>)
    BY <1>6 DEF EncodingFails
  <2> QED BY <1>2, <2>1, CloseMoves, <<>> \in Seq(Frame)
<1>7. CASE TimerFires
  <2>1. accepted' = accepted /\ UNCHANGED <<ordered, net, rxVars>>
    BY <1>7 DEF TimerFires
  <2> QED BY <1>1, <1>2, <1>7, <2>1, TimerMoves
<1>8. CASE TxCloses
  <2>1. accepted' = accepted /\ UNCHANGED <<ordered, net, rxVars>> /\ CloseTx(<<>>)
    BY <1>8 DEF TxCloses
  <2> QED BY <1>2, <2>1, CloseMoves, <<>> \in Seq(Frame)
<1>9. CASE Transmit
  BY <1>1, <1>9, TransmitDelivery
<1>10. CASE RxOpens
  BY <1>10, RestDelivery DEF RxOpens
<1>11. CASE RxCloses
  <2>1. chunked' \subseteq chunked
    BY <1>11 DEF RxCloses
  <2> QED BY <1>11, <2>1, RestDelivery DEF RxCloses
<1>12. ASSUME NEW i \in DOMAIN net, Message(i) PROVE DeliveryInv'
  BY <1>1, <1>12, MessageDelivery
<1>13. ASSUME NEW id \in blobs, BlobRead(id) PROVE DeliveryInv'
  BY <1>1, <1>13, BlobReadDelivery
<1>14. CASE UNCHANGED vars
  BY <1>14, RestDelivery DEF vars
<1> QED BY <1>3, <1>4, <1>5, <1>6, <1>7, <1>8, <1>9, <1>10, <1>11, <1>12, <1>13, <1>14 DEF Next

\* Every part holds in every state.
LEMMA DeliveryAlways == Spec => [](Inv /\ DeliveryInv)
<1>1. Init => DeliveryInv
  <2> SUFFICES ASSUME Init PROVE DeliveryInv
    OBVIOUS
  <2>1. /\ channel = <<>> /\ buffer = <<>> /\ reading = <<>> /\ queue = <<>> /\ net = <<>>
        /\ delivered = <<>> /\ accepted = <<>> /\ chunked = {} /\ blobs = {}
    BY DEF Init
  <2>2. <<>> \o (<<>> \o (<<>> \o <<>>)) = <<>>
    OBVIOUS
  <2>3. Line = <<>>
    BY <2>1, <2>2 DEF Line
  <2>4. DOMAIN <<>> = {} /\ Range(<<>>) = {}
    BY DEF Range
  <2>5. LineInv /\ NetInv /\ LandedInv /\ SmallInv
    BY <2>1, <2>3, <2>4 DEF LineInv, NetInv, LandedInv, SmallInv, Landed, Sorted
  <2> QED BY <2>5 DEF DeliveryInv
<1> QED BY <1>1, DeliveryStep, InvAlways, PTL DEF Spec

-----------------------------------------------------------------------------
(* The theorems.                                                           *)

\* Whatever the sizes, the limit, the order of the frames and the browser's encoding: a
\* message that is given to the page, or read for it, is whole, and nothing of it is left
\* in the connection.
THEOREM DeliveriesAreWhole == Spec => []DeliveredWhole
<1>1. Inv /\ DeliveryInv => DeliveredWhole
  <2> SUFFICES ASSUME Inv, DeliveryInv, NEW id \in Landed,
                      NEW f \in chunked \cup Range(net \o channel \o buffer \o reading \o queue)
               PROVE  f.msg # id
    BY DEF DeliveredWhole, Landed
  <2>1. /\ net \in Seq(Frame) /\ channel \in Seq(Frame) /\ buffer \in Seq(Frame)
        /\ reading \in Seq(Frame) /\ queue \in Seq(Frame)
    BY DEF Inv, SenderTyped, ReceiverTyped
  <2>2. Range(net \o channel \o buffer \o reading \o queue) = Range(net) \cup Range(Line)
    <3>1. PICK a \in Seq(Frame), b \in Seq(Frame), c \in Seq(Frame), d \in Seq(Frame),
               e \in Seq(Frame) :
              a = net /\ b = channel /\ c = buffer /\ d = reading /\ e = queue
      BY <2>1
    <3>2. ASSUME NEW s \in Seq(Frame), NEW t \in Seq(Frame)
          PROVE  \E u \in Seq(Frame) : u = s \o t /\ Range(u) = Range(s) \cup Range(t)
      <4>1. s \o t \in Seq(Frame) /\ Range(s \o t) = Range(s) \cup Range(t)
        BY RangeConcat
      <4> QED BY ONLY <4>1, Zenon
    <3>3. PICK ab \in Seq(Frame) : ab = a \o b /\ Range(ab) = Range(a) \cup Range(b)
      BY <3>2
    <3>4. PICK abc \in Seq(Frame) : abc = ab \o c /\ Range(abc) = Range(ab) \cup Range(c)
      BY <3>2
    <3>5. PICK abcd \in Seq(Frame) : abcd = abc \o d /\ Range(abcd) = Range(abc) \cup Range(d)
      BY <3>2
    <3>6. PICK all \in Seq(Frame) : all = abcd \o e /\ Range(all) = Range(abcd) \cup Range(e)
      BY <3>2
    <3>7. PICK de \in Seq(Frame) : de = d \o e /\ Range(de) = Range(d) \cup Range(e)
      BY <3>2
    <3>8. PICK cde \in Seq(Frame) : cde = c \o de /\ Range(cde) = Range(c) \cup Range(de)
      BY <3>2
    <3>9. PICK bcde \in Seq(Frame) : bcde = b \o cde /\ Range(bcde) = Range(b) \cup Range(cde)
      BY <3>2
    <3>10. Range(all) = Range(a) \cup Range(bcde)
      BY ONLY <3>3, <3>4, <3>5, <3>6, <3>7, <3>8, <3>9
    <3> QED BY ONLY <3>1, <3>3, <3>4, <3>5, <3>6, <3>7, <3>8, <3>9, <3>10 DEF Line
  <2>3. CASE f \in Range(net) \cup chunked
    BY <2>3 DEF DeliveryInv, NetInv
  <2>4. CASE f \in Range(Line)
    <3>1. id < f.msg /\ f \in Frame
      <4>1. Line \in Seq(Frame)
        BY <2>1, FourTyped DEF Line
      <4> QED BY <2>4, <4>1, RangeTyped DEF DeliveryInv, LineInv
    <3> QED BY <3>1 DEF Frame
  <2> QED BY <2>2, <2>3, <2>4
<1> QED BY <1>1, DeliveryAlways, PTL

-----------------------------------------------------------------------------
(* The connection implements Courier.                                      *)

\* To take a message is to put it behind those taken before.
LEMMA SendTakes ==
  ASSUME PageTyped, NEW size \in Sizes, Send(size), UNCHANGED <<delivered, ordered>>
  PROVE  Courier!Take
<1>1. accepted' = Append(accepted, size) /\ accepted \in Seq(Sizes)
  BY DEF Send, PageTyped
<1>2. ASSUME NEW s \in Seq(Sizes)
      PROVE  Len(Append(s, size)) = Len(s) + 1 /\ SubSeq(Append(s, size), 1, Len(s)) = s
  OBVIOUS
<1>3. Len(accepted') = Len(accepted) + 1 /\ SubSeq(accepted', 1, Len(accepted)) = accepted
  BY ONLY <1>1, <1>2
<1> QED BY <1>3 DEF Courier!Take

\* On an ordered channel the small messages accepted before one that is at the head of the
\* network have come.
LEMMA EarlierHaveCome ==
  ASSUME PageTyped, ReceiverTyped, DeliveryInv, ordered, 1 \in DOMAIN net,
         NEW id \in DOMAIN accepted, id < net[1].msg, accepted[id] = 1
  PROVE  id \in Range(delivered)
<1>1. id \in Nat
  BY DEF PageTyped
<1>2. PICK f \in Frame : f = net[1] /\ f \in Range(net)
  BY RangeTyped DEF ReceiverTyped, Range
<1>3. ~(\A g \in Range(net) : g.msg < id)
  <2>1. ASSUME f.msg < id PROVE FALSE
    BY <1>1, <1>2, <2>1 DEF Frame
  <2> QED BY <1>2, <2>1
<1>4. SmallFrame(id) \notin Range(net)
  <2>1. ASSUME NEW p \in DOMAIN net, net[p] = SmallFrame(id) PROVE FALSE
    <3>1. SmallFrame(id).msg = id
      BY DEF SmallFrame
    <3>2. p # 1
      BY <1>2, <2>1, <3>1 DEF Frame
    <3>3. 1 < p
      BY <3>2 DEF ReceiverTyped
    <3>4. Before(f, SmallFrame(id))
      BY <1>2, <2>1, <3>3 DEF DeliveryInv, NetInv, Sorted
    <3> QED BY <1>1, <1>2, <3>1, <3>4 DEF Before, Frame
  <2> QED BY <2>1 DEF Range
<1> QED BY <1>3, <1>4 DEF DeliveryInv, SmallInv

\* Every step of the connection takes a message, gives one, or does nothing that the pages
\* could tell.
LEMMA CourierStep ==
  Inv /\ DeliveryInv /\ [Next]_vars => [Courier!Next]_(Courier!vars)
<1> SUFFICES ASSUME Inv, DeliveryInv, [Next]_vars PROVE [Courier!Next]_(Courier!vars)
  OBVIOUS
<1>1. PageTyped /\ SenderTyped /\ ReceiverTyped /\ SenderInv
  BY DEF Inv
<1> DEFINE Still == UNCHANGED <<accepted, delivered, ordered>>
<1>2. ASSUME Still PROVE UNCHANGED Courier!vars
  BY <1>2 DEF Courier!vars
<1>3. ASSUME NEW size \in Sizes, Click(size) PROVE Still \/ Courier!Next
  <2>1. UNCHANGED <<delivered, ordered>>
    BY <1>3 DEF Click
  <2>2. CASE Send(size)
    BY <1>1, <2>1, <2>2, SendTakes DEF Courier!Next
  <2>3. CASE UNCHANGED accVars
    BY <2>1, <2>3
  <2> QED BY <1>3, <2>2, <2>3 DEF Click
<1>4. ASSUME Opens PROVE Courier!Next
  <2>1. tx = "opening" /\ Send(first[1]) /\ UNCHANGED <<delivered, ordered>>
    BY <1>4 DEF Opens
  <2>2. first[1] \in Sizes
    <3>1. first \in Seq(Sizes) /\ Len(first) = 1
      BY <1>1, <2>1 DEF PageTyped
    <3> QED BY <3>1
  <2>3. PICK size \in Sizes : Send(size)
    BY <2>1, <2>2
  <2> QED BY <1>1, <2>1, <2>3, SendTakes DEF Courier!Next
<1>5. ASSUME \/ Encoded \/ EncodingFails \/ TimerFires \/ TxCloses
             \/ Transmit \/ RxOpens \/ RxCloses \/ UNCHANGED vars
      PROVE  Still
  <2>1. Encoded \/ EncodingFails \/ TimerFires \/ TxCloses => Still
    BY DEF Encoded, EncodingFails, TimerFires, TxCloses
  <2>2. Transmit \/ RxOpens \/ RxCloses \/ UNCHANGED vars => Still
    BY DEF Transmit, RxOpens, RxCloses, vars
  <2> QED BY <1>5, <2>1, <2>2
<1>6. ASSUME NEW i \in DOMAIN net, Message(i) PROVE Still \/ Courier!Next
  <2>1. PICK f \in Frame : f = net[i] /\ f \in Range(net)
    BY <1>1, RemoveTyped DEF ReceiverTyped, Range
  <2>2. /\ Proper(f) /\ f.msg \notin Range(delivered)
        /\ f.msg \in DOMAIN accepted /\ f.total = accepted[f.msg]
    BY <2>1 DEF DeliveryInv, NetInv, Proper, Landed
  <2>3. /\ UNCHANGED <<accepted, ordered>> /\ (ordered => i = 1)
        /\ \/ f.total = 1 /\ delivered' = Append(delivered, f.msg)
           \/ UNCHANGED delivered
    BY <1>6, <2>1 DEF Message
  <2>4. ASSUME f.total = 1, delivered' = Append(delivered, f.msg) PROVE Courier!Give(f.msg)
    <3>1. ASSUME ordered, NEW j \in 1..(f.msg - 1), accepted[j] \in {1}
          PROVE  j \in Range(delivered)
      <4>1. j < f.msg /\ j \in DOMAIN accepted
        BY <1>1, <2>2 DEF PageTyped, Frame
      <4>2. i = 1 /\ f = net[1]
        BY <2>1, <2>3, <3>1
      <4> QED BY <1>1, <3>1, <4>1, <4>2, EarlierHaveCome
    <3> QED BY <2>2, <2>3, <2>4, <3>1 DEF Courier!Give, Courier!Given, Range
  <2> QED BY <2>2, <2>3, <2>4 DEF Courier!Next
<1>7. ASSUME NEW id \in blobs, BlobRead(id) PROVE Courier!Next
  <2>1. /\ id \in DOMAIN accepted /\ accepted[id] # 1 /\ id \notin Range(delivered)
    BY DEF DeliveryInv, LandedInv, Landed
  <2>2. delivered' = Append(delivered, id) /\ UNCHANGED <<accepted, ordered>>
    BY <1>7 DEF BlobRead
  <2>3. Courier!Give(id)
    BY <2>1, <2>2 DEF Courier!Give, Courier!Given, Range
  <2> QED BY <2>1, <2>3 DEF Courier!Next
<1> QED BY <1>2, <1>3, <1>4, <1>5, <1>6, <1>7 DEF Next

\* Every accepted message reaches the other page at most once, and small ones in their order
\* on an ordered channel, whatever waits where: the connection implements Courier.
THEOREM LinkImplementsCourier == Spec => CourierSpec
<1>1. Init => Courier!Init
  BY DEF Init, Courier!Init
<1>2. Init /\ [](Inv /\ DeliveryInv) /\ [][Next]_vars
          => Courier!Init /\ [][Courier!Next]_(Courier!vars)
  BY <1>1, CourierStep, PTL
<1> QED BY <1>2, DeliveryAlways, PTL DEF Spec, CourierSpec, Courier!Spec
=============================================================================
