--------------------------- MODULE DataLinkProofs ---------------------------
(***************************************************************************)
(* Proofs about DataLink for any sizes of messages, any limit and any      *)
(* number of messages: types, and the way of the frames from send to the   *)
(* channel.                                                                *)
(***************************************************************************)
EXTENDS DataLink, SequenceTheorems, TLAPS

USE DEF modeVars, pageVars, accVars, encVars, bufVars, dcVars, rxVars

-----------------------------------------------------------------------------
(* Sequences of frames.                                                    *)

\* A sequence is its first elements and the rest.
LEMMA Halves ==
  ASSUME NEW fs \in Seq(Frame), NEW k \in 0..Len(fs)
  PROVE  /\ SubSeq(fs, 1, k) \in Seq(Frame) /\ SubSeq(fs, k + 1, Len(fs)) \in Seq(Frame)
         /\ SubSeq(fs, 1, k) \o SubSeq(fs, k + 1, Len(fs)) = fs
         /\ k = Len(fs) => SubSeq(fs, k + 1, Len(fs)) = <<>>
<1>1. SubSeq(fs, 1, k) \in Seq(Frame) /\ SubSeq(fs, k + 1, Len(fs)) \in Seq(Frame)
  OBVIOUS
<1>2. SubSeq(fs, 1, k) \o SubSeq(fs, k + 1, Len(fs)) = SubSeq(fs, 1, Len(fs))
  <2>1. /\ Len(fs) \in Nat /\ 1 \in 1..(Len(fs) + 1)
        /\ k \in (1 - 1)..Len(fs) /\ Len(fs) \in k..Len(fs)
    OBVIOUS
  <2> QED BY ONLY <2>1, fs \in Seq(Frame), ConcatAdjacentSubSeq
<1>3. SubSeq(fs, 1, Len(fs)) = fs
  BY SubSeqFull
<1>4. k = Len(fs) => SubSeq(fs, k + 1, Len(fs)) = <<>>
  BY SubSeqEmpty
<1> QED BY <1>1, <1>2, <1>3, <1>4

\* A sequence that is not empty is its head and its tail.
LEMMA HeadAndTail ==
  ASSUME NEW fs \in Seq(Frame), fs # <<>>
  PROVE  Head(fs) \in Frame /\ Tail(fs) \in Seq(Frame) /\ <<Head(fs)>> \o Tail(fs) = fs
<1>1. Head(fs) \in Frame /\ Tail(fs) \in Seq(Frame)
  OBVIOUS
<1>2. <<Head(fs)>> \in Seq(Frame)
  BY <1>1
<1> QED BY <1>1, <1>2

\* What follows does not matter for a prefix.
LEMMA PrefixOfConcat ==
  ASSUME NEW s \in Seq(Frame), NEW t \in Seq(Frame)
  PROVE  IsPrefix(s, s \o t)
<1>1. s \o t \in Seq(Frame) /\ Len(s \o t) = Len(s) + Len(t)
  OBVIOUS
<1>2. SubSeq(s, 1, Len(s)) = SubSeq(s \o t, 1, Len(s))
  BY <1>1
<1> QED BY <1>1, <1>2 DEF IsPrefix

\* A prefix stays one when the sequence grows.
LEMMA PrefixGrows ==
  ASSUME NEW s \in Seq(Frame), NEW t \in Seq(Frame), NEW u \in Seq(Frame), IsPrefix(s, t)
  PROVE  IsPrefix(s, t \o u)
<1>1. t \o u \in Seq(Frame) /\ Len(t \o u) = Len(t) + Len(u) /\ Len(s) <= Len(t)
  BY DEF IsPrefix
<1>2. SubSeq(t, 1, Len(s)) = SubSeq(t \o u, 1, Len(s))
  BY <1>1
<1> QED BY <1>1, <1>2 DEF IsPrefix

-----------------------------------------------------------------------------
(* What every step keeps, in three parts: the modes and the page, the       *)
(* sender, the receiver.                                                   *)

PageTyped ==
    /\ ordered \in BOOLEAN /\ binaryBlob \in BOOLEAN
    /\ clicks \in Nat /\ first \in Seq(Sizes) /\ (tx # "none" => Len(first) = 1)
    /\ accepted \in Seq(Sizes) /\ sent \in Seq(Frame)

SenderTyped ==
    /\ tx \in {"none", "opening", "open", "closed"}
    /\ queue \in Seq(Frame) /\ reading \in Seq(Frame) /\ Len(reading) <= 1
    /\ buffer \in Seq(Frame) /\ buffering \in BOOLEAN /\ timer \in BOOLEAN
    /\ handed \in Seq(Frame) /\ channel \in Seq(Frame)

ReceiverTyped ==
    /\ net \in Seq(Frame)
    /\ rx \in {"none", "open", "closed"}
    /\ chunked \subseteq Frame /\ blobs \subseteq Nat /\ delivered \in Seq(Nat)

\* What has been sent and not handed to the channel yet.
Waiting == buffer \o (reading \o queue)

\* The way of the frames. Before the connection is open there are none; then they are in
\* order, wait in _buffer only while it is buffering, and in the queue only behind one that
\* is read; a browser that sends blobs encodes nothing.
SenderInv ==
    /\ tx \in {"none", "opening"} =>
           /\ sent = <<>> /\ handed = <<>> /\ buffer = <<>>
           /\ ~buffering /\ ~timer
    /\ tx = "open" =>
           /\ handed \o Waiting = sent
           /\ (buffering <=> timer) /\ (buffer # <<>> => timer)
    /\ reading = <<>> => queue = <<>>
    /\ tx # "open" \/ binaryBlob => reading = <<>>
    /\ IsPrefix(handed, sent)

\* The initial state has all parts.
LEMMA InvInit == Init => PageTyped /\ SenderTyped /\ ReceiverTyped /\ SenderInv
<1> SUFFICES ASSUME Init PROVE PageTyped /\ SenderTyped /\ ReceiverTyped /\ SenderInv
  OBVIOUS
<1>1. PageTyped /\ ReceiverTyped
  BY DEF Init, PageTyped, ReceiverTyped
<1>2. SenderTyped
  <2>1. /\ queue \in Seq(Frame) /\ reading \in Seq(Frame) /\ Len(reading) <= 1
        /\ buffer \in Seq(Frame) /\ handed \in Seq(Frame) /\ channel \in Seq(Frame)
    BY DEF Init
  <2>2. tx = "none" /\ buffering = FALSE /\ timer = FALSE
    BY DEF Init
  <2> QED BY <2>1, <2>2 DEF SenderTyped
<1>3. IsPrefix(handed, sent)
  BY DEF Init, IsPrefix
<1>4. SenderInv
  BY <1>3 DEF Init, SenderInv
<1> QED BY <1>1, <1>2, <1>4

\* The chunks of a message are frames.
LEMMA FramesTyped ==
  ASSUME NEW id \in Nat \ {0}, NEW size \in Sizes
  PROVE  Frames(id, size) \in Seq(Frame) /\ Frames(id, size) # <<>>
         /\ Len(Frames(id, size)) = size
<1>1. size \in Nat \ {0}
  BY LinkAssumption
<1>2. \A i \in 1..size : [msg |-> id, n |-> i - 1, total |-> size] \in Frame
  BY <1>1 DEF Frame
<1> DEFINE fs == [i \in 1..size |-> [msg |-> id, n |-> i - 1, total |-> size]]
<1>3. fs \in [1..size -> Frame]
  BY <1>2
<1>4. fs \in Seq(Frame) /\ Len(fs) = size
  BY <1>1, <1>3
<1> QED BY <1>1, <1>4 DEF Frames

\* How many frames go to the channel at once.
LEMMA FitInside ==
  ASSUME SenderTyped, NEW fs \in Seq(Frame)
  PROVE  Fit(fs) \in 0..Len(fs)
<1>1. Room \in Nat
  BY LinkAssumption DEF SenderTyped, Room
<1> QED BY <1>1 DEF Fit

\* What closing leaves.
LEMMA CloseTyped ==
  ASSUME SenderTyped, NEW residue \in Seq(Frame), CloseTx(residue),
         handed' \in Seq(Frame), buffering' \in BOOLEAN, timer' \in BOOLEAN
  PROVE  SenderTyped' /\ tx' = "closed" /\ reading' = <<>> /\ queue' = <<>>
BY DEF SenderTyped, CloseTx

\* Concatenation associates.
LEMMA Assoc ==
  ASSUME NEW s \in Seq(Frame), NEW t \in Seq(Frame), NEW u \in Seq(Frame)
  PROVE  (s \o t) \o u = s \o (t \o u)
BY ConcatAssociative

\* Handing over the first frames of fs keeps the order of the whole.
LEMMA SplitKeepsOrder ==
  ASSUME NEW h \in Seq(Frame), NEW fs \in Seq(Frame), NEW x \in Seq(Frame),
         NEW k \in 0..Len(fs)
  PROVE  /\ h \o SubSeq(fs, 1, k) \in Seq(Frame)
         /\ (h \o SubSeq(fs, 1, k)) \o (SubSeq(fs, k + 1, Len(fs)) \o x) = h \o (fs \o x)
         /\ IsPrefix(h \o SubSeq(fs, 1, k), h \o (fs \o x))
<1>1. PICK a \in Seq(Frame), y \in Seq(Frame) :
          a = SubSeq(fs, 1, k) /\ y = SubSeq(fs, k + 1, Len(fs)) /\ a \o y = fs
  BY Halves
<1>2. y \o x \in Seq(Frame) /\ h \o a \in Seq(Frame)
  OBVIOUS
<1>3. (h \o a) \o (y \o x) = h \o (a \o (y \o x))
  <2>1. ASSUME NEW z \in Seq(Frame) PROVE (h \o a) \o z = h \o (a \o z)
    BY ONLY h \in Seq(Frame), a \in Seq(Frame), z \in Seq(Frame), Assoc, ZenonT(40)
  <2> QED BY ONLY <1>2, <2>1
<1>4. (a \o y) \o x = a \o (y \o x)
  BY ONLY a \in Seq(Frame), y \in Seq(Frame), x \in Seq(Frame), Assoc
<1>5. (h \o a) \o (y \o x) = h \o (fs \o x)
  BY ONLY <1>1, <1>3, <1>4
<1>6. IsPrefix(h \o a, (h \o a) \o (y \o x))
  BY ONLY <1>2, PrefixOfConcat
<1> QED BY ONLY <1>1, <1>2, <1>5, <1>6

\* Keeping them behind what waits does, too.
LEMMA KeepKeepsOrder ==
  ASSUME NEW h \in Seq(Frame), NEW w \in Seq(Frame), NEW fs \in Seq(Frame),
         NEW x \in Seq(Frame)
  PROVE  /\ h \o ((w \o fs) \o x) = h \o (w \o (fs \o x))
         /\ IsPrefix(h, h \o (w \o (fs \o x)))
<1>1. (w \o fs) \o x = w \o (fs \o x)
  BY Assoc
<1>2. w \o (fs \o x) \in Seq(Frame)
  OBVIOUS
<1>3. IsPrefix(h, h \o (w \o (fs \o x)))
  BY <1>2, PrefixOfConcat
<1> QED BY ONLY <1>1, <1>3

\* _bufferedSend hands over or keeps the frames in their order, and arms the timer when it
\* keeps one.
LEMMA BufferedSendInv ==
  ASSUME SenderTyped, (buffering <=> timer) /\ (buffer # <<>> => timer),
         NEW fs \in Seq(Frame), NEW nr \in Seq(Frame), Len(nr) <= 1, NEW nq \in Seq(Frame),
         NEW x \in Seq(Frame),
         BufferedSend(fs, nr, nq)
  PROVE  /\ SenderTyped'
         /\ IsPrefix(handed', handed \o (buffer \o (fs \o x)))
         /\ \/ tx' = "closed" /\ reading' = <<>> /\ queue' = <<>>
            \/ /\ tx' = "open" /\ reading' = nr /\ queue' = nq
               /\ handed' \o (buffer' \o x) = handed \o (buffer \o (fs \o x))
               /\ (buffering' <=> timer') /\ (buffer' # <<>> => timer')
<1>1. handed \in Seq(Frame) /\ buffer \in Seq(Frame)
  BY DEF SenderTyped
<1>2. CASE /\ buffering /\ buffer' = buffer \o fs
           /\ reading' = nr /\ queue' = nq /\ tx' = "open"
           /\ UNCHANGED <<buffering, timer, dcVars>>
  <2>1. SenderTyped'
    BY <1>2 DEF SenderTyped
  <2>2. /\ handed \o ((buffer \o fs) \o x) = handed \o (buffer \o (fs \o x))
        /\ IsPrefix(handed, handed \o (buffer \o (fs \o x)))
    BY <1>1, KeepKeepsOrder
  <2> QED BY <1>2, <2>1, <2>2
<1>3. ASSUME ~buffering PROVE buffer = <<>> /\ ~timer /\ buffer \o (fs \o x) = fs \o x
  <2>1. buffer = <<>> /\ ~timer
    BY <1>3
  <2>2. fs \o x \in Seq(Frame)
    OBVIOUS
  <2> QED BY <2>1, <2>2
<1>4. CASE ~buffering /\ tx' = "open" /\ HandOver(fs, Fit(fs))
           /\ buffer' = buffer \o SubSeq(fs, Fit(fs) + 1, Len(fs))
           /\ buffering' = (Fit(fs) < Len(fs)) /\ timer' = (timer \/ buffering')
           /\ reading' = nr /\ queue' = nq
  <2>1. Fit(fs) \in 0..Len(fs)
    BY FitInside
  <2>2. PICK k \in 0..Len(fs) : k = Fit(fs)
    BY <2>1
  <2>3. /\ SubSeq(fs, 1, k) \in Seq(Frame) /\ SubSeq(fs, k + 1, Len(fs)) \in Seq(Frame)
        /\ k = Len(fs) => SubSeq(fs, k + 1, Len(fs)) = <<>>
    BY Halves
  <2>4. buffer' = SubSeq(fs, k + 1, Len(fs))
    <3>1. buffer = <<>> /\ buffer' = buffer \o SubSeq(fs, k + 1, Len(fs))
      BY <1>3, <1>4, <2>2
    <3>2. \A z \in Seq(Frame) : <<>> \o z = z
      OBVIOUS
    <3> QED BY ONLY <2>3, <3>1, <3>2
  <2>5. handed' = handed \o SubSeq(fs, 1, k) /\ channel' = channel \o SubSeq(fs, 1, k)
    BY <1>4, <2>2 DEF HandOver
  <2>6. handed' \in Seq(Frame) /\ channel' \in Seq(Frame) /\ buffer' \in Seq(Frame)
    BY <2>3, <2>4, <2>5 DEF SenderTyped
  <2>7. SenderTyped'
    BY <1>3, <1>4, <2>6 DEF SenderTyped
  <2>8. /\ handed' \o (buffer' \o x) = handed \o (buffer \o (fs \o x))
        /\ IsPrefix(handed', handed \o (buffer \o (fs \o x)))
    <3>1. ASSUME NEW h \in Seq(Frame)
          PROVE  /\ (h \o SubSeq(fs, 1, k)) \o (SubSeq(fs, k + 1, Len(fs)) \o x)
                       = h \o (fs \o x)
                 /\ IsPrefix(h \o SubSeq(fs, 1, k), h \o (fs \o x))
      BY SplitKeepsOrder, ZenonT(40)
    <3>2. buffer \o (fs \o x) = fs \o x
      BY <1>3, <1>4
    <3> QED BY ONLY <1>1, <2>4, <2>5, <3>1, <3>2
  <2>9. buffer' # <<>> => buffering'
    <3>1. k < Len(fs) \/ k = Len(fs)
      OBVIOUS
    <3> QED BY <1>4, <2>2, <2>3, <2>4, <3>1
  <2> QED BY <1>3, <1>4, <2>7, <2>8, <2>9
<1>5. CASE ~buffering /\ timer' = timer /\ \E k \in 0..(Len(fs) - 1) : Throws(fs, k, <<fs[k + 1]>>)
  <2>1. PICK k \in 0..(Len(fs) - 1) : Throws(fs, k, <<fs[k + 1]>>)
    BY <1>5
  <2>2. k \in 0..Len(fs) /\ <<fs[k + 1]>> \in Seq(Frame)
    OBVIOUS
  <2>3. /\ handed' = handed \o SubSeq(fs, 1, k)
        /\ CloseTx(<<fs[k + 1]>>) /\ buffering' = TRUE
    BY <2>1 DEF Throws
  <2>4. handed' \in Seq(Frame) /\ IsPrefix(handed', handed \o (buffer \o (fs \o x)))
    <3>1. /\ handed \o SubSeq(fs, 1, k) \in Seq(Frame)
          /\ IsPrefix(handed \o SubSeq(fs, 1, k), handed \o (fs \o x))
      BY ONLY fs \in Seq(Frame), x \in Seq(Frame), <1>1, <2>2, SplitKeepsOrder
    <3>2. buffer \o (fs \o x) = fs \o x
      BY <1>3, <1>5
    <3> QED BY ONLY <2>3, <3>1, <3>2
  <2>5. timer' \in BOOLEAN
    BY <1>5 DEF SenderTyped
  <2>6. SenderTyped' /\ tx' = "closed" /\ reading' = <<>> /\ queue' = <<>>
    BY <2>2, <2>3, <2>4, <2>5, CloseTyped
  <2> QED BY <2>4, <2>6
<1> QED BY <1>2, <1>4, <1>5 DEF BufferedSend

\* A connection that opens is as empty as one that has sent everything.
LEMMA Flowing ==
  ASSUME SenderTyped, SenderInv, tx \in {"opening", "open"}
  PROVE  /\ handed \o (buffer \o (reading \o queue)) = sent
         /\ (buffering <=> timer) /\ (buffer # <<>> => timer)
<1>1. CASE tx = "open"
  BY <1>1 DEF SenderInv, Waiting
<1>2. CASE tx = "opening"
  <2>1. handed = <<>> /\ buffer = <<>> /\ reading = <<>> /\ queue = <<>> /\ sent = <<>>
    BY <1>2 DEF SenderInv
  <2>2. <<>> \o (<<>> \o (<<>> \o <<>>)) = <<>>
    OBVIOUS
  <2>3. ~buffering /\ ~timer
    BY <1>2 DEF SenderInv
  <2> QED BY <2>1, <2>2, <2>3
<1> QED BY <1>1, <1>2

\* send keeps the order, whether or not the browser encodes.
LEMMA SendInv ==
  ASSUME PageTyped, SenderTyped, SenderInv, tx \in {"opening", "open"},
         NEW size \in Sizes, Send(size), UNCHANGED <<modeVars, first>>, clicks' \in Nat
  PROVE  PageTyped' /\ SenderTyped' /\ SenderInv'
<1>1. PICK fs \in Seq(Frame) : fs = Frames(Len(accepted'), size) /\ fs # <<>>
  <2>1. Len(accepted') \in Nat \ {0}
    BY DEF Send, PageTyped
  <2> QED BY <2>1, FramesTyped
<1>2. accepted' \in Seq(Sizes) /\ sent' = sent \o fs
  BY <1>1 DEF Send, PageTyped
<1>3. handed \in Seq(Frame) /\ buffer \in Seq(Frame) /\ sent \in Seq(Frame)
      /\ reading \in Seq(Frame) /\ queue \in Seq(Frame) /\ Len(reading) <= 1
  BY DEF SenderTyped, PageTyped
<1>4. /\ handed \o (buffer \o (reading \o queue)) = sent
      /\ (buffering <=> timer) /\ (buffer # <<>> => timer)
  BY Flowing
<1>5. CASE binaryBlob
  <2>1. BufferedSend(fs, reading, queue)
    BY <1>1, <1>5 DEF Send
  <2>2. reading = <<>> /\ queue = <<>>
    BY <1>5 DEF SenderInv
  <2>3. <<>> \in Seq(Frame) /\ \A s \in Seq(Frame) : s \o <<>> = s
    OBVIOUS
  <2>4. /\ SenderTyped'
        /\ IsPrefix(handed', handed \o (buffer \o (fs \o <<>>)))
        /\ \/ tx' = "closed" /\ reading' = <<>> /\ queue' = <<>>
           \/ /\ tx' = "open" /\ reading' = <<>> /\ queue' = <<>>
              /\ handed' \o (buffer' \o <<>>) = handed \o (buffer \o (fs \o <<>>))
              /\ (buffering' <=> timer') /\ (buffer' # <<>> => timer')
    BY <1>3, <1>4, <2>1, <2>2, <2>3, BufferedSendInv
  <2>5. handed \o (buffer \o (fs \o <<>>)) = sent'
    <3> handed \in Seq(Frame) /\ buffer \in Seq(Frame)
      BY <1>3
    <3>1. (handed \o buffer) \o fs = handed \o (buffer \o fs)
      BY ONLY handed \in Seq(Frame), buffer \in Seq(Frame), fs \in Seq(Frame), Assoc, ZenonT(40)
    <3>2. fs \o <<>> = fs /\ <<>> \o <<>> = <<>> /\ buffer \o <<>> = buffer
      BY <1>3
    <3> QED BY ONLY <1>2, <1>4, <2>2, <3>1, <3>2
  <2>6. PageTyped'
    <3>1. tx' # "none" => Len(first') = 1
      BY DEF PageTyped
    <3> QED BY <1>2, <1>3, <3>1 DEF PageTyped
  <2>7. tx' = "open" => handed' \o Waiting' = sent'
    <3>1. <<>> \o <<>> = <<>>
      OBVIOUS
    <3> QED BY <2>4, <2>5, <3>1, Zenon DEF Waiting
  <2> QED BY <2>4, <2>5, <2>6, <2>7 DEF SenderInv
<1>6. CASE ~binaryBlob
  <2>1. Enque(fs)
    BY <1>1, <1>6 DEF Send
  <2>2. /\ reading' \in Seq(Frame) /\ queue' \in Seq(Frame) /\ Len(reading') <= 1
        /\ reading' # <<>> /\ reading' \o queue' = (reading \o queue) \o fs
    <3>1. CASE reading = <<>>
      <4>1. queue \o fs = fs /\ (reading \o queue) \o fs = fs
        BY <3>1 DEF SenderInv
      <4>2. reading' = <<Head(fs)>> /\ queue' = Tail(fs)
        BY <2>1, <3>1, <4>1 DEF Enque
      <4>3. Head(fs) \in Frame /\ Tail(fs) \in Seq(Frame) /\ <<Head(fs)>> \o Tail(fs) = fs
        BY <1>1, HeadAndTail
      <4> QED BY <4>1, <4>2, <4>3
    <3>2. CASE reading # <<>>
      <4>1. reading' = reading /\ queue' = queue \o fs
        BY <2>1, <3>2 DEF Enque
      <4>2. (reading \o queue) \o fs = reading \o (queue \o fs)
        <5> reading \in Seq(Frame) /\ queue \in Seq(Frame)
          BY <1>3
        <5> QED BY ONLY reading \in Seq(Frame), queue \in Seq(Frame), fs \in Seq(Frame),
                        Assoc, ZenonT(40)
      <4>4. queue \o fs \in Seq(Frame)
        BY <1>3
      <4> QED BY ONLY <1>3, <3>2, <4>1, <4>2, <4>4
    <3> QED BY <3>1, <3>2
  <2>3. tx' = "open" /\ UNCHANGED <<bufVars, dcVars>>
    BY <2>1 DEF Enque
  <2>4. SenderTyped'
    BY <2>2, <2>3 DEF SenderTyped
  <2>5. handed' \o Waiting' = sent'
    <3>1. PICK r \in Seq(Frame) : r = reading \o queue
      <4>1. reading \o queue \in Seq(Frame)
        BY <1>3
      <4> QED BY <4>1, Zenon
    <3>2. handed \o (buffer \o (r \o fs)) = (handed \o (buffer \o r)) \o fs
      <4>1. ASSUME NEW h \in Seq(Frame), NEW z \in Seq(Frame)
            PROVE  (h \o z) \o fs = h \o (z \o fs)
        BY Assoc, ZenonT(40)
      <4>2. buffer \o r \in Seq(Frame)
        BY <1>3
      <4>3. (buffer \o r) \o fs = buffer \o (r \o fs)
        BY <1>3, <4>1
      <4>4. (handed \o (buffer \o r)) \o fs = handed \o ((buffer \o r) \o fs)
        BY ONLY <1>3, <4>1, <4>2
      <4> QED BY ONLY <4>3, <4>4
    <3> QED BY ONLY <1>2, <1>4, <2>2, <2>3, <3>1, <3>2 DEF Waiting, bufVars, dcVars
  <2>6. IsPrefix(handed', sent')
    BY <1>2, <1>3, <2>3, PrefixGrows DEF SenderInv
  <2>7. PageTyped'
    <3>1. tx' # "none" => Len(first') = 1
      BY DEF PageTyped
    <3> QED BY <1>2, <1>3, <3>1 DEF PageTyped
  <2> QED BY <1>4, <1>6, <2>3, <2>4, <2>5, <2>6, <2>2, <2>7 DEF SenderInv
<1> QED BY <1>5, <1>6

\* Whatever ends the connection leaves the sender in order.
LEMMA CloseInv ==
  ASSUME PageTyped, SenderTyped, tx # "none",
         UNCHANGED <<modeVars, first, accVars>>, clicks' \in Nat,
         CloseTx(<<>>), handed' \in Seq(Frame), IsPrefix(handed', sent),
         buffering' \in BOOLEAN, timer' \in BOOLEAN
  PROVE  PageTyped' /\ SenderTyped' /\ SenderInv'
<1>1. SenderTyped' /\ tx' = "closed" /\ reading' = <<>> /\ queue' = <<>>
  BY CloseTyped, <<>> \in Seq(Frame)
<1>2. PageTyped'
  BY DEF PageTyped
<1>3. SenderInv'
  BY <1>1 DEF SenderInv
<1> QED BY <1>1, <1>2, <1>3

\* The timer hands over what waits from its beginning and is armed again for the rest.
LEMMA TimerInv ==
  ASSUME PageTyped, SenderTyped, SenderInv, TimerFires
  PROVE  PageTyped' /\ SenderTyped' /\ SenderInv'
<1>1. UNCHANGED <<modeVars, pageVars, accVars>> /\ timer
  BY DEF TimerFires
<1>2. /\ handed \in Seq(Frame) /\ buffer \in Seq(Frame) /\ sent \in Seq(Frame)
      /\ reading \in Seq(Frame) /\ queue \in Seq(Frame)
  BY DEF SenderTyped, PageTyped
<1>3. PICK x \in Seq(Frame) : x = reading \o queue
  <2>1. reading \o queue \in Seq(Frame)
    BY <1>2
  <2> QED BY <2>1, Zenon
<1>4. ASSUME tx = "open" PROVE handed \o (buffer \o x) = sent
  BY <1>3, <1>4 DEF SenderInv, Waiting
<1>5. ASSUME NEW h \in Seq(Frame), NEW w \in Seq(Frame), NEW k \in 0..Len(w)
      PROVE  /\ h \o SubSeq(w, 1, k) \in Seq(Frame)
             /\ (h \o SubSeq(w, 1, k)) \o (SubSeq(w, k + 1, Len(w)) \o x) = h \o (w \o x)
             /\ IsPrefix(h \o SubSeq(w, 1, k), h \o (w \o x))
  BY SplitKeepsOrder, ZenonT(40)
<1>6. PageTyped' \/ tx' = "none"
  BY <1>1 DEF PageTyped, TimerFires, CloseTx, Throws
<1>7. CASE /\ tx = "open" /\ HandOver(buffer, Fit(buffer))
           /\ buffer' = SubSeq(buffer, Fit(buffer) + 1, Len(buffer))
           /\ buffering' = (Fit(buffer) < Len(buffer)) /\ timer' = buffering'
           /\ UNCHANGED <<tx, encVars>>
  <2>1. PICK k \in 0..Len(buffer) : k = Fit(buffer)
    BY <1>2, FitInside
  <2>2. /\ SubSeq(buffer, 1, k) \in Seq(Frame) /\ SubSeq(buffer, k + 1, Len(buffer)) \in Seq(Frame)
        /\ k = Len(buffer) => SubSeq(buffer, k + 1, Len(buffer)) = <<>>
    BY <1>2, Halves
  <2>3. /\ buffer' = SubSeq(buffer, k + 1, Len(buffer))
        /\ handed' = handed \o SubSeq(buffer, 1, k)
        /\ channel' = channel \o SubSeq(buffer, 1, k)
    BY <1>7, <2>1 DEF HandOver
  <2>4. /\ handed' \o (buffer' \o x) = sent
        /\ IsPrefix(handed', sent)
    <3>1. handed \o (buffer \o x) = sent
      BY <1>4, <1>7
    <3> QED BY ONLY <1>2, <1>5, <2>3, <3>1, k \in 0..Len(buffer)
  <2>5. SenderTyped'
    <3>1. handed' \in Seq(Frame) /\ channel' \in Seq(Frame) /\ buffer' \in Seq(Frame)
      BY <2>2, <2>3 DEF SenderTyped
    <3> QED BY <1>7, <3>1 DEF SenderTyped
  <2>6. buffer' # <<>> => timer'
    <3>1. k < Len(buffer) \/ k = Len(buffer)
      BY <1>2
    <3> QED BY <1>7, <2>1, <2>2, <2>3, <3>1
  <2>7. PageTyped'
    BY <1>6, <1>7
  <2>8. handed' \o Waiting' = sent'
    BY ONLY <1>1, <1>3, <1>7, <2>4 DEF Waiting, accVars, encVars
  <2>9. SenderInv'
    BY <1>1, <1>7, <2>4, <2>6, <2>8 DEF SenderInv
  <2> QED BY <2>5, <2>7, <2>9
<1>8. CASE /\ tx = "open" /\ \E k \in 0..(Len(buffer) - 1) : Throws(buffer, k, <<>>)
           /\ timer' = FALSE
  <2>1. PICK k \in 0..(Len(buffer) - 1) : Throws(buffer, k, <<>>)
    BY <1>8
  <2>2. k \in 0..Len(buffer) /\ handed' = handed \o SubSeq(buffer, 1, k)
        /\ CloseTx(<<>>) /\ buffering' = TRUE
    BY <1>2, <2>1 DEF Throws
  <2>3. handed' \in Seq(Frame) /\ IsPrefix(handed', sent)
    <3>1. handed \o (buffer \o x) = sent
      BY <1>4, <1>8
    <3> QED BY ONLY <1>2, <1>5, <2>2, <3>1
  <2>4. clicks' \in Nat
    BY <1>1 DEF PageTyped
  <2> QED BY <1>1, <1>8, <2>2, <2>3, <2>4, CloseInv
<1>9. CASE /\ tx # "open" /\ buffering' = FALSE /\ timer' = FALSE
           /\ UNCHANGED <<tx, encVars, buffer, dcVars>>
  <2>1. PageTyped' /\ SenderTyped'
    BY <1>1, <1>9 DEF PageTyped, SenderTyped
  <2>2. SenderInv'
    BY <1>1, <1>9 DEF SenderInv
  <2> QED BY <2>1, <2>2
<1> QED BY <1>7, <1>8, <1>9 DEF TimerFires

\* The FileReader hands its frame on and takes the next.
LEMMA EncodedInv ==
  ASSUME PageTyped, SenderTyped, SenderInv, Encoded
  PROVE  PageTyped' /\ SenderTyped' /\ SenderInv'
<1>1. UNCHANGED <<modeVars, pageVars, accVars>> /\ reading # <<>>
  BY DEF Encoded
<1>2. tx = "open" /\ ~binaryBlob
  BY <1>1 DEF SenderInv, SenderTyped
<1>3. reading \in Seq(Frame) /\ queue \in Seq(Frame)
  BY DEF SenderTyped
<1>4. PICK nr \in Seq(Frame), nq \in Seq(Frame) :
          /\ Len(nr) <= 1 /\ nr \o nq = queue /\ (nr = <<>> => nq = <<>>)
          /\ BufferedSend(reading, nr, nq)
  <2>1. CASE queue # <<>>
    <3>1. BufferedSend(reading, <<Head(queue)>>, Tail(queue))
      BY <2>1 DEF Encoded
    <3>2. Head(queue) \in Frame /\ Tail(queue) \in Seq(Frame) /\ <<Head(queue)>> \o Tail(queue) = queue
      BY <1>3, <2>1, HeadAndTail
    <3>3. <<Head(queue)>> \in Seq(Frame) /\ Len(<<Head(queue)>>) <= 1 /\ <<Head(queue)>> # <<>>
      BY <3>2
    <3> QED BY ONLY <3>1, <3>2, <3>3
  <2>2. CASE queue = <<>>
    <3>1. BufferedSend(reading, <<>>, <<>>)
      BY <2>2 DEF Encoded
    <3>2. <<>> \in Seq(Frame) /\ Len(<<>>) <= 1 /\ <<>> \o <<>> = <<>>
      OBVIOUS
    <3> QED BY ONLY <2>2, <3>1, <3>2
  <2> QED BY <2>1, <2>2
<1>5. /\ handed \o (buffer \o (reading \o queue)) = sent
      /\ (buffering <=> timer) /\ (buffer # <<>> => timer)
  BY <1>2, Flowing
<1>6. /\ SenderTyped'
      /\ IsPrefix(handed', handed \o (buffer \o (reading \o queue)))
      /\ \/ tx' = "closed" /\ reading' = <<>> /\ queue' = <<>>
         \/ /\ tx' = "open" /\ reading' = nr /\ queue' = nq
            /\ handed' \o (buffer' \o queue) = handed \o (buffer \o (reading \o queue))
            /\ (buffering' <=> timer') /\ (buffer' # <<>> => timer')
  <2>1. PICK r \in Seq(Frame), x \in Seq(Frame) : r = reading /\ x = queue
    BY <1>3
  <2>2. BufferedSend(r, nr, nq)
    BY <1>4, <2>1
  <2>3. /\ SenderTyped'
        /\ IsPrefix(handed', handed \o (buffer \o (r \o x)))
        /\ \/ tx' = "closed" /\ reading' = <<>> /\ queue' = <<>>
           \/ /\ tx' = "open" /\ reading' = nr /\ queue' = nq
              /\ handed' \o (buffer' \o x) = handed \o (buffer \o (r \o x))
              /\ (buffering' <=> timer') /\ (buffer' # <<>> => timer')
    BY <1>4, <1>5, <2>2, BufferedSendInv, Zenon
  <2> QED BY ONLY <2>1, <2>3
<1>7. PageTyped'
  BY <1>1, <1>2, <1>6 DEF PageTyped
<1>8. tx' = "open" => handed' \o Waiting' = sent'
  BY ONLY <1>1, <1>4, <1>5, <1>6 DEF Waiting, accVars
<1>9. SenderInv'
  <2>1. IsPrefix(handed', sent')
    BY <1>1, <1>5, <1>6
  <2>2. reading' = <<>> => queue' = <<>>
    BY <1>4, <1>6
  <2>3. tx' # "open" \/ binaryBlob' => reading' = <<>>
    BY <1>1, <1>2, <1>6
  <2> QED BY <1>6, <1>8, <2>1, <2>2, <2>3 DEF SenderInv
<1> QED BY <1>6, <1>7, <1>9

-----------------------------------------------------------------------------
(* Every step.                                                             *)

\* A click: the connection is made, the message taken, or dropped.
LEMMA ClickInv ==
  ASSUME PageTyped, SenderTyped, SenderInv, NEW size \in Sizes, Click(size)
  PROVE  PageTyped' /\ SenderTyped' /\ SenderInv'
<1>1. UNCHANGED modeVars /\ clicks' \in Nat
  BY DEF Click, PageTyped
<1>2. CASE /\ tx = "none" /\ tx' = "opening" /\ first' = <<size>>
           /\ UNCHANGED <<accVars, encVars, bufVars, dcVars>>
  <2>1. PageTyped'
    BY <1>1, <1>2 DEF PageTyped
  <2>2. SenderTyped' /\ SenderInv'
    BY <1>1, <1>2 DEF SenderTyped, SenderInv
  <2> QED BY <2>1, <2>2
<1>3. CASE tx = "open" /\ Send(size) /\ UNCHANGED first
  BY <1>1, <1>3, SendInv
<1>4. CASE /\ tx \in {"opening", "closed"}
           /\ UNCHANGED <<first, tx, accVars, encVars, bufVars, dcVars>>
  <2>1. PageTyped'
    BY <1>1, <1>4 DEF PageTyped
  <2>2. SenderTyped' /\ SenderInv'
    BY <1>1, <1>4 DEF SenderTyped, SenderInv, Waiting
  <2> QED BY <2>1, <2>2
<1> QED BY <1>2, <1>3, <1>4 DEF Click

\* The frame at the head of the channel's buffer goes out; the order of the rest is kept.
LEMMA TransmitInv ==
  ASSUME PageTyped, SenderTyped, ReceiverTyped, SenderInv, Transmit
  PROVE  PageTyped' /\ SenderTyped' /\ ReceiverTyped' /\ SenderInv'
<1>1. /\ UNCHANGED <<modeVars, pageVars, tx, accVars, encVars, bufVars, handed, rxVars>>
      /\ channel # <<>> /\ channel' = Tail(channel) /\ net' = Append(net, Head(channel))
  BY DEF Transmit
<1>2. channel \in Seq(Frame) /\ net \in Seq(Frame)
  BY DEF SenderTyped, ReceiverTyped
<1>3. channel' \in Seq(Frame) /\ net' \in Seq(Frame)
  BY <1>1, <1>2, HeadAndTail
<1>4. PageTyped' /\ SenderTyped' /\ ReceiverTyped'
  BY <1>1, <1>3 DEF PageTyped, SenderTyped, ReceiverTyped
<1>5. SenderInv'
  BY <1>1 DEF SenderInv, Waiting
<1> QED BY <1>4, <1>5

\* Taking a frame out of the network leaves frames.
LEMMA RemoveTyped ==
  ASSUME NEW s \in Seq(Frame), NEW i \in DOMAIN s
  PROVE  RemoveAt(s, i) \in Seq(Frame) /\ s[i] \in Frame
<1>1. i \in 1..Len(s) /\ Len(s) \in Nat
  OBVIOUS
<1>2. SubSeq(s, 1, i - 1) \in Seq(Frame) /\ SubSeq(s, i + 1, Len(s)) \in Seq(Frame)
  BY <1>1
<1>3. SubSeq(s, 1, i - 1) \o SubSeq(s, i + 1, Len(s)) \in Seq(Frame)
  BY <1>2
<1> QED BY <1>1, <1>3 DEF RemoveAt

\* The receiving page keeps its types, and touches nothing of the sender.
LEMMA MessageInv ==
  ASSUME ReceiverTyped, NEW i \in DOMAIN net, Message(i)
  PROVE  ReceiverTyped' /\ UNCHANGED <<modeVars, pageVars, tx, accVars, encVars, bufVars, dcVars>>
<1>1. PICK f \in Frame : f = net[i]
  BY RemoveTyped DEF ReceiverTyped
<1>2. net' \in Seq(Frame)
  BY RemoveTyped DEF ReceiverTyped, Message
<1>3. f.msg \in Nat
  BY DEF Frame
<1>4. /\ chunked' \subseteq chunked \cup {f}
      /\ blobs' \subseteq blobs \cup {f.msg}
      /\ delivered' \in {delivered, Append(delivered, f.msg)}
      /\ rx' = rx
  BY <1>1 DEF Message
<1>5. delivered' \in Seq(Nat)
  BY <1>3, <1>4 DEF ReceiverTyped
<1>6. ReceiverTyped'
  BY <1>1, <1>2, <1>3, <1>4, <1>5 DEF ReceiverTyped
<1>7. UNCHANGED <<modeVars, pageVars, tx, accVars, encVars, bufVars, dcVars>>
  BY DEF Message
<1> QED BY <1>6, <1>7

\* What the receiver does leaves the sender's parts alone.
LEMMA SenderAlone ==
  ASSUME PageTyped, SenderTyped, SenderInv,
         UNCHANGED <<modeVars, pageVars, tx, accVars, encVars, bufVars, dcVars>>
  PROVE  PageTyped' /\ SenderTyped' /\ SenderInv'
<1>1. PageTyped' /\ SenderTyped'
  BY DEF PageTyped, SenderTyped
<1>2. SenderInv'
  BY DEF SenderInv, Waiting
<1> QED BY <1>1, <1>2

\* The sender's steps other than Transmit leave the receiver's parts alone.
LEMMA ReceiverAlone ==
  ASSUME ReceiverTyped, UNCHANGED <<net, rxVars>>
  PROVE  ReceiverTyped'
BY DEF ReceiverTyped

Inv == PageTyped /\ SenderTyped /\ ReceiverTyped /\ SenderInv

\* Every step keeps all parts.
LEMMA InvStep == Inv /\ [Next]_vars => Inv'
<1> SUFFICES ASSUME PageTyped, SenderTyped, ReceiverTyped, SenderInv, [Next]_vars
             PROVE  PageTyped' /\ SenderTyped' /\ ReceiverTyped' /\ SenderInv'
  BY DEF Inv
<1>1. ASSUME NEW size \in Sizes, Click(size)
      PROVE  PageTyped' /\ SenderTyped' /\ ReceiverTyped' /\ SenderInv'
  <2>1. UNCHANGED <<net, rxVars>>
    BY <1>1 DEF Click
  <2> QED BY <1>1, <2>1, ClickInv, ReceiverAlone
<1>2. CASE Opens
  <2>1. UNCHANGED <<modeVars, pageVars, net, rxVars>> /\ tx = "opening" /\ Send(first[1])
    BY <1>2 DEF Opens
  <2>2. first[1] \in Sizes /\ clicks' \in Nat
    <3>1. first \in Seq(Sizes) /\ Len(first) = 1 /\ clicks' = clicks /\ clicks \in Nat
      BY <2>1 DEF PageTyped
    <3> QED BY <3>1
  <2>3. PageTyped' /\ SenderTyped' /\ SenderInv'
    BY <2>1, <2>2, SendInv
  <2> QED BY <2>1, <2>3, ReceiverAlone
<1>3. CASE Encoded
  <2>1. UNCHANGED <<net, rxVars>>
    BY <1>3 DEF Encoded
  <2> QED BY <1>3, <2>1, EncodedInv, ReceiverAlone
<1>4. ASSUME tx # "none", CloseTx(<<>>),
             UNCHANGED <<modeVars, pageVars, accVars, buffering, timer, handed, net, rxVars>>
      PROVE  PageTyped' /\ SenderTyped' /\ ReceiverTyped' /\ SenderInv'
  <2>1. /\ handed' \in Seq(Frame) /\ IsPrefix(handed', sent) /\ clicks' \in Nat
        /\ buffering' \in BOOLEAN /\ timer' \in BOOLEAN
    BY <1>4 DEF PageTyped, SenderTyped, SenderInv
  <2> QED BY <1>4, <2>1, CloseInv, ReceiverAlone
<1>5. CASE EncodingFails
  <2>1. tx # "none"
    BY <1>5 DEF EncodingFails, SenderInv
  <2> QED BY <1>4, <1>5, <2>1 DEF EncodingFails
<1>6. CASE TimerFires
  <2>1. UNCHANGED <<net, rxVars>>
    BY <1>6 DEF TimerFires
  <2> QED BY <1>6, <2>1, TimerInv, ReceiverAlone
<1>7. CASE TxCloses
  BY <1>4, <1>7 DEF TxCloses
<1>8. CASE Transmit
  BY <1>8, TransmitInv
<1>9. CASE RxOpens
  <2>1. ReceiverTyped'
    BY <1>9 DEF RxOpens, ReceiverTyped
  <2> QED BY <1>9, <2>1, SenderAlone DEF RxOpens
<1>10. CASE RxCloses
  <2>1. ReceiverTyped'
    BY <1>10 DEF RxCloses, ReceiverTyped
  <2> QED BY <1>10, <2>1, SenderAlone DEF RxCloses
<1>11. ASSUME NEW i \in DOMAIN net, Message(i)
       PROVE  PageTyped' /\ SenderTyped' /\ ReceiverTyped' /\ SenderInv'
  BY <1>11, MessageInv, SenderAlone
<1>12. ASSUME NEW id \in blobs, BlobRead(id)
       PROVE  PageTyped' /\ SenderTyped' /\ ReceiverTyped' /\ SenderInv'
  <2>1. ReceiverTyped'
    BY <1>12 DEF BlobRead, ReceiverTyped
  <2> QED BY <1>12, <2>1, SenderAlone DEF BlobRead
<1>13. CASE UNCHANGED vars
  <2>1. UNCHANGED <<modeVars, pageVars, tx, accVars, encVars, bufVars, dcVars, net, rxVars>>
    BY <1>13 DEF vars
  <2> QED BY <2>1, SenderAlone, ReceiverAlone
<1> QED BY <1>1, <1>2, <1>3, <1>5, <1>6, <1>7, <1>8, <1>9, <1>10, <1>11, <1>12, <1>13 DEF Next

\* All parts hold in every state.
LEMMA InvAlways == Spec => []Inv
<1>1. Init => Inv
  BY InvInit DEF Inv
<1> QED BY <1>1, InvStep, PTL DEF Spec

-----------------------------------------------------------------------------
(* The theorems.                                                           *)

\* Every variable keeps its type, and the FileReader of the encoding queue reads one frame
\* at a time.
THEOREM TypeCorrect == Spec => []TypeOK
<1>1. Inv => TypeOK
  BY DEF Inv, PageTyped, SenderTyped, ReceiverTyped, TypeOK
<1> QED BY <1>1, InvAlways, PTL

\* While a connection is open the timer of _trySend runs exactly while it is buffering, so
\* that nothing waits in _buffer for ever; the encoding queue never stops short.
THEOREM NothingStuck == Spec => []NothingIsStuck
<1>1. Inv => NothingIsStuck
  BY DEF Inv, SenderInv, NothingIsStuck
<1> QED BY <1>1, InvAlways, PTL

\* Between send and the channel no frame is lost, doubled or overtaken, whatever the sizes,
\* the limit and the order of the callbacks.
THEOREM FramesKeepOrder == Spec => []FramesInOrder
<1>1. Inv => FramesInOrder
  <2> SUFFICES ASSUME Inv PROVE FramesInOrder
    OBVIOUS
  <2>1. /\ handed \in Seq(Frame) /\ buffer \in Seq(Frame)
        /\ reading \in Seq(Frame) /\ queue \in Seq(Frame)
    BY DEF Inv, SenderTyped
  <2>2. handed \o buffer \o reading \o queue = handed \o Waiting
    <3>1. PICK hb \in Seq(Frame) : hb = handed \o buffer
      <4>1. handed \o buffer \in Seq(Frame)
        BY <2>1
      <4> QED BY <4>1, Zenon
    <3>2. PICK rq \in Seq(Frame) : rq = reading \o queue
      <4>1. reading \o queue \in Seq(Frame)
        BY <2>1
      <4> QED BY <4>1, Zenon
    <3>3. (hb \o reading) \o queue = hb \o rq
      <4>1. reading \in Seq(Frame) /\ queue \in Seq(Frame) /\ hb \in Seq(Frame)
        BY <2>1
      <4>2. (hb \o reading) \o queue = hb \o (reading \o queue)
        BY ONLY <4>1, Assoc, ZenonT(40)
      <4> QED BY ONLY <3>2, <4>2
    <3>4. hb \o rq = handed \o (buffer \o rq)
      <4>1. handed \in Seq(Frame) /\ buffer \in Seq(Frame) /\ rq \in Seq(Frame)
        BY <2>1
      <4>2. (handed \o buffer) \o rq = handed \o (buffer \o rq)
        BY ONLY <4>1, Assoc, ZenonT(40)
      <4> QED BY ONLY <3>1, <4>2
    <3> QED BY ONLY <3>1, <3>2, <3>3, <3>4 DEF Waiting
  <2>3. IsPrefix(handed, sent) /\ (tx = "open" => handed \o Waiting = sent)
    BY DEF Inv, SenderInv
  <2> QED BY ONLY <2>2, <2>3 DEF FramesInOrder
<1> QED BY <1>1, InvAlways, PTL
=============================================================================
