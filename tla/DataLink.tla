------------------------------ MODULE DataLink ------------------------------
(***************************************************************************)
(* One data connection of PeerJS (html/lib/peerjs.js, DataConnection and   *)
(* EncodingQueue), from the page that has made it to the page at the other *)
(* end: a message is cut into chunks, encoded, buffered, handed to the     *)
(* data channel, put together again and given to the page.                 *)
(*                                                                         *)
(* Each page is one JavaScript thread: a step is one callback, run to its  *)
(* end. The channel is reliable; whether it is ordered, and whether the    *)
(* browser sends blobs, is chosen at the start. A frame counts for one     *)
(* unit of the channel's buffered amount.                                  *)
(***************************************************************************)
EXTENDS Integers, Sequences, SequencesExt

CONSTANTS
    Sizes,      \* the sizes of messages, in chunks
    Limit,      \* MAX_BUFFERED_AMOUNT, in frames
    MaxClicks   \* bound: messages that the page wants to send

ASSUME LinkAssumption ==
    /\ Sizes \subseteq Nat \ {0}
    /\ Limit \in Nat
    /\ MaxClicks \in Nat

VARIABLES
    ordered,    \* the channel keeps the order
    binaryBlob, \* util.supports.binaryBlob: no encoding
    clicks,     \* messages the page wanted to send
    first,      \* the message the page's callback for 'open' will send
    tx,         \* the sending connection: "none", "opening", "open", "closed"
    accepted,   \* the sizes of the messages that send has taken
    sent,       \* history: their frames, in order
    queue,      \* EncodingQueue: its _queue
    reading,    \* EncodingQueue: the frame its FileReader reads, if any
    buffer,     \* _buffer
    buffering,  \* _buffering
    timer,      \* the 50 ms timer of _trySend runs
    handed,     \* history: the frames handed to the channel, in order
    channel,    \* the channel's own buffer: its bufferedAmount
    net,        \* frames on their way
    rx,         \* the receiving connection: "none", "open", "closed"
    chunked,    \* _chunkedData: the chunks of unfinished messages
    blobs,      \* finished messages that a FileReader of the receiver reads
    delivered   \* messages given to the page, in order

modeVars == <<ordered, binaryBlob>>
pageVars == <<clicks, first>>
accVars == <<accepted, sent>>
encVars == <<queue, reading>>
bufVars == <<buffer, buffering, timer>>
dcVars == <<handed, channel>>
rxVars == <<rx, chunked, blobs, delivered>>
vars == <<modeVars, pageVars, tx, accVars, encVars, bufVars, dcVars, net, rxVars>>

\* A frame: chunk n of total of the message that was accepted as number msg.
Frame == [msg : Nat \ {0}, n : Nat, total : Nat \ {0}]

\* util.chunk; a small message is its only frame.
Frames(id, size) == [i \in 1..size |-> [msg |-> id, n |-> i - 1, total |-> size]]

Init ==
    /\ ordered \in BOOLEAN /\ binaryBlob \in BOOLEAN
    /\ clicks = 0 /\ first = <<>>
    /\ tx = "none" /\ accepted = <<>> /\ sent = <<>>
    /\ queue = <<>> /\ reading = <<>>
    /\ buffer = <<>> /\ buffering = FALSE /\ timer = FALSE
    /\ handed = <<>> /\ channel = <<>> /\ net = <<>>
    /\ rx = "none" /\ chunked = {} /\ blobs = {} /\ delivered = <<>>

-----------------------------------------------------------------------------
(* _trySend, in a loop. Within one callback the channel sends nothing, so   *)
(* the frames go to it until its buffer is above the limit.                 *)

Room == IF Len(channel) > Limit THEN 0 ELSE Limit + 1 - Len(channel)
Fit(fs) == IF Len(fs) < Room THEN Len(fs) ELSE Room

\* The first k frames go to the channel.
HandOver(fs, k) ==
    /\ channel' = channel \o SubSeq(fs, 1, k)
    /\ handed' = handed \o SubSeq(fs, 1, k)

\* close. residue is what a callback that is under way still pushes to _buffer.
CloseTx(residue) ==
    /\ tx' = "closed"
    /\ queue' = <<>> /\ reading' = <<>>
    /\ buffer' = residue
    /\ channel' = <<>>

\* channel.send throws at frame k + 1: the connection closes with _buffering set.
Throws(fs, k, residue) ==
    /\ k < Fit(fs)
    /\ handed' = handed \o SubSeq(fs, 1, k)
    /\ CloseTx(residue)
    /\ buffering' = TRUE

\* A mutant: _bufferedSend tries to send also while others wait.
BufferedSendAtOnce(fs, nextReading, nextQueue) ==
    /\ HandOver(fs, Fit(fs))
    /\ buffer' = buffer \o SubSeq(fs, Fit(fs) + 1, Len(fs))
    /\ buffering' = (buffer' # <<>>) /\ timer' = buffering'
    /\ reading' = nextReading /\ queue' = nextQueue
    /\ tx' = "open"

\* _bufferedSend of each frame in turn, and what the encoding queue does next.
BufferedSend(fs, nextReading, nextQueue) ==
    \/ /\ buffering
       /\ buffer' = buffer \o fs
       /\ reading' = nextReading /\ queue' = nextQueue
       /\ tx' = "open"
       /\ UNCHANGED <<buffering, timer, dcVars>>
    \/ /\ ~buffering
       /\ HandOver(fs, Fit(fs))
       /\ buffer' = buffer \o SubSeq(fs, Fit(fs) + 1, Len(fs))
       /\ buffering' = (Fit(fs) < Len(fs)) /\ timer' = (timer \/ buffering')
       /\ reading' = nextReading /\ queue' = nextQueue
       /\ tx' = "open"
    \/ /\ ~buffering
       /\ \E k \in 0..(Len(fs) - 1) : Throws(fs, k, <<fs[k + 1]>>)
       /\ UNCHANGED timer

\* A mutant: a second frame is read before the first is done.
EnqueAtOnce(fs) ==
    LET all == queue \o fs
    IN  /\ reading' = Append(reading, Head(all)) /\ queue' = Tail(all)
        /\ tx' = "open"
        /\ UNCHANGED <<bufVars, dcVars>>

\* EncodingQueue.enque of each frame: one is read at a time.
Enque(fs) ==
    LET all == queue \o fs
    IN  /\ IF reading = <<>>
           THEN reading' = <<Head(all)>> /\ queue' = Tail(all)
           ELSE UNCHANGED reading /\ queue' = all
        /\ tx' = "open"
        /\ UNCHANGED <<bufVars, dcVars>>

\* send on an open connection.
Send(size) ==
    /\ accepted' = Append(accepted, size)
    /\ LET fs == Frames(Len(accepted'), size)
       IN  /\ sent' = sent \o fs
           /\ IF binaryBlob THEN BufferedSend(fs, reading, queue) ELSE Enque(fs)

-----------------------------------------------------------------------------
(* The page that sends. The first message makes the connection; one sent    *)
(* before that is open, or after it is closed, is dropped.                  *)

Click(size) ==
    /\ clicks < MaxClicks
    /\ clicks' = clicks + 1
    /\ \/ /\ tx = "none"
          /\ tx' = "opening" /\ first' = <<size>>
          /\ UNCHANGED <<accVars, encVars, bufVars, dcVars>>
       \/ /\ tx = "open"
          /\ Send(size)
          /\ UNCHANGED first
       \/ /\ tx \in {"opening", "closed"}
          /\ UNCHANGED <<first, tx, accVars, encVars, bufVars, dcVars>>
    /\ UNCHANGED <<modeVars, net, rxVars>>

\* onopen; the callback for 'open' sends the first message, and closes the connection
\* again if channel.send throws.
Opens ==
    /\ tx = "opening"
    /\ Send(first[1])
    /\ UNCHANGED <<modeVars, pageVars, net, rxVars>>

\* onload of the FileReader: the frame is sent, then the next one is read.
Encoded ==
    /\ reading # <<>>
    /\ LET more == queue # <<>>
       IN  BufferedSend(reading, IF more THEN <<Head(queue)>> ELSE <<>>,
                                 IF more THEN Tail(queue) ELSE <<>>)
    /\ UNCHANGED <<modeVars, pageVars, accVars, net, rxVars>>

\* onerror of the FileReader: the connection closes.
EncodingFails ==
    /\ reading # <<>>
    /\ CloseTx(<<>>)
    /\ UNCHANGED <<modeVars, pageVars, accVars, buffering, timer, handed, net, rxVars>>

\* A mutant: _tryBuffer sends one frame and does not go on.
TimerFiresOnce ==
    /\ timer /\ tx = "open"
    /\ LET k == IF Room > 0 /\ buffer # <<>> THEN 1 ELSE 0
       IN  /\ HandOver(buffer, k)
           /\ buffer' = SubSeq(buffer, k + 1, Len(buffer))
           /\ buffering' = (k = 0) /\ timer' = buffering'
    /\ UNCHANGED <<tx, encVars, modeVars, pageVars, accVars, net, rxVars>>

\* The timer: _tryBuffer sends what it can.
TimerFires ==
    /\ timer
    /\ \/ /\ tx = "open"
          /\ HandOver(buffer, Fit(buffer))
          /\ buffer' = SubSeq(buffer, Fit(buffer) + 1, Len(buffer))
          /\ buffering' = (Fit(buffer) < Len(buffer)) /\ timer' = buffering'
          /\ UNCHANGED <<tx, encVars>>
       \/ /\ tx = "open"
          /\ \E k \in 0..(Len(buffer) - 1) : Throws(buffer, k, <<>>)
          /\ timer' = FALSE
       \/ /\ tx # "open"
          /\ buffering' = FALSE /\ timer' = FALSE
          /\ UNCHANGED <<tx, encVars, buffer, dcVars>>
    /\ UNCHANGED <<modeVars, pageVars, accVars, net, rxVars>>

\* onclose of the channel, a failed negotiation, or the end of the Peer.
TxCloses ==
    /\ tx \in {"opening", "open"}
    /\ CloseTx(<<>>)
    /\ UNCHANGED <<modeVars, pageVars, accVars, buffering, timer, handed, net, rxVars>>

-----------------------------------------------------------------------------
(* The channel and the page that receives.                                 *)

Transmit ==
    /\ channel # <<>>
    /\ channel' = Tail(channel) /\ net' = Append(net, Head(channel))
    /\ UNCHANGED <<modeVars, pageVars, tx, accVars, encVars, bufVars, handed, rxVars>>

RxOpens ==
    /\ rx = "none" /\ tx # "none"
    /\ rx' = "open"
    /\ UNCHANGED <<modeVars, pageVars, tx, accVars, encVars, bufVars, dcVars, net,
                   chunked, blobs, delivered>>

\* close: a FileReader that is reading goes on.
RxCloses ==
    /\ rx = "open"
    /\ rx' = "closed" /\ chunked' = {}
    /\ UNCHANGED <<modeVars, pageVars, tx, accVars, encVars, bufVars, dcVars, net,
                   blobs, delivered>>

\* Three mutants: the last chunk is not waited for; one more is waited for; small
\* messages are read like big ones.
MessageShort(i) ==
    /\ rx = "open" /\ (ordered => i = 1)
    /\ net' = RemoveAt(net, i)
    /\ LET f == net[i]
           chunks == {g \in chunked : g.msg = f.msg} \cup {f}
           done == \A n \in 0..(f.total - 2) : \E g \in chunks : g.n = n
       IN  /\ delivered' = IF f.total = 1 THEN Append(delivered, f.msg) ELSE delivered
           /\ chunked' = IF f.total = 1 \/ done THEN chunked \ chunks ELSE chunked \cup {f}
           /\ blobs' = IF f.total > 1 /\ done THEN blobs \cup {f.msg} ELSE blobs
    /\ UNCHANGED <<modeVars, pageVars, tx, accVars, encVars, bufVars, dcVars, rx>>

MessageLong(i) ==
    /\ rx = "open" /\ (ordered => i = 1)
    /\ net' = RemoveAt(net, i)
    /\ LET f == net[i]
       IN  /\ delivered' = IF f.total = 1 THEN Append(delivered, f.msg) ELSE delivered
           /\ chunked' = IF f.total = 1 THEN chunked ELSE chunked \cup {f}
    /\ UNCHANGED <<modeVars, pageVars, tx, accVars, encVars, bufVars, dcVars, rx, blobs>>

MessageReadsAll(i) ==
    /\ rx = "open" /\ (ordered => i = 1)
    /\ net' = RemoveAt(net, i)
    /\ LET f == net[i]
           chunks == {g \in chunked : g.msg = f.msg} \cup {f}
           done == \A n \in 0..(f.total - 1) : \E g \in chunks : g.n = n
       IN  /\ chunked' = IF done THEN chunked \ chunks ELSE chunked \cup {f}
           /\ blobs' = IF done THEN blobs \cup {f.msg} ELSE blobs
    /\ UNCHANGED <<modeVars, pageVars, tx, accVars, encVars, bufVars, dcVars, rx, delivered>>

\* onmessage: a small message goes to the page, a chunk to the others of its message;
\* with the last of them the message is made a Blob and read.
Message(i) ==
    /\ rx = "open"
    /\ ordered => i = 1
    /\ net' = RemoveAt(net, i)
    /\ LET f == net[i]
           chunks == {g \in chunked : g.msg = f.msg} \cup {f}
       IN  \/ /\ f.total = 1
              /\ delivered' = Append(delivered, f.msg)
              /\ UNCHANGED <<chunked, blobs>>
           \/ /\ f.total > 1 /\ \E n \in 0..(f.total - 1) : \A g \in chunks : g.n # n
              /\ chunked' = chunked \cup {f}
              /\ UNCHANGED <<blobs, delivered>>
           \/ /\ f.total > 1 /\ \A n \in 0..(f.total - 1) : \E g \in chunks : g.n = n
              /\ chunked' = chunked \ chunks
              /\ blobs' = blobs \cup {f.msg}
              /\ UNCHANGED delivered
    /\ UNCHANGED <<modeVars, pageVars, tx, accVars, encVars, bufVars, dcVars, rx>>

\* blobToArrayBuffer is done: the message goes to the page, whatever came meanwhile.
BlobRead(id) ==
    /\ blobs' = blobs \ {id}
    /\ delivered' = Append(delivered, id)
    /\ UNCHANGED <<modeVars, pageVars, tx, accVars, encVars, bufVars, dcVars, net, rx,
                   chunked>>

-----------------------------------------------------------------------------
Next ==
    \/ \E size \in Sizes : Click(size)
    \/ Opens \/ Encoded \/ EncodingFails \/ TimerFires \/ TxCloses
    \/ Transmit \/ RxOpens \/ RxCloses
    \/ \E i \in DOMAIN net : Message(i)
    \/ \E id \in blobs : BlobRead(id)

Spec == Init /\ [][Next]_vars

\* FileReaders finish, timers fire, and the channel, while it lives, delivers.
Fairness ==
    /\ WF_vars(Opens) /\ WF_vars(Encoded) /\ WF_vars(TimerFires)
    /\ WF_vars(Transmit) /\ WF_vars(RxOpens)
    /\ WF_vars(\E i \in DOMAIN net : Message(i))
    /\ WF_vars(\E id \in blobs : BlobRead(id))

FairSpec == Spec /\ Fairness

-----------------------------------------------------------------------------
(* Properties.                                                             *)

TypeOK ==
    /\ ordered \in BOOLEAN /\ binaryBlob \in BOOLEAN
    /\ clicks \in Nat /\ first \in Seq(Sizes) /\ (tx # "none" => Len(first) = 1)
    /\ tx \in {"none", "opening", "open", "closed"}
    /\ accepted \in Seq(Sizes) /\ sent \in Seq(Frame)
    /\ queue \in Seq(Frame) /\ reading \in Seq(Frame) /\ Len(reading) <= 1
    /\ buffer \in Seq(Frame) /\ buffering \in BOOLEAN /\ timer \in BOOLEAN
    /\ handed \in Seq(Frame) /\ channel \in Seq(Frame) /\ net \in Seq(Frame)
    /\ rx \in {"none", "open", "closed"}
    /\ chunked \subseteq Frame /\ blobs \subseteq Nat /\ delivered \in Seq(Nat)

\* While the connection is open, what waits in _buffer is waited for: the timer that
\* will call _tryBuffer runs, exactly while _buffering is set, and nothing waits otherwise.
\* In the same way the encoding queue never stops with something in it.
NothingIsStuck ==
    /\ tx = "open" => (buffering <=> timer) /\ (buffer # <<>> => timer)
    /\ reading = <<>> => queue = <<>>

\* No frame is lost, doubled or overtaken between send and the channel while the
\* connection is open, though frames wait in three places and leave them in callbacks
\* of their own; whatever the channel got is the beginning of what was sent.
FramesInOrder ==
    /\ tx = "open" => handed \o buffer \o reading \o queue = sent
    /\ IsPrefix(handed, sent)

\* A message is given to the page, or read for it, only when it is whole: nothing of it
\* is on its way any more, or waits among the chunks, in whatever order they came.
DeliveredWhole ==
    \A id \in blobs \cup Range(delivered) :
        \A f \in chunked \cup Range(net \o channel \o buffer \o reading \o queue) : f.msg # id

\* Every accepted message reaches the other page at most once; on an ordered channel
\* small messages keep their order, though big ones are read in between.
Courier == INSTANCE Courier WITH taken <- accepted, given <- delivered, inOrder <- ordered,
                                 Small <- {1}
CourierSpec == Courier!Spec

\* Whoever stays connected gets every accepted message: no chunk waits for ever in the
\* encoding queue, in _buffer behind a timer, or for the rest of its message.
EveryAcceptedIsDelivered ==
    \A id \in 1..MaxClicks :
        Len(accepted) >= id
            ~> id \in Range(delivered) \/ tx = "closed" \/ rx = "closed"
=============================================================================
