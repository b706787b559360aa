------------------------------ MODULE PeerBook ------------------------------
(***************************************************************************)
(* The Peer of PeerJS (html/lib/peerjs.js): the book of its connections,   *)
(* the messages it stores for connections that cannot take them yet, its   *)
(* socket to the PeerServer, and how the peer is disconnected, connected   *)
(* again and destroyed.                                                    *)
(*                                                                         *)
(* The page is one JavaScript thread: a step is one callback, or one call  *)
(* of the page, run to its end. The server and the browser may do anything *)
(* that the library lets them do, in any order.                            *)
(***************************************************************************)
EXTENDS Integers, Sequences, FiniteSets, Functions

CONSTANTS
    Peers,       \* the other peers
    Ids,         \* connection ids, each with the peer at its other end
    MaxConns,    \* bound: connection objects that are made
    MaxMessages  \* bound: messages that arrive

ASSUME BookAssumption ==
    /\ \A id \in Ids : id \in Peers \X Nat
    /\ MaxConns \in Nat /\ MaxMessages \in Nat

VARIABLES
    hasId,       \* _id is set
    hasLastId,   \* _lastServerId is set
    open,        \* _open
    disconnected,\* _disconnected
    destroyed,   \* _destroyed
    pending,     \* what the constructor has left to be done: "nothing", "abort", "id"
    socket,      \* the WebSocket: "closed", "connecting", "open"
    heard,       \* the peer listens to its Socket
    conns,       \* the connection objects, in the order they were made
    book,        \* _connections: book[p], those with p, in the order they were made
    lost,        \* _lostMessages: lost[id], the numbers of the stored messages
    count,       \* history: messages that have arrived for each id
    skipped,     \* history: connections that _cleanupPeer passed over
    early        \* history: disconnected while the constructor had something left to do

statusVars == <<hasId, hasLastId, open, disconnected, destroyed, early>>
wireVars == <<socket, heard>>
bookVars == <<conns, book, lost, skipped>>
vars == <<statusVars, pending, wireVars, bookVars, count>>

\* A media connection waits while it has no peerConnection: a call that the page has not
\* answered. since is the number of messages for its id that were lost before it was
\* made, got those that it was handed while it had a peerConnection.
Conn == [id : Ids, kind : {"media", "data"}, stage : {"waiting", "live", "closed"},
         since : Nat, got : Seq(Nat)]

Peer(o) == conns[o].id[1]

\* new Peer: with a valid id, with an invalid one, or with an id from the server.
Init ==
    /\ \/ pending = "nothing" /\ hasId = TRUE /\ socket = "connecting"
       \/ pending \in {"abort", "id"} /\ hasId = FALSE /\ socket = "closed"
    /\ hasLastId = FALSE /\ open = FALSE /\ disconnected = FALSE /\ destroyed = FALSE
    /\ heard = TRUE /\ early = FALSE
    /\ conns = <<>> /\ book = [p \in Peers |-> {}] /\ lost = [id \in Ids |-> <<>>]
    /\ count = [id \in Ids |-> 0] /\ skipped = {}

-----------------------------------------------------------------------------
(* The book.                                                               *)

\* getConnection: the connections in the book with this id (there is one at most).
Found(id) == {o \in book[id[1]] : conns[o].id = id}

Closing(S) == [o \in DOMAIN conns |->
    IF o \in S THEN [conns[o] EXCEPT !.stage = "closed"] ELSE conns[o]]
Dropping(S) == [id \in Ids |-> IF \E o \in S : conns[o].id = id THEN <<>> ELSE lost[id]]
\* _removeConnection of the connections in S.
Without(S) == [p \in Peers |-> book[p] \ S]

\* The place of a connection in its list; a mutant of Skipped; and what the loop of
\* _cleanupPeer passes over: every close takes an element out of the array it runs over.
Place(o, p) == Cardinality({b \in book[p] : b <= o})
SkippedOdd(p) == {o \in book[p] : Place(o, p) % 2 = 1}
Skipped(p) == {o \in book[p] : Place(o, p) % 2 = 0}

\* _cleanupPeer of the peers in P, whose entries are deleted then.
Cleanup(P) ==
    LET passed == UNION {Skipped(p) : p \in P}
        S == (UNION {book[p] : p \in P}) \ passed
    IN  /\ conns' = Closing(S) /\ lost' = Dropping(S)
        /\ book' = [p \in Peers |-> IF p \in P THEN {} ELSE book[p]]
        /\ skipped' = skipped \cup passed

-----------------------------------------------------------------------------
(* The peer and its server.                                                *)

\* _initialize, with or without an id: Socket.start opens one WebSocket at most.
Initialize(known) ==
    /\ hasId' = known
    /\ socket' = IF socket = "closed" THEN "connecting" ELSE socket

\* A mutant of Disconnects, and disconnect.
DisconnectsOpen ==
    /\ disconnected' = TRUE /\ open' = open /\ socket' = "closed"
    /\ hasLastId' = hasId /\ hasId' = FALSE
    /\ early' = (early \/ pending # "nothing")
Disconnects ==
    IF disconnected THEN UNCHANGED <<hasId, hasLastId, open, disconnected, early, socket>>
    ELSE /\ disconnected' = TRUE /\ open' = FALSE /\ socket' = "closed"
         /\ hasLastId' = hasId /\ hasId' = FALSE
         /\ early' = (early \/ pending # "nothing")

\* A mutant of Destroys (the listeners stay), and destroy.
DestroysDeafless ==
    IF destroyed THEN UNCHANGED <<statusVars, wireVars, bookVars>>
    ELSE Disconnects /\ Cleanup(Peers) /\ destroyed' = TRUE /\ UNCHANGED heard
Destroys ==
    IF destroyed THEN UNCHANGED <<statusVars, wireVars, bookVars>>
    ELSE Disconnects /\ Cleanup(Peers) /\ destroyed' = TRUE /\ heard' = FALSE

\* _abort.
Aborts ==
    IF hasLastId THEN Disconnects /\ UNCHANGED <<destroyed, heard, bookVars>> ELSE Destroys

\* The aborts that were delayed: an invalid id, no id from the server.
DelayedAbort == pending # "nothing" /\ pending' = "nothing" /\ Aborts /\ UNCHANGED count

\* The id comes from the server, whatever the page has done with the peer since.
IdArrives ==
    /\ pending = "id" /\ pending' = "nothing" /\ Initialize(TRUE)
    /\ UNCHANGED <<hasLastId, open, disconnected, destroyed, early, heard, bookVars, count>>

SocketOpens ==
    /\ socket = "connecting" /\ socket' = "open"
    /\ UNCHANGED <<statusVars, pending, heard, bookVars, count>>

\* The socket is closed by the other end: the peer disconnects if it listens and has not.
SocketDrops ==
    /\ socket # "closed"
    /\ IF heard /\ ~disconnected THEN Disconnects
       ELSE socket' = "closed"
            /\ UNCHANGED <<hasId, hasLastId, open, disconnected, early>>
    /\ UNCHANGED <<pending, destroyed, heard, bookVars, count>>

\* OPEN.
ServerOpens ==
    /\ socket = "open" /\ heard
    /\ hasLastId' = hasId /\ open' = TRUE
    /\ UNCHANGED <<hasId, disconnected, destroyed, early, pending, wireVars, bookVars, count>>

\* ERROR, ID-TAKEN, INVALID-KEY.
ServerRefuses == socket = "open" /\ heard /\ Aborts /\ UNCHANGED <<pending, count>>

Disconnect ==
    /\ ~disconnected /\ Disconnects
    /\ UNCHANGED <<pending, destroyed, heard, bookVars, count>>

Reconnect ==
    /\ disconnected /\ ~destroyed /\ disconnected' = FALSE
    /\ Initialize(hasLastId)
    /\ UNCHANGED <<hasLastId, open, destroyed, early, pending, heard, bookVars, count>>

Destroy == Destroys /\ UNCHANGED <<pending, count>>

-----------------------------------------------------------------------------
(* The connections.                                                        *)

Made(c) == conns' = Append(conns, c) /\ Len(conns) < MaxConns

\* connect and call of the page: a new id, refused when the peer is disconnected.
Connect(id, kind) ==
    /\ ~disconnected /\ count[id] = 0
    /\ \A o \in DOMAIN conns : conns[o].id # id
    /\ Made([id |-> id, kind |-> kind, stage |-> "live", since |-> 0, got |-> <<>>])
    /\ book' = [book EXCEPT ![id[1]] = @ \cup {Len(conns) + 1}]
    /\ UNCHANGED <<statusVars, pending, wireVars, lost, skipped, count>>

\* A mutant of Taken, and: the connection of an offer has its peerConnection at once if it
\* is for data, or when the page answers the call in its handler.
TakenLate(kind, atOnce) == atOnce
Taken(kind, atOnce) ==
    kind = "data" \/ atOnce

\* OFFER: the connection that is there is closed, with the messages stored for it. A data
\* connection, and a call that the page answers in its handler, take those that are
\* stored; a call that the page answers later has no peerConnection when it is handed them.
Offer(id, kind, atOnce) ==
    LET live == Taken(kind, atOnce)
        old == Dropping(Found(id))[id]
    IN  /\ socket = "open" /\ heard /\ Len(conns) < MaxConns
        /\ conns' = Append(Closing(Found(id)),
               [id |-> id, kind |-> kind, stage |-> IF live THEN "live" ELSE "waiting",
                since |-> IF live THEN count[id] - Len(old) ELSE count[id],
                got |-> IF live THEN old ELSE <<>>])
        /\ book' = [Without(Found(id)) EXCEPT ![id[1]] = @ \cup {Len(conns) + 1}]
        /\ lost' = [lost EXCEPT ![id] = <<>>]
        /\ UNCHANGED <<statusVars, pending, wireVars, skipped, count>>

\* ANSWER or CANDIDATE: for the connection in the book if it has a peerConnection,
\* stored otherwise.
Message(id) ==
    LET takers == {o \in Found(id) : conns[o].stage = "live"}
    IN  /\ socket = "open" /\ heard /\ FoldFunction(+, 0, count) < MaxMessages
        /\ count' = [count EXCEPT ![id] = @ + 1]
        /\ conns' = [o \in DOMAIN conns |->
               IF o \in takers THEN [conns[o] EXCEPT !.got = Append(@, count[id] + 1)]
               ELSE conns[o]]
        /\ lost' = [lost EXCEPT ![id] =
               IF takers = {} THEN Append(@, count[id] + 1) ELSE @]
        /\ UNCHANGED <<statusVars, pending, wireVars, book, skipped>>

\* A mutant of Answer, and the page answers a call after its handler: what was stored for
\* it is claimed.
AnswerOnly(o) ==
    /\ conns[o].stage = "waiting"
    /\ conns' = [conns EXCEPT ![o].stage = "live"]
    /\ UNCHANGED <<statusVars, pending, wireVars, book, lost, skipped, count>>
Answer(o) ==
    /\ conns[o].stage = "waiting"
    /\ conns' = [conns EXCEPT ![o].stage = "live", ![o].got = lost[conns[o].id]]
    /\ lost' = [lost EXCEPT ![conns[o].id] = <<>>]
    /\ UNCHANGED <<statusVars, pending, wireVars, book, skipped, count>>

\* close, by the page or because the connection has failed.
Close(o) ==
    /\ conns[o].stage # "closed"
    /\ conns' = Closing({o}) /\ book' = Without({o}) /\ lost' = Dropping({o})
    /\ UNCHANGED <<statusVars, pending, wireVars, skipped, count>>

\* LEAVE.
Leave(p) ==
    /\ socket = "open" /\ heard /\ Cleanup({p})
    /\ UNCHANGED <<statusVars, pending, wireVars, count>>

Next ==
    \/ DelayedAbort \/ IdArrives \/ SocketOpens \/ SocketDrops
    \/ ServerOpens \/ ServerRefuses \/ Disconnect \/ Reconnect \/ Destroy
    \/ \E id \in Ids, kind \in {"media", "data"} : Connect(id, kind)
    \/ \E id \in Ids, kind \in {"media", "data"}, atOnce \in BOOLEAN :
           Offer(id, kind, atOnce)
    \/ \E id \in Ids : Message(id)
    \/ \E o \in DOMAIN conns : Answer(o)
    \/ \E o \in DOMAIN conns : Close(o)
    \/ \E p \in Peers : Leave(p)

Spec == Init /\ [][Next]_vars

-----------------------------------------------------------------------------
(* Properties.                                                             *)

\* Values, and: only a call can be waiting for the page's answer.
TypeOK ==
    /\ hasId \in BOOLEAN /\ hasLastId \in BOOLEAN /\ open \in BOOLEAN
    /\ disconnected \in BOOLEAN /\ destroyed \in BOOLEAN /\ early \in BOOLEAN
    /\ heard \in BOOLEAN
    /\ pending \in {"nothing", "abort", "id"}
    /\ socket \in {"closed", "connecting", "open"}
    /\ conns \in Seq(Conn) /\ skipped \subseteq DOMAIN conns
    /\ book \in [Peers -> SUBSET DOMAIN conns]
    /\ lost \in [Ids -> Seq(Nat)] /\ count \in [Ids -> Nat]
    /\ \A o \in DOMAIN conns : conns[o].stage = "waiting" => conns[o].kind = "media"

\* No connection escapes: one that is not closed is in the book of its peer, and the book
\* holds no other and no two of one id. The one exception is what
\* _cleanupPeer passed over, and it has closed a connection with the same peer that was
\* made before that one.
BookComplete ==
    /\ \A p \in Peers : \A o \in book[p] : conns[o].stage # "closed" /\ Peer(o) = p
    /\ \A id \in Ids : \A o, b \in Found(id) : o = b
    /\ \A o \in DOMAIN conns : conns[o].stage # "closed" =>
           o \in book[Peer(o)] \/ o \in skipped
    /\ \A o \in skipped : \E b \in 1..(o - 1) :
           Peer(b) = Peer(o) /\ conns[b].stage = "closed"

\* The numbers of the messages since a connection was made.
Due(o) == [i \in 1..(count[conns[o].id] - conns[o].since) |-> conns[o].since + i]

\* A message for a connection in the book is taken once and in order: a live one has had
\* all that came since it was made, for a call that waits for the page's answer all of
\* them are stored. (A connection of the same id that _cleanupPeer passed over may still
\* take or delete what is stored.)
NoneMissed ==
    \A p \in Peers : \A o \in book[p] :
        (\A s \in skipped : conns[s].id # conns[o].id) =>
            IF conns[o].stage = "live" THEN conns[o].got = Due(o) /\ lost[conns[o].id] = <<>>
            ELSE lost[conns[o].id] = Due(o)

\* A destroyed peer has no connection and never gets one, not even when its id arrives
\* after destroy and opens a socket to the server.
DestroyedStaysEmpty ==
    destroyed => \A p \in Peers : book[p] = {}

\* The peer knows its server: it is disconnected just when it has no socket, it says it is
\* open only with a socket that is, and with a socket it has an id. All of it is lost when
\* the page disconnects before the constructor's work is done.
SocketFollows ==
    ~early =>
        /\ pending = "nothing" => (disconnected <=> socket = "closed")
        /\ open => socket = "open"
        /\ socket # "closed" => hasId
=============================================================================
