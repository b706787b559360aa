----------------------------- MODULE CallPages -----------------------------
(***************************************************************************)
(* The video call pages (html/js/videocall.js) of several users: who       *)
(* registers at the PeerJS server, the one data connection each page makes *)
(* for its own messages, the handshake call / accept / accept-ok, and the  *)
(* media calls that carry the streams.                                     *)
(*                                                                         *)
(* A page is one JavaScript thread: a step is one callback, run to its     *)
(* end. What the library does in between (a connection opens or closes, a  *)
(* message arrives, a media call rings, a stream begins) is a step of its  *)
(* own. A call rings at whoever has the id; the pages answer every call.   *)
(***************************************************************************)
EXTENDS PageCodes, FiniteSets

CONSTANTS
    Users,        \* the people with a page open; also stands for their names
    Spelling,     \* a name as the sequence of its character codes
    None,
    Tracks,       \* 'stream' is emitted once per track of the stream
    MaxClicks     \* bound: clicks on "call"

Message == [from : Users, to : Users, action : {"call", "accept", "accept-ok"}]
Msg(from, to, action) == [from |-> from, to |-> to, action |-> action]

\* A media call that page makes when it handles msg (n tells equal ones apart); and
\* one that was answered.
Call == [page : Users, msg : Message, n : Nat]
Answered == [call : Call, by : Users, due : Nat \ {0}]

Connection == [st : {"opening", "open", "closed"}, to : Users, first : Message,
               page : Users \cup {None}]

ASSUME CallAssumption ==
    /\ None \notin Users /\ None \notin Connection
    /\ Spelling \in [Users -> Seq(Nat) \ {<<>>}]
    /\ Tracks \in Nat \ {0}
    /\ MaxClicks \in Nat

VARIABLES
    peer,      \* per page: its Peer: "none", "opening", "open", "off" (destroyed or disconnected)
    stream,    \* per page: is there a localStream
    conn,      \* per page: localConn
    link,      \* per page: messages on their way over localConn
    dialog,    \* per page: the message the open dialog asks about
    ringing,   \* media calls that ring
    playing,   \* answered media calls, with the events 'stream' still due
    remote,    \* per page: whose stream remoteVideo shows
    clicks,    \* clicks on "call" so far
    agreed,    \* history: <<u, v>> if u has called v or accepted a call from v
    seen,      \* history: <<u, v>> if v's stream was shown to u
    accepts,   \* history: accept messages handled
    calls,     \* history: media calls placed
    astray,    \* history: something reached a page whose user it was not meant for
    mishap     \* history: a message was dropped, a media call came to nothing, or the
               \* server or a connection was lost

netVars == <<conn, link>>
mediaVars == <<ringing, playing, remote, seen>>
history == <<agreed, accepts, calls, astray, mishap>>
vars == <<peer, stream, netVars, dialog, mediaVars, clicks, history>>

-----------------------------------------------------------------------------
(* Ids: new Peer(hashCode(name)). An id must be alphanumeric, so a minus    *)
(* sign makes it invalid; 0 is no id at all, and the server invents one.    *)

PeerId(u) == HashCode(Spelling[u])
ValidId(u) == PeerId(u) >= 0
Named(u) == PeerId(u) # 0

\* The page that messages and calls to the id of u reach, if any.
Reaches(u, page) == peer[page] = "open" /\ Named(page) /\ PeerId(page) = PeerId(u)

Init ==
    /\ peer = [u \in Users |-> "none"]
    /\ stream = [u \in Users |-> FALSE]
    /\ conn = [u \in Users |-> None]
    /\ link = [u \in Users |-> <<>>]
    /\ dialog = [u \in Users |-> None]
    /\ ringing = {} /\ playing = {}
    /\ remote = [u \in Users |-> None]
    /\ clicks = 0
    /\ agreed = {} /\ seen = {} /\ accepts = 0 /\ calls = 0
    /\ astray = FALSE /\ mishap = FALSE

-----------------------------------------------------------------------------
(* Registration.                                                            *)

\* Click on "register": the Peer is made once; an invalid id destroys it.
Register(u) ==
    /\ peer[u] = "none"
    /\ peer' = [peer EXCEPT ![u] = IF ValidId(u) THEN "opening" ELSE "off"]
    /\ UNCHANGED <<stream, netVars, dialog, mediaVars, clicks, history>>

\* The server accepts the id, or has given it to somebody else: the Peer is destroyed.
ServerAnswers(u) ==
    /\ peer[u] = "opening"
    /\ LET taken == Named(u) /\ \E v \in Users : Reaches(u, v)
       IN  peer' = [peer EXCEPT ![u] = IF taken THEN "off" ELSE "open"]
    /\ UNCHANGED <<stream, netVars, dialog, mediaVars, clicks, history>>

\* The socket to the server is lost: the Peer disconnects, its connections live on.
LoseServer(u) ==
    /\ peer[u] = "open"
    /\ peer' = [peer EXCEPT ![u] = "off"]
    /\ mishap' = TRUE
    /\ UNCHANGED <<stream, netVars, dialog, mediaVars, clicks, agreed, accepts, calls, astray>>

\* getUserMedia has a stream: gotStream.
GotStream(u) ==
    /\ ~stream[u]
    /\ stream' = [stream EXCEPT ![u] = TRUE]
    /\ UNCHANGED <<peer, netVars, dialog, mediaVars, clicks, history>>

-----------------------------------------------------------------------------
(* sendMessage: the first message makes localConn, to the user it is for,   *)
(* and goes out when that opens; later ones go over it whoever they are     *)
(* for, if it is open, and are dropped otherwise. An offer made before the  *)
(* server knows the page is lost. lost says that the message was dropped.   *)

SendMessage(u, m, lost) ==
    \/ /\ conn[u] = None /\ peer[u] \in {"open", "opening"}
       /\ \E st \in IF peer[u] = "open" THEN {"opening"} ELSE {"opening", "closed"} :
              /\ conn' = [conn EXCEPT ![u] =
                              [st |-> st, to |-> m.to, first |-> m, page |-> None]]
              /\ lost = (st = "closed")
       /\ UNCHANGED link
    \/ /\ conn[u] = None /\ peer[u] = "off"          \* connect returns undefined
       /\ lost = TRUE
       /\ UNCHANGED netVars
    \/ /\ conn[u] # None
       /\ lost = (conn[u].st # "open")
       /\ link' = IF lost THEN link ELSE [link EXCEPT ![u] = Append(@, m)]
       /\ UNCHANGED conn

\* Click on "call" for t. Without a Peer there is an exception and no message.
ClickCall(u, t) ==
    /\ clicks < MaxClicks
    /\ peer[u] # "none" /\ t # u
    /\ clicks' = clicks + 1
    /\ \E lost \in BOOLEAN : /\ SendMessage(u, Msg(u, t, "call"), lost)
                             /\ mishap' = (mishap \/ lost)
    /\ agreed' = agreed \cup {<<u, t>>}
    /\ UNCHANGED <<peer, stream, dialog, mediaVars, accepts, calls, astray>>

\* "Accept" in the dialog. The answer names the users as the question did.
ClickAccept(w) ==
    /\ dialog[w] # None
    /\ LET m == dialog[w]
       IN  /\ \E lost \in BOOLEAN : /\ SendMessage(w, Msg(m.to, m.from, "accept"), lost)
                                    /\ mishap' = (mishap \/ lost)
           /\ agreed' = agreed \cup {<<w, m.from>>}
    /\ dialog' = [dialog EXCEPT ![w] = None]
    /\ UNCHANGED <<peer, stream, mediaVars, clicks, accepts, calls, astray>>

\* A mutant: "Cancel" answers like "Accept".
ClickCancelAnswers(w) ==
    /\ dialog[w] # None
    /\ \E lost \in BOOLEAN :
           /\ SendMessage(w, Msg(dialog[w].to, dialog[w].from, "accept"), lost)
           /\ mishap' = (mishap \/ lost)
    /\ dialog' = [dialog EXCEPT ![w] = None]
    /\ UNCHANGED <<peer, stream, mediaVars, clicks, agreed, accepts, calls, astray>>

\* "Cancel" in the dialog: nobody is told.
ClickCancel(w) ==
    /\ dialog[w] # None
    /\ dialog' = [dialog EXCEPT ![w] = None]
    /\ UNCHANGED <<peer, stream, netVars, mediaVars, clicks, history>>

-----------------------------------------------------------------------------
(* The library: data connections.                                          *)

\* localConn opens at the page that has the id now, and sends the first message.
ConnOpens(u) ==
    /\ conn[u] # None /\ conn[u].st = "opening" /\ peer[u] = "open"
    /\ \E w \in Users \ {u} :
           /\ Reaches(conn[u].to, w)
           /\ conn' = [conn EXCEPT ![u].st = "open", ![u].page = w]
    /\ link' = [link EXCEPT ![u] = Append(@, conn[u].first)]
    /\ UNCHANGED <<peer, stream, dialog, mediaVars, clicks, history>>

\* It never opens, or breaks with what is on its way.
ConnCloses(u) ==
    /\ conn[u] # None /\ conn[u].st # "closed"
    /\ conn' = [conn EXCEPT ![u].st = "closed"]
    /\ link' = [link EXCEPT ![u] = <<>>]
    /\ mishap' = TRUE
    /\ UNCHANGED <<peer, stream, dialog, mediaVars, clicks, agreed, accepts, calls, astray>>

\* The message at the head of u's connection arrives at page w: the callback 'data'.
Arrives(u, w, action) ==
    /\ link[u] # <<>>
    /\ w = conn[u].page
    /\ Head(link[u]).action = action
    /\ link' = [link EXCEPT ![u] = Tail(@)]
    /\ astray' = (astray \/ Head(link[u]).to # w)
    /\ UNCHANGED conn

\* "call": the dialog opens, or asks about this call instead.
ReceiveCall(u) ==
    \E w \in Users :
        /\ Arrives(u, w, "call")
        /\ dialog' = [dialog EXCEPT ![w] = Head(link[u])]
        /\ UNCHANGED <<peer, stream, mediaVars, clicks, agreed, accepts, calls, mishap>>

\* peer.call(hashCode(msg.from), localStream). It returns undefined without a stream
\* or a server, and call.on throws.
PlaceCall(w, m) ==
    IF peer[w] = "open" /\ stream[w]
    THEN /\ \E n \in 0..calls :
                LET call(k) == [page |-> w, msg |-> m, n |-> k]
                    used == ringing \cup {a.call : a \in playing}
                IN  /\ call(n) \notin used
                    /\ \A k \in 0..(n - 1) : call(k) \in used
                    /\ ringing' = ringing \cup {call(n)}
         /\ calls' = calls + 1
         /\ UNCHANGED mishap
    ELSE /\ mishap' = TRUE
         /\ UNCHANGED <<ringing, calls>>

\* "accept": the page calls the one who has accepted.
ReceiveAccept(u) ==
    \E w \in Users :
        /\ Arrives(u, w, "accept")
        /\ PlaceCall(w, Head(link[u]))
        /\ accepts' = accepts + 1
        /\ UNCHANGED <<peer, stream, dialog, playing, remote, seen, clicks, agreed>>

\* A mutant: "accept-ok" is taken for the end of the handshake.
ReceiveAcceptOkOnly(u) ==
    \E w \in Users :
        /\ Arrives(u, w, "accept-ok")
        /\ UNCHANGED <<peer, stream, dialog, mediaVars, clicks, agreed, accepts, calls, mishap>>

\* "accept-ok": the page calls back.
ReceiveAcceptOk(u) ==
    \E w \in Users :
        /\ Arrives(u, w, "accept-ok")
        /\ PlaceCall(w, Head(link[u]))
        /\ UNCHANGED <<peer, stream, dialog, playing, remote, seen, clicks, agreed, accepts>>

-----------------------------------------------------------------------------
(* The library: media calls.                                               *)

\* A call reaches page x, which answers it with its localStream, if it has one.
Ring(c, x) ==
    /\ x # c.page /\ Reaches(c.msg.from, x)
    /\ ringing' = ringing \ {c}
    /\ IF stream[x]
       THEN /\ playing' = playing \cup {[call |-> c, by |-> x, due |-> Tracks]}
            /\ UNCHANGED mishap
       ELSE mishap' = TRUE /\ UNCHANGED playing
    /\ astray' = (astray \/ x # c.msg.from)
    /\ UNCHANGED <<peer, stream, netVars, dialog, remote, seen, clicks, agreed, accepts, calls>>

\* Nobody has the id, or the negotiation fails.
RingFails(c) ==
    /\ ringing' = ringing \ {c}
    /\ mishap' = TRUE
    /\ UNCHANGED <<peer, stream, netVars, dialog, playing, remote, seen, clicks, agreed,
                   accepts, calls, astray>>

\* Two mutants: every 'stream' event sends "accept-ok"; the events never end.
StreamBeginsReplies(a) ==
    LET page == a.call.page
        m == a.call.msg
    IN  /\ playing' = playing \ {a}
        /\ remote' = [remote EXCEPT ![page] = a.by]
        /\ seen' = seen \cup {<<page, a.by>>}
        /\ \E lost \in BOOLEAN : /\ SendMessage(page, Msg(m.to, m.from, "accept-ok"), lost)
                                 /\ mishap' = (mishap \/ lost)
        /\ UNCHANGED <<peer, stream, dialog, ringing, clicks, agreed, accepts, calls, astray>>

StreamBeginsAgain(a) ==
    /\ playing' = (playing \ {a}) \cup {[a EXCEPT !.due = @ - 1]}
    /\ remote' = [remote EXCEPT ![a.call.page] = a.by]
    /\ seen' = seen \cup {<<a.call.page, a.by>>}
    /\ UNCHANGED <<peer, stream, netVars, dialog, ringing, clicks, history>>

\* A mutant: "accept-ok" names the users in the order in which "accept" does.
StreamBeginsUnswapped(a) ==
    /\ playing' = playing \ {a}
    /\ remote' = [remote EXCEPT ![a.call.page] = a.by]
    /\ seen' = seen \cup {<<a.call.page, a.by>>}
    /\ \E lost \in BOOLEAN :
           /\ SendMessage(a.call.page, [a.call.msg EXCEPT !.action = "accept-ok"], lost)
           /\ mishap' = (mishap \/ lost)
    /\ UNCHANGED <<peer, stream, dialog, ringing, clicks, agreed, accepts, calls, astray>>

\* 'stream' at the caller: remoteVideo shows it; the one whose invitation was
\* accepted says so, every time.
StreamBegins(a) ==
    LET page == a.call.page
        m == a.call.msg
    IN  /\ playing' = (playing \ {a}) \cup
                          IF a.due > 1 THEN {[a EXCEPT !.due = @ - 1]} ELSE {}
        /\ remote' = [remote EXCEPT ![page] = a.by]
        /\ seen' = seen \cup {<<page, a.by>>}
        /\ IF m.action = "accept"
           THEN \E lost \in BOOLEAN : /\ SendMessage(page, Msg(m.to, m.from, "accept-ok"), lost)
                                      /\ mishap' = (mishap \/ lost)
           ELSE UNCHANGED <<netVars, mishap>>
        /\ UNCHANGED <<peer, stream, dialog, ringing, clicks, agreed, accepts, calls, astray>>

-----------------------------------------------------------------------------
Next ==
    \/ \E u \in Users :
           \/ Register(u) \/ ServerAnswers(u) \/ LoseServer(u) \/ GotStream(u)
           \/ \E t \in Users : ClickCall(u, t)
           \/ ClickAccept(u) \/ ClickCancel(u)
           \/ ConnOpens(u) \/ ConnCloses(u)
           \/ ReceiveCall(u) \/ ReceiveAccept(u) \/ ReceiveAcceptOk(u)
    \/ \E c \in ringing : RingFails(c) \/ \E x \in Users : Ring(c, x)
    \/ \E a \in playing : StreamBegins(a)

Spec == Init /\ [][Next]_vars

\* The network delivers and the browsers run their callbacks: as long as something can
\* arrive, something does.
Library ==
    \/ \E u \in Users : ConnOpens(u) \/ ReceiveCall(u) \/ ReceiveAccept(u) \/ ReceiveAcceptOk(u)
    \/ \E c \in ringing : \E x \in Users : Ring(c, x)
    \/ \E a \in playing : StreamBegins(a)

FairSpec == Spec /\ WF_vars(Library)

-----------------------------------------------------------------------------
(* Properties.                                                             *)

TypeOK ==
    /\ peer \in [Users -> {"none", "opening", "open", "off"}]
    /\ stream \in [Users -> BOOLEAN]
    /\ conn \in [Users -> Connection \cup {None}]
    /\ link \in [Users -> Seq(Message)]
    /\ \A u \in Users :
           /\ link[u] # <<>> => conn[u] # None /\ conn[u].page \in Users
           /\ conn[u] # None /\ conn[u].st = "open" => conn[u].page \in Users
    /\ dialog \in [Users -> Message \cup {None}]
    /\ ringing \subseteq Call /\ playing \subseteq Answered
    /\ remote \in [Users -> Users \cup {None}]
    /\ agreed \subseteq Users \X Users /\ seen \subseteq Users \X Users
    /\ clicks \in Nat /\ accepts \in Nat /\ calls \in Nat
    /\ astray \in BOOLEAN /\ mishap \in BOOLEAN

\* Nobody is shown to a page unless both its user and he have called the other or
\* accepted his call: the pages answer every media call unasked, and only the
\* handshake before it asks. That holds as long as no message and no call reaches
\* another page than the one it is for.
ShownIsAgreed ==
    \A u \in Users : remote[u] # None /\ ~astray
                        => {<<u, remote[u]>>, <<remote[u], u>>} \subseteq agreed

\* The same without the exception: what the dialog of the pages is there for. A
\* localConn made for somebody else takes the invitation to the wrong page, whose
\* answer then names a user who was never asked.
NobodyIsShownUnasked ==
    \A u \in Users : remote[u] # None => <<remote[u], u>> \in agreed

DistinctIds == \A u, v \in Users : Named(u) /\ PeerId(u) = PeerId(v) => u = v
EachWithOne == \A s, t \in agreed : s[1] = t[1] => s = t

\* What goes astray is explained by two names with one hash, or by a user who has called
\* or answered two people, for whom there is one localConn: nothing else in the pages,
\* neither the swap of from and to in the answers nor the ids they connect to and call,
\* takes a message or a stream to the wrong user.
AstrayExplained == DistinctIds /\ EachWithOne => ~astray

\* One accepted invitation makes one media call, and one more for each 'stream' event
\* of that: the handshake comes to an end though every event is answered anew.
CallsBounded == calls <= accepts * (1 + Tracks)

AcceptSent(q, p) ==
    /\ conn[q] # None
    /\ \/ conn[q].st = "opening" /\ conn[q].first = Msg(q, p, "accept")
       \/ \E i \in DOMAIN link[q] : link[q][i] = Msg(q, p, "accept")

Callable == {u \in Users : Named(u) /\ ValidId(u)}

\* An invitation that was accepted ends with both seeing each other, unless something
\* on the way is dropped, refused or sent to the wrong page.
AcceptedIsSeen ==
    \A pair \in {pq \in Callable \X Callable : pq[1] # pq[2]} :
        AcceptSent(pair[2], pair[1])
            ~> \/ {pair, <<pair[2], pair[1]>>} \subseteq seen
               \/ astray \/ mishap
=============================================================================
