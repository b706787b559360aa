--------------------------- MODULE PeerBookProofs ---------------------------
(***************************************************************************)
(* Proofs about PeerBook for any peers and connection ids.                 *)
(***************************************************************************)
EXTENDS PeerBook, FiniteSetTheorems, SequenceTheorems, WellFoundedInduction, TLAPS

USE DEF statusVars, wireVars, bookVars

-----------------------------------------------------------------------------
(* The peer and its server. What the book holds does not matter here.      *)

\* The flags and the socket have their values.
StatusOK ==
    /\ hasId \in BOOLEAN /\ hasLastId \in BOOLEAN /\ open \in BOOLEAN
    /\ disconnected \in BOOLEAN /\ destroyed \in BOOLEAN /\ early \in BOOLEAN
    /\ heard \in BOOLEAN
    /\ pending \in {"nothing", "abort", "id"}
    /\ socket \in {"closed", "connecting", "open"}

\* What SocketFollows needs: a peer that was not disconnected early has its id as long as it
\* has one to lose, and has not begun before the constructor's work is done.
Following ==
    /\ SocketFollows
    /\ ~early /\ disconnected => hasLastId
    /\ ~early /\ pending # "nothing" => ~disconnected /\ socket = "closed" /\ ~open

\* What DestroyedStaysEmpty needs: a destroyed peer, and no other, hears nothing, and it is
\* disconnected.
Ended ==
    /\ DestroyedStaysEmpty
    /\ destroyed <=> ~heard
    /\ destroyed => disconnected

\* disconnect keeps the values.
LEMMA DisconnectsStatus ==
  ASSUME StatusOK, Disconnects, UNCHANGED <<destroyed, heard>>, pending' \in {pending, "nothing"}
  PROVE  StatusOK' /\ disconnected'
BY DEF StatusOK, Disconnects

\* disconnect leaves the peer as SocketFollows wants it.
LEMMA DisconnectsFollows ==
  ASSUME StatusOK, Following, Disconnects, pending' \in {pending, "nothing"}
  PROVE  Following'
BY DEF StatusOK, Following, SocketFollows, Disconnects

\* destroy does so too.
LEMMA DestroysFollows ==
  ASSUME StatusOK, Following, Ended, Destroys, pending' \in {pending, "nothing"}
  PROVE  StatusOK' /\ Following' /\ Ended'
<1>1. CASE destroyed
  BY <1>1 DEF StatusOK, Following, SocketFollows, Ended, DestroyedStaysEmpty, Destroys
<1>2. CASE ~destroyed
  <2>1. Disconnects /\ Cleanup(Peers) /\ destroyed' = TRUE /\ heard' = FALSE
    BY <1>2 DEF Destroys
  <2>2. StatusOK' /\ disconnected'
    BY <2>1 DEF StatusOK, Disconnects
  <2>3. \A p \in Peers : book'[p] = {}
    BY <2>1 DEF Cleanup
  <2>4. Ended'
    BY <2>1, <2>2, <2>3 DEF Ended, DestroyedStaysEmpty
  <2> QED BY <2>1, <2>2, <2>4, DisconnectsFollows
<1> QED BY <1>1, <1>2 DEF StatusOK

\* Every step keeps the three.
LEMMA ServerStep ==
  ASSUME StatusOK, Following, Ended, [Next]_vars
  PROVE  StatusOK' /\ Following' /\ Ended'
<1> USE DEF StatusOK, Following, SocketFollows, Ended, DestroyedStaysEmpty
<1>1. ASSUME Aborts, pending' \in {pending, "nothing"}
      PROVE  StatusOK' /\ Following' /\ Ended'
  <2>1. CASE hasLastId
    <3>1. Disconnects /\ UNCHANGED <<destroyed, heard, book>>
      BY <1>1, <2>1 DEF Aborts
    <3>2. StatusOK' /\ disconnected'
      BY <1>1, <3>1, DisconnectsStatus
    <3>3. Following'
      BY <1>1, <3>1, DisconnectsFollows
    <3> QED BY <3>1, <3>2, <3>3
  <2>2. CASE ~hasLastId
    BY <1>1, <2>2, DestroysFollows DEF Aborts
  <2> QED BY <2>1, <2>2
<1>2. CASE DelayedAbort
  BY <1>1, <1>2 DEF DelayedAbort
<1>3. CASE IdArrives
  BY <1>3 DEF IdArrives, Initialize
<1>4. CASE SocketOpens
  BY <1>4 DEF SocketOpens
<1>5. CASE SocketDrops
  BY <1>5 DEF SocketDrops, Disconnects
<1>6. CASE ServerOpens
  BY <1>6 DEF ServerOpens
<1>7. CASE ServerRefuses
  BY <1>1, <1>7 DEF ServerRefuses
<1>8. CASE Disconnect
  BY <1>8 DEF Disconnect, Disconnects
<1>9. CASE Reconnect
  BY <1>9 DEF Reconnect, Initialize
<1>10. CASE Destroy
  BY <1>10, DestroysFollows DEF Destroy
<1>11. ASSUME NEW id \in Ids, NEW kind \in {"media", "data"}, Connect(id, kind)
       PROVE  StatusOK' /\ Following' /\ Ended'
  BY <1>11 DEF Connect
<1>12. ASSUME NEW id \in Ids, NEW kind \in {"media", "data"}, NEW atOnce \in BOOLEAN,
              Offer(id, kind, atOnce)
       PROVE  StatusOK' /\ Following' /\ Ended'
  BY <1>12 DEF Offer
<1>13. ASSUME NEW id \in Ids, Message(id)
       PROVE  StatusOK' /\ Following' /\ Ended'
  BY <1>13 DEF Message
<1>14. ASSUME NEW o \in DOMAIN conns, Answer(o)
       PROVE  StatusOK' /\ Following' /\ Ended'
  BY <1>14 DEF Answer
<1>15. ASSUME NEW o \in DOMAIN conns, Close(o)
       PROVE  StatusOK' /\ Following' /\ Ended'
  BY <1>15 DEF Close, Without
<1>16. ASSUME NEW p \in Peers, Leave(p)
       PROVE  StatusOK' /\ Following' /\ Ended'
  BY <1>16 DEF Leave
<1>17. CASE UNCHANGED vars
  BY <1>17 DEF vars
<1> QED
  BY <1>2, <1>3, <1>4, <1>5, <1>6, <1>7, <1>8, <1>9, <1>10, <1>11, <1>12, <1>13, <1>14,
     <1>15, <1>16, <1>17 DEF Next

\* A new peer has the three.
LEMMA ServerInit == Init => StatusOK /\ Following /\ Ended
BY DEF Init, StatusOK, Following, SocketFollows, Ended, DestroyedStaysEmpty

\* They hold in every reachable state.
LEMMA ServerInvariant == Spec => [](StatusOK /\ Following /\ Ended)
<1>1. StatusOK /\ Following /\ Ended /\ [Next]_vars => (StatusOK /\ Following /\ Ended)'
  BY ServerStep
<1> QED BY ServerInit, <1>1, PTL DEF Spec

\* destroy is final: no callback of the socket, of the server or of the constructor that comes
\* after it puts a connection into the book (peerjs.js, Peer.prototype.destroy).
THEOREM DestroyedIsEmpty == Spec => []DestroyedStaysEmpty
<1>1. StatusOK /\ Following /\ Ended => DestroyedStaysEmpty
  BY DEF Ended
<1> QED BY ServerInvariant, <1>1, PTL

\* The flags of the peer agree with its socket, unless the page disconnects before the
\* constructor's work is done (peerjs.js, Peer.prototype.disconnect and reconnect).
THEOREM SocketIsFollowed == Spec => []SocketFollows
<1>1. StatusOK /\ Following /\ Ended => SocketFollows
  BY DEF Following
<1> QED BY ServerInvariant, <1>1, PTL

-----------------------------------------------------------------------------
(* The book.                                                               *)

\* No more messages are stored for an id than have arrived.
Bounded == \A id \in Ids : Len(lost[id]) <= count[id]

\* close changes nothing of a connection but its stage.
LEMMA ClosingConns ==
  ASSUME conns \in Seq(Conn), NEW S
  PROVE  /\ Closing(S) \in Seq(Conn) /\ Len(Closing(S)) = Len(conns)
         /\ DOMAIN Closing(S) = DOMAIN conns
         /\ \A o \in DOMAIN conns :
                /\ Closing(S)[o].id = conns[o].id /\ Closing(S)[o].kind = conns[o].kind
                /\ Closing(S)[o].since = conns[o].since /\ Closing(S)[o].got = conns[o].got
                /\ Closing(S)[o].stage = IF o \in S THEN "closed" ELSE conns[o].stage
<1>1. \A o \in DOMAIN conns : conns[o] \in Conn
  OBVIOUS
<1>2. \A o \in DOMAIN conns : Closing(S)[o] \in Conn
  BY <1>1 DEF Closing, Conn
<1>3. DOMAIN Closing(S) = 1..Len(conns) /\ Len(conns) \in Nat
  BY DEF Closing
<1>4. Closing(S) = [o \in 1..Len(conns) |-> Closing(S)[o]]
  BY <1>3 DEF Closing
<1>5. Closing(S) \in Seq(Conn) /\ Len(Closing(S)) = Len(conns)
  BY <1>2, <1>3, <1>4, IsASeq
<1> QED BY <1>1, <1>3, <1>5 DEF Closing, Conn

\* A stored message is deleted with all that are stored for its id.
LEMMA DroppingLost ==
  ASSUME lost \in [Ids -> Seq(Nat)], NEW S
  PROVE  /\ Dropping(S) \in [Ids -> Seq(Nat)]
         /\ \A id \in Ids : Dropping(S)[id] = lost[id]
                \/ (Dropping(S)[id] = <<>> /\ \E o \in S : conns[o].id = id)
<1>1. \A id \in Ids : Dropping(S)[id] \in Seq(Nat)
  BY EmptySeq DEF Dropping
<1>2. DOMAIN Dropping(S) = Ids
  BY DEF Dropping
<1> QED BY <1>1, <1>2 DEF Dropping

\* _cleanupPeer keeps the values, and closes what it takes out of the book.
LEMMA CleanupBook ==
  ASSUME TypeOK, Bounded, NEW P \in SUBSET Peers, Cleanup(P)
  PROVE  /\ conns' \in Seq(Conn) /\ DOMAIN conns' = DOMAIN conns
         /\ \A o \in DOMAIN conns :
                /\ conns'[o].id = conns[o].id /\ conns'[o].kind = conns[o].kind
                /\ conns'[o].since = conns[o].since /\ conns'[o].got = conns[o].got
                /\ conns'[o].stage \in {conns[o].stage, "closed"}
         /\ skipped' \subseteq DOMAIN conns
         /\ book' \in [Peers -> SUBSET DOMAIN conns]
         /\ lost' \in [Ids -> Seq(Nat)]
         /\ \A id \in Ids : lost'[id] \in {lost[id], <<>>}
<1> DEFINE passed == UNION {Skipped(p) : p \in P}
           S == (UNION {book[p] : p \in P}) \ passed
<1>1. conns' = Closing(S) /\ lost' = Dropping(S) /\ skipped' = skipped \cup passed
      /\ book' = [p \in Peers |-> IF p \in P THEN {} ELSE book[p]]
  BY DEF Cleanup
<1>2. passed \subseteq DOMAIN conns
  BY DEF TypeOK, Skipped
<1> HIDE DEF S, passed
<1>3. conns' \in Seq(Conn) /\ DOMAIN conns' = DOMAIN conns
      /\ \A o \in DOMAIN conns :
            /\ conns'[o].id = conns[o].id /\ conns'[o].kind = conns[o].kind
            /\ conns'[o].since = conns[o].since /\ conns'[o].got = conns[o].got
            /\ conns'[o].stage \in {conns[o].stage, "closed"}
  BY <1>1, ClosingConns DEF TypeOK
<1>4. lost' \in [Ids -> Seq(Nat)] /\ \A id \in Ids : lost'[id] \in {lost[id], <<>>}
  BY <1>1, DroppingLost DEF TypeOK
<1>5. skipped' \subseteq DOMAIN conns
  BY <1>1, <1>2 DEF TypeOK
<1>6. book' \in [Peers -> SUBSET DOMAIN conns]
  BY <1>1 DEF TypeOK
<1> QED BY <1>3, <1>4, <1>5, <1>6

\* The part of the state that the book is.
BookTyped ==
    /\ conns \in Seq(Conn) /\ skipped \subseteq DOMAIN conns
    /\ book \in [Peers -> SUBSET DOMAIN conns]
    /\ lost \in [Ids -> Seq(Nat)] /\ count \in [Ids -> Nat]
    /\ \A o \in DOMAIN conns : conns[o].stage = "waiting" => conns[o].kind = "media"
    /\ Bounded

\* _cleanupPeer keeps it.
LEMMA CleanupTyped ==
  ASSUME TypeOK, Bounded, NEW P \in SUBSET Peers, Cleanup(P), UNCHANGED count
  PROVE  BookTyped'
<1>1. count \in [Ids -> Nat]
      /\ \A o \in DOMAIN conns : conns[o].stage = "waiting" => conns[o].kind = "media"
  BY DEF TypeOK
<1>2. Bounded'
  BY CleanupBook, <1>1 DEF Bounded
<1>3. \A o \in DOMAIN conns' : conns'[o].stage = "waiting" => conns'[o].kind = "media"
  BY CleanupBook, <1>1
<1> QED BY CleanupBook, <1>1, <1>2, <1>3 DEF BookTyped

\* A connection that is made is put at the end.
LEMMA Appended ==
  ASSUME NEW s \in Seq(Conn), NEW c \in Conn
  PROVE  /\ Append(s, c) \in Seq(Conn) /\ Len(Append(s, c)) = Len(s) + 1
         /\ DOMAIN Append(s, c) = DOMAIN s \cup {Len(s) + 1}
         /\ \A o \in DOMAIN s : Append(s, c)[o] = s[o]
         /\ Append(s, c)[Len(s) + 1] = c
         /\ Len(s) + 1 \notin DOMAIN s
OBVIOUS

\* The end of the other end's id is a peer.
LEMMA IdHasPeer == \A id \in Ids : id[1] \in Peers
BY BookAssumption

\* So the connection is with a peer.
LEMMA ConnHasPeer == ASSUME NEW c \in Conn PROVE c.id \in Ids /\ c.id[1] \in Peers
<1>1. c.id \in Ids
  BY DEF Conn
<1> QED BY <1>1, IdHasPeer

\* What becomes of the book when the peer is disconnected or destroyed.
LEMMA AbortsBook ==
  ASSUME Aborts \/ Destroys
  PROVE  Cleanup(Peers) \/ UNCHANGED bookVars
BY DEF Aborts, Destroys

\* Every step keeps the values and the bound.
LEMMA TypedStep ==
  ASSUME TypeOK, Bounded, [Next]_vars
  PROVE  BookTyped'
<1>1. BookTyped
  BY DEF TypeOK, BookTyped
<1>2. ASSUME UNCHANGED <<bookVars, count>>
      PROVE  BookTyped'
  BY <1>1, <1>2 DEF BookTyped, Bounded
<1>3. ASSUME Aborts \/ Destroys, UNCHANGED count
      PROVE  BookTyped'
  BY <1>2, <1>3, AbortsBook, CleanupTyped
<1>4. CASE DelayedAbort \/ ServerRefuses \/ Destroy
  BY <1>3, <1>4 DEF DelayedAbort, ServerRefuses, Destroy
<1>5. CASE IdArrives \/ SocketOpens \/ SocketDrops \/ ServerOpens \/ Disconnect \/ Reconnect
  BY <1>2, <1>5 DEF IdArrives, SocketOpens, SocketDrops, ServerOpens, Disconnect, Reconnect
<1>6. ASSUME NEW id \in Ids, NEW kind \in {"media", "data"}, Connect(id, kind)
      PROVE  BookTyped'
  <2> DEFINE c == [id |-> id, kind |-> kind, stage |-> "live", since |-> 0, got |-> <<>>]
  <2>1. c \in Conn
    BY DEF Conn
  <2>2. conns' = Append(conns, c) /\ UNCHANGED <<lost, skipped, count>>
        /\ book' = [book EXCEPT ![id[1]] = @ \cup {Len(conns) + 1}]
    BY <1>6 DEF Connect, Made
  <2>3. conns' \in Seq(Conn) /\ DOMAIN conns' = DOMAIN conns \cup {Len(conns) + 1}
        /\ \A o \in DOMAIN conns' : conns'[o].stage = "waiting" => conns'[o].kind = "media"
    BY <1>1, <2>1, <2>2, Appended DEF BookTyped
  <2>4. book' \in [Peers -> SUBSET DOMAIN conns']
    BY <1>1, <2>2, <2>3 DEF BookTyped
  <2> QED BY <1>1, <2>2, <2>3, <2>4 DEF BookTyped, Bounded
<1>7. ASSUME NEW id \in Ids, NEW kind \in {"media", "data"}, NEW atOnce \in BOOLEAN,
             Offer(id, kind, atOnce)
      PROVE  BookTyped'
  <2> DEFINE live == Taken(kind, atOnce)
             old == Dropping(Found(id))[id]
             c == [id |-> id, kind |-> kind, stage |-> IF live THEN "live" ELSE "waiting",
                   since |-> IF live THEN count[id] - Len(old) ELSE count[id],
                   got |-> IF live THEN old ELSE <<>>]
  <2>1. conns' = Append(Closing(Found(id)), c) /\ UNCHANGED <<skipped, count>>
        /\ lost' = [lost EXCEPT ![id] = <<>>]
        /\ book' = [Without(Found(id)) EXCEPT ![id[1]] = @ \cup {Len(conns) + 1}]
    BY <1>7 DEF Offer
  <2>2. old \in Seq(Nat) /\ Len(old) <= count[id] /\ count[id] \in Nat
    BY <1>1, DroppingLost DEF BookTyped, Bounded
  <2>3. c \in Conn /\ (c.stage = "waiting" => c.kind = "media")
    <3> HIDE DEF old
    <3>1. live \in BOOLEAN
      BY DEF Taken
    <3>2. count[id] - Len(old) \in Nat
      BY <2>2
    <3> QED BY <2>2, <3>1, <3>2 DEF Conn, Taken
  <2> HIDE DEF old, live, c
  <2>4. conns' \in Seq(Conn) /\ DOMAIN conns' = DOMAIN conns \cup {Len(conns) + 1}
        /\ \A o \in DOMAIN conns' : conns'[o].stage = "waiting" => conns'[o].kind = "media"
    <3> DEFINE s == Closing(Found(id))
    <3>0. /\ s \in Seq(Conn) /\ Len(s) = Len(conns) /\ DOMAIN s = DOMAIN conns
          /\ \A o \in DOMAIN conns : s[o].kind = conns[o].kind
                 /\ s[o].stage = IF o \in Found(id) THEN "closed" ELSE conns[o].stage
      BY <1>1, ClosingConns DEF BookTyped
    <3> HIDE DEF s
    <3>1. \A o \in DOMAIN s : s[o].stage = "waiting" => s[o].kind = "media"
      BY <1>1, <3>0 DEF BookTyped
    <3>2. conns' = Append(s, c)
      BY <2>1 DEF s
    <3> QED BY <2>3, <3>0, <3>1, <3>2, Appended
  <2>5. book' \in [Peers -> SUBSET DOMAIN conns']
    BY <1>1, <2>1, <2>4 DEF BookTyped, Without
  <2>6. lost' \in [Ids -> Seq(Nat)] /\ Bounded'
    BY <1>1, <2>1, <2>2 DEF BookTyped, Bounded
  <2> QED BY <1>1, <2>1, <2>4, <2>5, <2>6 DEF BookTyped
<1>8. ASSUME NEW id \in Ids, Message(id)
      PROVE  BookTyped'
  <2> DEFINE takers == {o \in Found(id) : conns[o].stage = "live"}
  <2>1. /\ count' = [count EXCEPT ![id] = @ + 1]
        /\ conns' = [o \in DOMAIN conns |->
               IF o \in takers THEN [conns[o] EXCEPT !.got = Append(@, count[id] + 1)]
               ELSE conns[o]]
        /\ lost' = [lost EXCEPT ![id] =
               IF takers = {} THEN Append(@, count[id] + 1) ELSE @]
        /\ UNCHANGED <<book, skipped>>
    BY <1>8 DEF Message
  <2> HIDE DEF takers
  <2>2. count' \in [Ids -> Nat] /\ count[id] + 1 \in Nat
    BY <1>1, <2>1 DEF BookTyped
  <2>3. lost' \in [Ids -> Seq(Nat)] /\ Bounded'
    BY <1>1, <2>1, <2>2 DEF BookTyped, Bounded
  <2>4. DOMAIN conns' = DOMAIN conns
        /\ \A o \in DOMAIN conns : conns'[o] \in Conn /\ conns'[o].stage = conns[o].stage
                                   /\ conns'[o].kind = conns[o].kind
    <3> SUFFICES ASSUME NEW o \in DOMAIN conns
                 PROVE  conns'[o] \in Conn /\ conns'[o].stage = conns[o].stage
                        /\ conns'[o].kind = conns[o].kind
      BY <2>1
    <3>1. conns[o] \in Conn
      BY <1>1 DEF BookTyped
    <3>2. Append(conns[o].got, count[id] + 1) \in Seq(Nat)
      BY <2>2, <3>1 DEF Conn
    <3> QED BY <2>1, <3>1, <3>2 DEF Conn
  <2>5. conns' \in Seq(Conn)
    <3>1. DOMAIN conns = 1..Len(conns) /\ Len(conns) \in Nat
      BY <1>1 DEF BookTyped
    <3>2. conns' = [o \in 1..Len(conns) |-> conns'[o]]
      BY <2>1, <3>1
    <3> QED BY <2>4, <3>1, <3>2, IsASeq
  <2> QED BY <1>1, <2>1, <2>2, <2>3, <2>4, <2>5 DEF BookTyped
<1>9. ASSUME NEW o \in DOMAIN conns, Answer(o)
      PROVE  BookTyped'
  <2>1. conns[o] \in Conn
    BY <1>1 DEF BookTyped
  <2>2. lost[conns[o].id] \in Seq(Nat) /\ conns[o].id \in Ids
    BY <1>1, <2>1 DEF BookTyped, Conn
  <2>3. [conns[o] EXCEPT !.stage = "live", !.got = lost[conns[o].id]] \in Conn
    BY <2>1, <2>2 DEF Conn
  <2>4. conns' = [conns EXCEPT ![o] =
                      [conns[o] EXCEPT !.stage = "live", !.got = lost[conns[o].id]]]
        /\ lost' = [lost EXCEPT ![conns[o].id] = <<>>] /\ UNCHANGED <<book, skipped, count>>
    BY <1>9 DEF Answer
  <2>5. conns' \in Seq(Conn) /\ DOMAIN conns' = DOMAIN conns
    BY <1>1, <2>3, <2>4 DEF BookTyped
  <2>6. \A b \in DOMAIN conns' : conns'[b].stage = "waiting" => conns'[b].kind = "media"
    BY <1>1, <2>1, <2>3, <2>4, <2>5 DEF BookTyped, Conn
  <2>7. lost' \in [Ids -> Seq(Nat)] /\ Bounded'
    BY <1>1, <2>2, <2>4 DEF BookTyped, Bounded
  <2> QED BY <1>1, <2>4, <2>5, <2>6, <2>7 DEF BookTyped
<1>10. ASSUME NEW o \in DOMAIN conns, Close(o)
       PROVE  BookTyped'
  <2>1. conns' = Closing({o}) /\ book' = Without({o}) /\ lost' = Dropping({o})
        /\ UNCHANGED <<skipped, count>>
    BY <1>10 DEF Close
  <2>2. conns' \in Seq(Conn) /\ DOMAIN conns' = DOMAIN conns
        /\ \A b \in DOMAIN conns' : conns'[b].stage = "waiting" => conns'[b].kind = "media"
    BY <1>1, <2>1, ClosingConns DEF BookTyped
  <2>3. lost' \in [Ids -> Seq(Nat)] /\ Bounded'
    BY <1>1, <2>1, DroppingLost DEF BookTyped, Bounded
  <2>4. book' \in [Peers -> SUBSET DOMAIN conns]
    BY <1>1, <2>1 DEF BookTyped, Without
  <2> QED BY <1>1, <2>1, <2>2, <2>3, <2>4 DEF BookTyped
<1>11. ASSUME NEW p \in Peers, Leave(p)
       PROVE  BookTyped'
  BY <1>11, CleanupTyped DEF Leave
<1>12. CASE UNCHANGED vars
  BY <1>2, <1>12 DEF vars
<1> QED
  BY <1>4, <1>5, <1>6, <1>7, <1>8, <1>9, <1>10, <1>11, <1>12 DEF Next

\* The inductive invariant so far.
Typed == TypeOK /\ Bounded /\ Following /\ Ended

\* Every step keeps it.
LEMMA InvariantStep == Typed /\ [Next]_vars => Typed'
<1> SUFFICES ASSUME Typed, [Next]_vars
             PROVE  Typed'
  OBVIOUS
<1>1. StatusOK
  BY DEF Typed, TypeOK, StatusOK
<1>2. StatusOK' /\ Following' /\ Ended'
  BY <1>1, ServerStep DEF Typed
<1>3. BookTyped'
  BY TypedStep DEF Typed
<1> QED BY <1>2, <1>3 DEF Typed, TypeOK, StatusOK, BookTyped

\* A new peer has it.
LEMMA InvariantInit == Init => Typed
<1> SUFFICES ASSUME Init
             PROVE  Typed
  OBVIOUS
<1>1. StatusOK /\ Following /\ Ended
  BY ServerInit
<1>2. conns \in Seq(Conn) /\ DOMAIN conns = {} /\ skipped = {}
  BY DEF Init
<1>3. lost \in [Ids -> Seq(Nat)] /\ count \in [Ids -> Nat] /\ Bounded
  BY DEF Init, Bounded
<1>4. book \in [Peers -> SUBSET DOMAIN conns]
  BY DEF Init
<1> QED BY <1>1, <1>2, <1>3, <1>4 DEF Typed, TypeOK, StatusOK

\* Every variable keeps to its values, and only a call can be waiting for the page's answer.
THEOREM TypeCorrect == Spec => []TypeOK
<1>1. Typed => TypeOK
  BY DEF Typed
<1> QED BY InvariantInit, InvariantStep, <1>1, PTL DEF Spec

-----------------------------------------------------------------------------
(* No connection escapes.                                                  *)

\* A list that is not empty has a first connection.
LEMMA HasFirst ==
  ASSUME NEW S \in SUBSET Nat, S # {}
  PROVE  \E b \in S : \A a \in S : b <= a
<1>1. PICK b \in S : \A a \in S : <<a, b>> \notin OpToRel(<, Nat)
  BY NatLessThanWellFounded, WFMin
<1>2. \A a \in S : ~(a < b)
  BY <1>1 DEF OpToRel
<1> QED BY <1>2

\* What _cleanupPeer passes over is not the first of its list: that one it closes.
LEMMA FirstIsClosed ==
  ASSUME TypeOK, NEW p \in Peers, NEW o \in Skipped(p)
  PROVE  \E b \in book[p] : b < o /\ b \notin Skipped(p)
<1>1. book[p] \in SUBSET Nat /\ o \in book[p] /\ o \in Nat /\ Place(o, p) % 2 = 0
  BY DEF TypeOK, Skipped
<1>2. PICK b \in book[p] : \A a \in book[p] : b <= a
  BY <1>1, HasFirst
<1>3. {a \in book[p] : a <= b} = {b}
  BY <1>1, <1>2
<1>4. Place(b, p) = 1
  BY <1>3, FS_Singleton DEF Place
<1>5. b \notin Skipped(p) /\ b # o
  BY <1>1, <1>4 DEF Skipped
<1> QED BY <1>1, <1>2, <1>5

\* BookComplete of connections c, a book B and passed over connections k.
Complete(c, B, k) ==
    /\ c \in Seq(Conn) /\ B \in [Peers -> SUBSET DOMAIN c] /\ k \subseteq DOMAIN c
    /\ \A p \in Peers : \A o \in B[p] : c[o].stage # "closed" /\ c[o].id[1] = p
    /\ \A p \in Peers : \A o, b \in B[p] : c[o].id = c[b].id => o = b
    /\ \A o \in DOMAIN c : c[o].stage # "closed" => o \in B[c[o].id[1]] \/ o \in k
    /\ \A o \in k : \E b \in DOMAIN c :
           b < o /\ c[b].id[1] = c[o].id[1] /\ c[b].stage = "closed"

\* It says what BookComplete does.
LEMMA CompleteIsBook ==
  ASSUME TypeOK
  PROVE  BookComplete <=> Complete(conns, book, skipped)
<1>1. DOMAIN conns = 1..Len(conns) /\ Len(conns) \in Nat /\ skipped \subseteq DOMAIN conns
      /\ conns \in Seq(Conn) /\ book \in [Peers -> SUBSET DOMAIN conns]
  BY DEF TypeOK
<1>2. \A o \in DOMAIN conns : conns[o].id \in Ids /\ conns[o].id[1] \in Peers
  BY <1>1, ConnHasPeer
<1>3. \A o \in skipped : \A b : b \in 1..(o - 1) <=> b \in DOMAIN conns /\ b < o
  BY <1>1
<1>4. ASSUME BookComplete
      PROVE  Complete(conns, book, skipped)
  <2>1. ASSUME NEW p \in Peers, NEW o \in book[p], NEW b \in book[p], conns[o].id = conns[b].id
        PROVE  o = b
    <3>1. conns[o].id \in Ids /\ conns[o].id[1] = p /\ o \in Found(conns[o].id)
          /\ b \in Found(conns[o].id)
      BY <1>1, <1>2, <1>4, <2>1 DEF BookComplete, Peer, Found
    <3> QED BY <1>4, <3>1 DEF BookComplete
  <2>2. \A o \in skipped : \E b \in DOMAIN conns :
           b < o /\ conns[b].id[1] = conns[o].id[1] /\ conns[b].stage = "closed"
    BY <1>3, <1>4 DEF BookComplete, Peer
  <2> QED BY <1>1, <1>4, <2>1, <2>2 DEF BookComplete, Complete, Peer
<1>5. ASSUME Complete(conns, book, skipped)
      PROVE  BookComplete
  <2>1. \A id \in Ids : \A o, b \in Found(id) : o = b
    BY <1>5, IdHasPeer DEF Complete, Found
  <2>2. \A o \in skipped : \E b \in 1..(o - 1) :
           Peer(b) = Peer(o) /\ conns[b].stage = "closed"
    BY <1>3, <1>5 DEF Complete, Peer
  <2> QED BY <1>5, <2>1, <2>2 DEF BookComplete, Complete, Peer
<1> QED BY <1>4, <1>5

\* A complete book stays so when connections are taken out of it that are closed or passed
\* over, and those that are passed over come after one that is closed.
LEMMA ShrinkKeeps ==
  ASSUME NEW c, NEW B, NEW k, NEW d, NEW C, NEW m, Complete(c, B, k),
         d \in Seq(Conn), DOMAIN d = DOMAIN c, C \in [Peers -> SUBSET DOMAIN c],
         m \in SUBSET DOMAIN c, k \subseteq m,
         \A o \in DOMAIN c : d[o].id = c[o].id /\ (c[o].stage = "closed" => d[o].stage = "closed"),
         \A p \in Peers : C[p] \subseteq B[p] /\ \A o \in C[p] : d[o].stage # "closed",
         \A p \in Peers : \A o \in B[p] \ C[p] : d[o].stage = "closed" \/ o \in m,
         \A o \in m \ k : \E b \in DOMAIN c :
             b < o /\ c[b].id[1] = c[o].id[1] /\ d[b].stage = "closed"
  PROVE  Complete(d, C, m)
<1>1. \A o \in DOMAIN c : c[o] \in Conn /\ c[o].id[1] \in Peers
  BY ConnHasPeer DEF Complete
<1>2. \A p \in Peers : \A o \in C[p] : d[o].stage # "closed" /\ d[o].id[1] = p
  BY DEF Complete
<1>3. \A p \in Peers : \A o, b \in C[p] : d[o].id = d[b].id => o = b
  BY DEF Complete
<1>4. \A o \in DOMAIN d : d[o].stage # "closed" => o \in C[d[o].id[1]] \/ o \in m
  BY <1>1 DEF Complete
<1>5. \A o \in m : \E b \in DOMAIN d :
          b < o /\ d[b].id[1] = d[o].id[1] /\ d[b].stage = "closed"
  <2>1. \A o \in k : \E b \in DOMAIN c :
            b < o /\ c[b].id[1] = c[o].id[1] /\ c[b].stage = "closed"
    BY DEF Complete
  <2> QED BY <2>1
<1> QED BY <1>2, <1>3, <1>4, <1>5 DEF Complete

\* It stays so when a connection is made whose id it does not hold.
LEMMA GrowKeeps ==
  ASSUME NEW c, NEW B, NEW k, Complete(c, B, k), NEW new \in Conn, new.stage # "closed",
         \A o \in B[new.id[1]] : c[o].id # new.id
  PROVE  Complete(Append(c, new), [B EXCEPT ![new.id[1]] = @ \cup {Len(c) + 1}], k)
<1> DEFINE d == Append(c, new)
           C == [B EXCEPT ![new.id[1]] = @ \cup {Len(c) + 1}]
           n == Len(c) + 1
<1>1. new.id \in Ids /\ new.id[1] \in Peers
  BY ConnHasPeer
<1>2. /\ d \in Seq(Conn) /\ DOMAIN d = DOMAIN c \cup {n} /\ n \notin DOMAIN c
      /\ d[n] = new /\ \A o \in DOMAIN c : d[o] = c[o]
  BY Appended DEF Complete
<1>3. B \in [Peers -> SUBSET DOMAIN c] /\ k \subseteq DOMAIN c
  BY DEF Complete
<1>4. C \in [Peers -> SUBSET DOMAIN d]
      /\ \A p \in Peers : C[p] = IF p = new.id[1] THEN B[p] \cup {n} ELSE B[p]
  BY <1>1, <1>2, <1>3
<1> HIDE DEF C, d, n
<1>5. \A p \in Peers : \A o \in C[p] : d[o].stage # "closed" /\ d[o].id[1] = p
  BY <1>1, <1>2, <1>3, <1>4 DEF Complete
<1>6. \A p \in Peers : \A o, b \in C[p] : d[o].id = d[b].id => o = b
  BY <1>1, <1>2, <1>3, <1>4 DEF Complete
<1>7. \A o \in DOMAIN d : d[o].stage # "closed" => o \in C[d[o].id[1]] \/ o \in k
  <2>1. \A o \in DOMAIN c : c[o].id[1] \in Peers
    BY ConnHasPeer DEF Complete
  <2> QED BY <2>1, <1>1, <1>2, <1>3, <1>4 DEF Complete
<1>8. \A o \in k : \E b \in DOMAIN d :
          b < o /\ d[b].id[1] = d[o].id[1] /\ d[b].stage = "closed"
  BY <1>2, <1>3 DEF Complete
<1>9. Complete(d, C, k)
  BY <1>2, <1>3, <1>4, <1>5, <1>6, <1>7, <1>8 DEF Complete
<1> QED BY <1>9 DEF d, C, n

\* Closing connections and taking them out keeps the book complete.
LEMMA ClosingKeeps ==
  ASSUME TypeOK, Complete(conns, book, skipped), NEW S \in SUBSET DOMAIN conns
  PROVE  Complete(Closing(S), Without(S), skipped)
<1>1. Without(S) \in [Peers -> SUBSET DOMAIN conns]
      /\ \A p \in Peers : Without(S)[p] = book[p] \ S
  BY DEF TypeOK, Without
<1>2. \A p \in Peers : \A o \in book[p] : o \in DOMAIN conns /\ conns[o].stage # "closed"
  BY DEF Complete
<1> QED
  <2> DEFINE d == Closing(S)
             C == Without(S)
  <2>1. conns \in Seq(Conn) /\ skipped \subseteq DOMAIN conns
    BY DEF TypeOK
  <2>2. d \in Seq(Conn) /\ DOMAIN d = DOMAIN conns
        /\ \A o \in DOMAIN conns :
               d[o].id = conns[o].id
               /\ d[o].stage = IF o \in S THEN "closed" ELSE conns[o].stage
    BY <2>1, ClosingConns
  <2>3. \A p \in Peers : C[p] \subseteq book[p] /\ \A o \in C[p] : o \notin S
    BY <1>1
  <2>4. \A p \in Peers : \A o \in book[p] \ C[p] : o \in S
    BY <1>1
  <2> HIDE DEF d, C
  <2>5. \A p \in Peers : C[p] \subseteq book[p] /\ \A o \in C[p] : d[o].stage # "closed"
    BY <1>2, <2>2, <2>3
  <2>6. \A p \in Peers : \A o \in book[p] \ C[p] : d[o].stage = "closed" \/ o \in skipped
    BY <1>2, <2>2, <2>4
  <2>7. Complete(d, C, skipped)
    BY <1>1, <2>1, <2>2, <2>5, <2>6, ShrinkKeeps DEF C
  <2> QED BY <2>7 DEF d, C

\* _cleanupPeer keeps it complete.
LEMMA CleanupKeeps ==
  ASSUME TypeOK, Complete(conns, book, skipped), NEW P \in SUBSET Peers, Cleanup(P)
  PROVE  Complete(conns', book', skipped')
<1> DEFINE passed == UNION {Skipped(p) : p \in P}
           T == UNION {book[p] : p \in P}
           S == T \ passed
<1>1. /\ conns' = Closing(S) /\ skipped' = skipped \cup passed
      /\ book' = [p \in Peers |-> IF p \in P THEN {} ELSE book[p]]
  BY DEF Cleanup
<1>2. \A p \in Peers : Skipped(p) \subseteq book[p] /\ book[p] \subseteq DOMAIN conns
  BY DEF TypeOK, Skipped
<1>3. S \subseteq DOMAIN conns /\ passed \subseteq DOMAIN conns
  BY <1>2
<1>4. conns \in Seq(Conn) /\ skipped \subseteq DOMAIN conns
  BY DEF TypeOK
<1>5. \A p \in Peers : \A o \in book[p] : conns[o].stage # "closed" /\ conns[o].id[1] = p
  BY DEF Complete
<1>6. \A p \in P : \A o \in book[p] : o \in S \/ o \in passed
  <2>1. \A p \in P : \A o \in book[p] : o \in T
    OBVIOUS
  <2> HIDE DEF T, passed
  <2> QED BY <2>1
<1>7. \A p \in Peers : p \notin P => \A o \in book[p] : o \notin S
  BY <1>5
<1>8. \A o \in passed : \E b \in DOMAIN conns :
          b < o /\ conns[b].id[1] = conns[o].id[1] /\ b \in S
  <2> SUFFICES ASSUME NEW p \in P, NEW o \in Skipped(p)
               PROVE  \E b \in DOMAIN conns :
                          b < o /\ conns[b].id[1] = conns[o].id[1] /\ b \in S
    OBVIOUS
  <2>1. PICK b \in book[p] : b < o /\ b \notin Skipped(p)
    BY FirstIsClosed
  <2>2. b \in DOMAIN conns /\ o \in book[p] /\ conns[b].id[1] = p /\ conns[o].id[1] = p
    BY <1>2, <1>5
  <2>3. \A q \in P : b \in book[q] => q = p
    BY <1>5, <2>2
  <2>4. b \notin passed
    BY <1>2, <2>1, <2>3
  <2>5. b \in S
    BY <1>6, <2>4
  <2> QED BY <2>1, <2>2, <2>5
<1> HIDE DEF S, passed
<1>9. conns' \in Seq(Conn) /\ DOMAIN conns' = DOMAIN conns
      /\ \A o \in DOMAIN conns :
             conns'[o].id = conns[o].id
             /\ conns'[o].stage = IF o \in S THEN "closed" ELSE conns[o].stage
  BY <1>1, <1>4, ClosingConns
<1>10. book' \in [Peers -> SUBSET DOMAIN conns]
       /\ \A p \in Peers : book'[p] \subseteq book[p] /\ (p \in P => book'[p] = {})
              /\ (p \notin P => book'[p] = book[p])
  BY <1>1, <1>2
<1>11. \A p \in Peers : book'[p] \subseteq book[p] /\ \A o \in book'[p] : conns'[o].stage # "closed"
  BY <1>2, <1>5, <1>7, <1>9, <1>10
<1>12. \A p \in Peers : \A o \in book[p] \ book'[p] : conns'[o].stage = "closed" \/ o \in skipped'
  BY <1>1, <1>2, <1>6, <1>9, <1>10
<1>13. \A o \in skipped' \ skipped : \E b \in DOMAIN conns :
           b < o /\ conns[b].id[1] = conns[o].id[1] /\ conns'[b].stage = "closed"
  BY <1>1, <1>8, <1>9
<1>14. skipped' \in SUBSET DOMAIN conns /\ skipped \subseteq skipped'
  BY <1>1, <1>3, <1>4
<1> QED BY <1>9, <1>10, <1>11, <1>12, <1>13, <1>14, ShrinkKeeps

\* Every step keeps the book complete.
LEMMA BookStep ==
  ASSUME TypeOK, BookTyped', Complete(conns, book, skipped), [Next]_vars
  PROVE  Complete(conns', book', skipped')
<1>1. conns \in Seq(Conn) /\ skipped \subseteq DOMAIN conns
      /\ book \in [Peers -> SUBSET DOMAIN conns] /\ lost \in [Ids -> Seq(Nat)]
      /\ count \in [Ids -> Nat]
  BY DEF TypeOK
<1>2. ASSUME UNCHANGED bookVars
      PROVE  Complete(conns', book', skipped')
  BY <1>2
<1>3. ASSUME Aborts \/ Destroys
      PROVE  Complete(conns', book', skipped')
  BY <1>2, <1>3, AbortsBook, CleanupKeeps
<1>4. CASE DelayedAbort \/ ServerRefuses \/ Destroy
  BY <1>3, <1>4 DEF DelayedAbort, ServerRefuses, Destroy
<1>5. CASE IdArrives \/ SocketOpens \/ SocketDrops \/ ServerOpens \/ Disconnect \/ Reconnect
  BY <1>2, <1>5 DEF IdArrives, SocketOpens, SocketDrops, ServerOpens, Disconnect, Reconnect
<1>6. ASSUME NEW id \in Ids, NEW kind \in {"media", "data"}, Connect(id, kind)
      PROVE  Complete(conns', book', skipped')
  <2> DEFINE c == [id |-> id, kind |-> kind, stage |-> "live", since |-> 0, got |-> <<>>]
  <2>1. c \in Conn /\ c.stage # "closed" /\ c.id = id
    BY DEF Conn
  <2>2. conns' = Append(conns, c) /\ UNCHANGED skipped
        /\ book' = [book EXCEPT ![id[1]] = @ \cup {Len(conns) + 1}]
        /\ \A o \in DOMAIN conns : conns[o].id # id
    BY <1>6 DEF Connect, Made
  <2>3. \A o \in book[id[1]] : conns[o].id # id
    BY <1>1, <2>2, IdHasPeer
  <2> HIDE DEF c
  <2> QED BY <2>1, <2>2, <2>3, GrowKeeps
<1>7. ASSUME NEW id \in Ids, NEW kind \in {"media", "data"}, NEW atOnce \in BOOLEAN,
             Offer(id, kind, atOnce)
      PROVE  Complete(conns', book', skipped')
  <2> DEFINE c == Closing(Found(id))
             B == Without(Found(id))
             live == Taken(kind, atOnce)
             old == Dropping(Found(id))[id]
             new == [id |-> id, kind |-> kind, stage |-> IF live THEN "live" ELSE "waiting",
                     since |-> IF live THEN count[id] - Len(old) ELSE count[id],
                     got |-> IF live THEN old ELSE <<>>]
  <2>1. conns' = Append(c, new) /\ UNCHANGED skipped
        /\ book' = [B EXCEPT ![id[1]] = @ \cup {Len(conns) + 1}]
    BY <1>7 DEF Offer
  <2>2. Found(id) \in SUBSET DOMAIN conns
    BY <1>1, IdHasPeer DEF Found
  <2>3. Complete(c, B, skipped)
    BY <2>2, ClosingKeeps
  <2>4. new.id = id /\ new.stage # "closed"
    OBVIOUS
  <2>5. c \in Seq(Conn) /\ Len(c) = Len(conns)
        /\ \A o \in DOMAIN conns : c[o].id = conns[o].id
    BY <1>1, ClosingConns
  <2>6. \A o \in B[id[1]] : c[o].id # id
    BY <1>1, <2>5, IdHasPeer DEF Without, Found
  <2>7. new = conns'[Len(conns) + 1] /\ Len(conns) + 1 \in DOMAIN conns'
    <3> HIDE DEF new, c
    <3> QED BY <2>1, <2>5
  <2>8. new \in Conn
    BY <2>7 DEF BookTyped
  <2> HIDE DEF c, B, new
  <2> QED BY <2>1, <2>3, <2>4, <2>5, <2>6, <2>8, GrowKeeps
<1>8. ASSUME BookTyped', UNCHANGED <<book, skipped>>, DOMAIN conns' = DOMAIN conns,
             \A o \in DOMAIN conns : conns'[o].id = conns[o].id
                 /\ (conns'[o].stage = "closed" <=> conns[o].stage = "closed")
      PROVE  Complete(conns', book', skipped')
  <2>1. conns' \in Seq(Conn)
    BY <1>8 DEF BookTyped
  <2>2. \A p \in Peers : \A o \in book[p] : o \in DOMAIN conns /\ conns'[o].stage # "closed"
    BY <1>1, <1>8 DEF Complete
  <2> QED BY <1>1, <1>8, <2>1, <2>2, ShrinkKeeps
<1>9. ASSUME NEW id \in Ids, Message(id)
      PROVE  Complete(conns', book', skipped')
  <2> DEFINE takers == {o \in Found(id) : conns[o].stage = "live"}
  <2>1. /\ conns' = [o \in DOMAIN conns |->
               IF o \in takers THEN [conns[o] EXCEPT !.got = Append(@, count[id] + 1)]
               ELSE conns[o]]
        /\ UNCHANGED <<book, skipped>>
    BY <1>9 DEF Message
  <2>2. \A o \in DOMAIN conns : conns[o] \in Conn
    BY <1>1
  <2> HIDE DEF takers
  <2>3. DOMAIN conns' = DOMAIN conns
        /\ \A o \in DOMAIN conns : conns'[o].id = conns[o].id
               /\ conns'[o].stage = conns[o].stage
    BY <2>1, <2>2 DEF Conn
  <2> QED BY <1>8, <2>1, <2>3
<1>10. ASSUME NEW o \in DOMAIN conns, Answer(o)
       PROVE  Complete(conns', book', skipped')
  <2>1. conns' = [conns EXCEPT ![o] =
                      [conns[o] EXCEPT !.stage = "live", !.got = lost[conns[o].id]]]
        /\ UNCHANGED <<book, skipped>> /\ conns[o].stage = "waiting"
    BY <1>10 DEF Answer
  <2>2. conns[o] \in Conn
    BY <1>1
  <2>3. DOMAIN conns' = DOMAIN conns
        /\ \A b \in DOMAIN conns : conns'[b].id = conns[b].id
               /\ (conns'[b].stage = "closed" <=> conns[b].stage = "closed")
    BY <1>1, <2>1, <2>2 DEF Conn
  <2> QED BY <1>8, <2>1, <2>3
<1>11. ASSUME NEW o \in DOMAIN conns, Close(o)
       PROVE  Complete(conns', book', skipped')
  <2>1. conns' = Closing({o}) /\ book' = Without({o}) /\ skipped' = skipped
    BY <1>11 DEF Close
  <2> QED BY <2>1, ClosingKeeps
<1>12. ASSUME NEW p \in Peers, Leave(p)
       PROVE  Complete(conns', book', skipped')
  BY <1>12, CleanupKeeps DEF Leave
<1>13. CASE UNCHANGED vars
  BY <1>2, <1>13 DEF vars
<1> QED
  BY <1>4, <1>5, <1>6, <1>7, <1>9, <1>10, <1>11, <1>12, <1>13 DEF Next

\* The inductive invariant with the book.
Booked == Typed /\ Complete(conns, book, skipped)

\* Every step keeps it.
LEMMA BookedStep == Booked /\ [Next]_vars => Booked'
<1> SUFFICES ASSUME Booked, [Next]_vars
             PROVE  Booked'
  OBVIOUS
<1>1. Typed'
  BY InvariantStep DEF Booked
<1>2. BookTyped'
  BY TypedStep DEF Booked, Typed
<1>3. Complete(conns, book, skipped)'
  BY <1>2, BookStep DEF Booked, Typed
<1> QED BY <1>1, <1>3 DEF Booked

\* A new peer has it.
LEMMA BookedInit == Init => Booked
<1> SUFFICES ASSUME Init
             PROVE  Booked
  OBVIOUS
<1>1. Typed
  BY InvariantInit
<1>2. conns = <<>> /\ skipped = {} /\ book = [p \in Peers |-> {}]
  BY DEF Init
<1>3. conns \in Seq(Conn) /\ DOMAIN conns = {}
  BY <1>2
<1>4. book \in [Peers -> SUBSET DOMAIN conns] /\ \A p \in Peers : book[p] = {}
  BY <1>2
<1>5. Complete(conns, book, skipped)
  BY <1>2, <1>3, <1>4 DEF Complete
<1> QED BY <1>1, <1>5 DEF Booked

\* No connection escapes the book but those that _cleanupPeer passes over, and it passes over
\* one only when it has closed an earlier one with the same peer (peerjs.js, _addConnection,
\* _removeConnection and _cleanupPeer).
THEOREM NoneEscapes == Spec => []BookComplete
<1>1. Booked => BookComplete
  BY CompleteIsBook DEF Booked, Typed
<1> QED BY BookedInit, BookedStep, <1>1, PTL DEF Spec

-----------------------------------------------------------------------------
(* No message is missed.                                                   *)

\* The n numbers after a.
Run(a, n) == [i \in 1..n |-> a + i]

\* One more number makes a longer run.
LEMMA RunGrows ==
  ASSUME NEW a \in Nat, NEW n \in Nat
  PROVE  /\ Run(a, n) \in Seq(Nat) /\ Len(Run(a, n)) = n
         /\ Append(Run(a, n), a + n + 1) = Run(a, n + 1)
         /\ Run(a, 0) = <<>>
<1>1. Run(a, n) \in Seq(Nat) /\ Len(Run(a, n)) = n
  <2>1. \A i \in 1..n : a + i \in Nat
    OBVIOUS
  <2> QED BY <2>1, IsASeq DEF Run
<1>2. Append(Run(a, n), a + n + 1) = Run(a, n + 1)
  <2>1. DOMAIN Append(Run(a, n), a + n + 1) = 1..(n + 1)
    BY <1>1
  <2>2. \A i \in 1..(n + 1) : Append(Run(a, n), a + n + 1)[i] = a + i
    <3>1. \A i \in 1..n : Run(a, n)[i] = a + i
      BY DEF Run
    <3> QED BY <1>1, <3>1
  <2>3. Append(Run(a, n), a + n + 1) = [i \in 1..(n + 1) |-> Append(Run(a, n), a + n + 1)[i]]
    BY <1>1, <2>1
  <2> QED BY <2>1, <2>2, <2>3 DEF Run
<1>3. Run(a, 0) = <<>>
  BY DEF Run
<1> QED BY <1>1, <1>2, <1>3

\* A connection with this id was passed over.
Lapsed(id) == \E s \in skipped : conns[s].id = id

\* What NoneMissed says of one connection.
Handled(o) ==
    IF conns[o].stage = "live" THEN conns[o].got = Due(o) /\ lost[conns[o].id] = <<>>
    ELSE lost[conns[o].id] = Due(o)

\* What is stored for an id are the last messages that came for it.
Last(id) == lost[id] = Run(count[id] - Len(lost[id]), Len(lost[id]))

\* No connection was made after messages that are yet to come.
Since == \A o \in DOMAIN conns : conns[o].since <= count[conns[o].id]

\* What NoneMissed needs: also what is stored for an id with no connection is complete.
Kept ==
    /\ \A id \in Ids : ~Lapsed(id) => Last(id)
    /\ \A p \in Peers : \A o \in book[p] : ~Lapsed(conns[o].id) => Handled(o)

\* It says what NoneMissed does.
LEMMA KeptIsNoneMissed == Kept => NoneMissed
BY DEF Kept, NoneMissed, Lapsed, Handled

\* Due is a run.
LEMMA DueIsRun == \A o : Due(o) = Run(conns[o].since, count[conns[o].id] - conns[o].since)
BY DEF Due, Run

\* Nothing stored is complete too.
LEMMA NothingIsLast ==
  ASSUME NEW id \in Ids, count \in [Ids -> Nat], lost[id] = <<>>
  PROVE  Last(id)
<1>1. Len(lost[id]) = 0 /\ count[id] - 0 = count[id] /\ count[id] \in Nat
  OBVIOUS
<1>2. Run(count[id], 0) = <<>>
  BY DEF Run
<1> QED BY <1>1, <1>2 DEF Last

\* Connections that stay in the book and whose messages stay stored are handled as before.
LEMMA ShrinkKept ==
  ASSUME TypeOK, Complete(conns, book, skipped), Since, Kept, UNCHANGED count,
         skipped \subseteq skipped', DOMAIN conns' = DOMAIN conns,
         \A o \in DOMAIN conns :
             /\ conns'[o].id = conns[o].id /\ conns'[o].since = conns[o].since
             /\ conns'[o].got = conns[o].got
             /\ conns'[o].stage = conns[o].stage \/ conns'[o].stage = "closed",
         \A p \in Peers : book'[p] \subseteq book[p]
             /\ \A o \in book'[p] : conns'[o].stage # "closed",
         \A id \in Ids : lost'[id] = lost[id]
             \/ (lost'[id] = <<>> /\ \A o \in book'[id[1]] : conns[o].id = id => Lapsed(id)')
  PROVE  Since' /\ Kept'
<1>1. conns \in Seq(Conn) /\ skipped \subseteq DOMAIN conns /\ count \in [Ids -> Nat]
      /\ book \in [Peers -> SUBSET DOMAIN conns]
  BY DEF TypeOK
<1>2. \A o \in DOMAIN conns : conns[o].id \in Ids /\ conns[o].id[1] \in Peers
  BY <1>1, ConnHasPeer
<1>3. \A id \in Ids : Lapsed(id) => Lapsed(id)'
  BY <1>1 DEF Lapsed
<1>4. Since'
  BY DEF Since
<1>5. ASSUME NEW id \in Ids, ~Lapsed(id)'
      PROVE  Last(id)'
  <2>1. CASE lost'[id] = lost[id]
    BY <1>3, <1>5, <2>1 DEF Kept, Last
  <2>2. CASE lost'[id] = <<>>
    <3>1. Len(lost'[id]) = 0 /\ count'[id] - 0 = count'[id]
      BY <1>1, <2>2
    <3>2. Run(count'[id], 0) = <<>>
      BY DEF Run
    <3> QED BY <2>2, <3>1, <3>2 DEF Last
  <2> QED BY <2>1, <2>2
<1>6. ASSUME NEW p \in Peers, NEW o \in book'[p], ~Lapsed(conns[o].id)'
      PROVE  Handled(o)'
  <2>1. o \in book[p] /\ o \in DOMAIN conns
    BY <1>1
  <2>2. conns'[o].id = conns[o].id /\ conns'[o].since = conns[o].since
        /\ conns'[o].got = conns[o].got /\ conns'[o].stage = conns[o].stage
    BY <2>1
  <2>3. conns[o].id \in Ids /\ conns[o].id[1] = p
    BY <1>2, <2>1 DEF Complete
  <2>4. Handled(o)
    BY <1>3, <1>6, <2>1, <2>2, <2>3 DEF Kept
  <2>5. lost'[conns[o].id] = lost[conns[o].id]
    BY <1>6, <2>2, <2>3
  <2>6. Due(o)' = Due(o)
    BY <2>2 DEF Due
  <2> QED BY <2>2, <2>4, <2>5, <2>6 DEF Handled
<1> QED BY <1>4, <1>5, <1>6 DEF Kept

\* _cleanupPeer leaves the other connections as they are.
LEMMA CleanupKept ==
  ASSUME TypeOK, Bounded, Complete(conns, book, skipped), Complete(conns', book', skipped'),
         Since, Kept, UNCHANGED count, NEW P \in SUBSET Peers, Cleanup(P)
  PROVE  Since' /\ Kept'
<1> DEFINE passed == UNION {Skipped(p) : p \in P}
           S == (UNION {book[p] : p \in P}) \ passed
<1>1. /\ lost' = Dropping(S) /\ skipped' = skipped \cup passed
      /\ book' = [p \in Peers |-> IF p \in P THEN {} ELSE book[p]]
  BY DEF Cleanup
<1>2. \A o \in S : \E p \in P : o \in book[p]
  OBVIOUS
<1> HIDE DEF S, passed
<1>3. \A o \in S : conns[o].id[1] \in P
  BY <1>2 DEF Complete
<1>4. \A id \in Ids : lost'[id] = lost[id] \/ (lost'[id] = <<>> /\ id[1] \in P)
  BY <1>1, <1>3, DroppingLost DEF TypeOK
<1>5. \A p \in Peers : book'[p] \subseteq book[p] /\ (p \in P => book'[p] = {})
  BY <1>1
<1>6. \A p \in Peers : \A o \in book'[p] : conns'[o].stage # "closed"
  BY DEF Complete
<1>7. \A id \in Ids : lost'[id] = lost[id]
             \/ (lost'[id] = <<>> /\ \A o \in book'[id[1]] : conns[o].id = id => Lapsed(id)')
  BY <1>4, <1>5, IdHasPeer
<1> QED BY <1>1, <1>5, <1>6, <1>7, CleanupBook, ShrinkKept

\* Every step keeps it.
LEMMA KeptStep ==
  ASSUME TypeOK, Bounded, Complete(conns, book, skipped), Since, Kept, [Next]_vars,
         BookTyped', Complete(conns', book', skipped')
  PROVE  Since' /\ Kept'
<1>1. conns \in Seq(Conn) /\ skipped \subseteq DOMAIN conns
      /\ book \in [Peers -> SUBSET DOMAIN conns] /\ lost \in [Ids -> Seq(Nat)]
      /\ count \in [Ids -> Nat]
  BY DEF TypeOK
<1>2. \A o \in DOMAIN conns :
          conns[o] \in Conn /\ conns[o].id \in Ids /\ conns[o].id[1] \in Peers
  BY <1>1, ConnHasPeer
<1>3. \A p \in Peers : \A o \in book[p] :
          o \in DOMAIN conns /\ conns[o].id[1] = p /\ conns[o].stage # "closed"
  BY <1>1 DEF Complete
<1>4. \A id \in Ids : \A o, b \in book[id[1]] : conns[o].id = id /\ conns[b].id = id => o = b
  BY IdHasPeer DEF Complete
<1>5. \A id \in Ids : Len(lost[id]) \in Nat /\ count[id] \in Nat
  BY <1>1
<1>6. ASSUME UNCHANGED <<bookVars, count>>
      PROVE  Since' /\ Kept'
  BY <1>6 DEF Since, Kept, Lapsed, Last, Handled, Due
<1>7. ASSUME Aborts \/ Destroys, UNCHANGED count
      PROVE  Since' /\ Kept'
  BY <1>6, <1>7, AbortsBook, CleanupKept
<1>8. CASE DelayedAbort \/ ServerRefuses \/ Destroy
  BY <1>7, <1>8 DEF DelayedAbort, ServerRefuses, Destroy
<1>9. CASE IdArrives \/ SocketOpens \/ SocketDrops \/ ServerOpens \/ Disconnect \/ Reconnect
  BY <1>6, <1>9 DEF IdArrives, SocketOpens, SocketDrops, ServerOpens, Disconnect, Reconnect
<1>10. ASSUME NEW p \in Peers, Leave(p)
       PROVE  Since' /\ Kept'
  BY <1>10, CleanupKept DEF Leave
<1>11. ASSUME NEW o \in DOMAIN conns, Close(o)
       PROVE  Since' /\ Kept'
  <2>1. conns' = Closing({o}) /\ book' = Without({o}) /\ lost' = Dropping({o})
        /\ UNCHANGED <<skipped, count>> /\ conns[o].stage # "closed"
    BY <1>11 DEF Close
  <2>2. DOMAIN conns' = DOMAIN conns
        /\ \A b \in DOMAIN conns :
             /\ conns'[b].id = conns[b].id /\ conns'[b].since = conns[b].since
             /\ conns'[b].got = conns[b].got
             /\ conns'[b].stage = conns[b].stage \/ conns'[b].stage = "closed"
    BY <1>1, <2>1, ClosingConns
  <2>3. \A p \in Peers : book'[p] = book[p] \ {o}
    BY <2>1 DEF Without
  <2>4. \A p \in Peers : book'[p] \subseteq book[p]
             /\ \A b \in book'[p] : conns'[b].stage # "closed"
    BY <2>3 DEF Complete
  <2>5. ASSUME NEW id \in Ids
        PROVE  lost'[id] = lost[id]
             \/ (lost'[id] = <<>> /\ \A b \in book'[id[1]] : conns[b].id = id => Lapsed(id)')
    <3>1. CASE conns[o].id # id
      BY <1>1, <2>1, <3>1, DroppingLost
    <3>2. CASE conns[o].id = id
      <4>1. lost'[id] = <<>>
        BY <2>1, <3>2 DEF Dropping
      <4>2. o \in book[id[1]] \/ o \in skipped
        BY <2>1, <3>2 DEF Complete
      <4>3. ASSUME o \in skipped
            PROVE  Lapsed(id)'
        BY <2>1, <2>2, <3>2, <4>3 DEF Lapsed
      <4>4. ASSUME o \in book[id[1]], NEW b \in book'[id[1]], conns[b].id = id
            PROVE  FALSE
        BY <1>4, <2>3, <3>2, <4>4, IdHasPeer
      <4> QED BY <4>1, <4>2, <4>3, <4>4
    <3> QED BY <3>1, <3>2
  <2> QED BY <2>1, <2>2, <2>4, <2>5, ShrinkKept
<1>12. ASSUME NEW id \in Ids, NEW kind \in {"media", "data"}, Connect(id, kind)
       PROVE  Since' /\ Kept'
  <2> DEFINE c == [id |-> id, kind |-> kind, stage |-> "live", since |-> 0, got |-> <<>>]
  <2>0. PICK n \in Nat : n = Len(conns) + 1
    BY <1>1
  <2>1. conns' = Append(conns, c) /\ UNCHANGED <<lost, skipped, count>> /\ count[id] = 0
        /\ book' = [book EXCEPT ![id[1]] = @ \cup {n}]
    BY <1>12, <2>0 DEF Connect, Made
  <2>2. c \in Conn /\ c.id = id /\ c.since = 0 /\ c.got = <<>> /\ c.stage = "live"
    BY DEF Conn
  <2> HIDE DEF c
  <2>3. DOMAIN conns' = DOMAIN conns \cup {n} /\ conns'[n] = c /\ n \notin DOMAIN conns
        /\ \A o \in DOMAIN conns : conns'[o] = conns[o]
    BY <1>1, <2>0, <2>1, <2>2, Appended
  <2>4. Since'
    BY <1>2, <1>5, <2>1, <2>2, <2>3 DEF Since
  <2>5. \A i \in Ids : Lapsed(i)' <=> Lapsed(i)
    BY <1>1, <2>1, <2>3 DEF Lapsed
  <2>6. \A i \in Ids : ~Lapsed(i)' => Last(i)'
    BY <2>1, <2>5 DEF Kept, Last
  <2>7. ASSUME NEW p \in Peers, NEW o \in book[p], ~Lapsed(conns[o].id)
        PROVE  Handled(o)'
    <3>1. Handled(o) /\ conns'[o] = conns[o]
      BY <1>3, <2>3, <2>7 DEF Kept
    <3> QED BY <2>1, <3>1 DEF Handled, Due
  <2>8. Handled(n)'
    <3>1. lost[id] = <<>>
      <4>1. Len(lost[id]) = 0 /\ lost[id] \in Seq(Nat)
        BY <1>1, <1>5, <2>1 DEF Bounded
      <4> QED BY <4>1
    <3>2. Due(n)' = <<>>
      BY <2>1, <2>2, <2>3 DEF Due
    <3> QED BY <2>1, <2>2, <2>3, <3>1, <3>2 DEF Handled
  <2>9. \A p \in Peers : \A o \in book'[p] : o = n \/ o \in book[p]
    BY <1>1, <2>1
  <2>10. ASSUME NEW p \in Peers, NEW o \in book'[p], ~Lapsed(conns[o].id)'
         PROVE  Handled(o)'
    <3>1. CASE o = n
      BY <2>8, <3>1
    <3>2. CASE o \in book[p]
      <4>1. conns'[o].id = conns[o].id /\ conns[o].id \in Ids
        BY <1>2, <1>3, <2>3, <3>2
      <4> QED BY <2>5, <2>7, <2>10, <3>2, <4>1
    <3> QED BY <2>9, <3>1, <3>2
  <2> QED BY <2>4, <2>6, <2>10 DEF Kept
<1>13. ASSUME NEW id \in Ids, NEW kind \in {"media", "data"}, NEW atOnce \in BOOLEAN,
              Offer(id, kind, atOnce)
       PROVE  Since' /\ Kept'
  <2> DEFINE F == Closing(Found(id))
             live == Taken(kind, atOnce)
             old == Dropping(Found(id))[id]
             c == [id |-> id, kind |-> kind, stage |-> IF live THEN "live" ELSE "waiting",
                   since |-> IF live THEN count[id] - Len(old) ELSE count[id],
                   got |-> IF live THEN old ELSE <<>>]
  <2>0. PICK n \in Nat : n = Len(conns) + 1
    BY <1>1
  <2>1. conns' = Append(F, c) /\ UNCHANGED <<skipped, count>>
        /\ book' = [Without(Found(id)) EXCEPT ![id[1]] = @ \cup {n}]
        /\ lost' = [lost EXCEPT ![id] = <<>>]
    BY <1>13, <2>0 DEF Offer
  <2>2. old \in Seq(Nat) /\ Len(old) <= count[id] /\ Len(old) \in Nat
    BY <1>1, <1>5, DroppingLost DEF Bounded
  <2>3. c.id = id /\ c.since \in {count[id], count[id] - Len(old)}
        /\ (c.stage # "live" => c.since = count[id])
        /\ (c.stage = "live" => c.since = count[id] - Len(old) /\ c.got = old)
    OBVIOUS
  <2>4. F \in Seq(Conn) /\ Len(F) = Len(conns) /\ DOMAIN F = DOMAIN conns
        /\ \A o \in DOMAIN conns : F[o].id = conns[o].id /\ F[o].since = conns[o].since
               /\ F[o].got = conns[o].got
               /\ F[o].stage = IF o \in Found(id) THEN "closed" ELSE conns[o].stage
    BY <1>1, ClosingConns
  <2>5. Found(id) = {o \in book[id[1]] : conns[o].id = id}
    BY DEF Found
  <2>6. Without(Found(id)) = [p \in Peers |-> book[p] \ Found(id)]
    BY DEF Without
  <2>7. ~Lapsed(id) => old = Run(count[id] - Len(old), Len(old))
    <3>1. CASE old = lost[id]
      BY <3>1 DEF Kept, Last
    <3>2. CASE old = <<>>
      <4>1. Len(old) = 0
        BY <3>2
      <4> HIDE DEF old
      <4> QED BY <3>2, <4>1 DEF Run
    <3> QED BY <1>1, <3>1, <3>2, DroppingLost
  <2> HIDE DEF F, c, old
  <2>8. n \in DOMAIN conns' /\ conns'[n] = c /\ n \notin DOMAIN conns
        /\ DOMAIN conns' = DOMAIN conns \cup {n} /\ \A o \in DOMAIN conns : conns'[o] = F[o]
    BY <1>1, <2>0, <2>1, <2>4
  <2>9. Since'
    <3>1. c.since <= count[id]
      BY <1>5, <2>2, <2>3
    <3>2. \A o \in DOMAIN conns :
              conns'[o].id = conns[o].id /\ conns'[o].since = conns[o].since
      BY <2>4, <2>8
    <3>3. \A o \in DOMAIN conns : conns'[o].since <= count[conns'[o].id]
      BY <3>2 DEF Since
    <3> QED BY <2>1, <2>3, <2>8, <3>1, <3>3 DEF Since
  <2>10. \A i \in Ids : Lapsed(i)' <=> Lapsed(i)
    BY <1>1, <2>1, <2>4, <2>8 DEF Lapsed
  <2>11. ASSUME NEW i \in Ids, ~Lapsed(i)'
         PROVE  Last(i)'
    <3>1. CASE i = id
      <4>1. Len(lost'[i]) = 0 /\ lost'[i] = <<>> /\ count'[i] - 0 = count'[i]
        BY <1>1, <2>1, <3>1
      <4>2. Run(count'[i], 0) = <<>>
        BY DEF Run
      <4> QED BY <4>1, <4>2 DEF Last
    <3>2. CASE i # id
      BY <1>1, <2>1, <2>10, <2>11, <3>2 DEF Kept, Last
    <3> QED BY <3>1, <3>2
  <2>12. \A p \in Peers : \A o \in book'[p] : o = n \/ (o \in book[p] /\ conns[o].id # id)
    <3>1. \A p \in Peers : \A o \in book'[p] : o = n \/ (o \in book[p] /\ o \notin Found(id))
      BY <2>1, <2>6
    <3> QED BY <1>3, <2>5, <3>1
  <2>13. ASSUME NEW p \in Peers, NEW o \in book[p], conns[o].id # id, ~Lapsed(conns[o].id)
         PROVE  Handled(o)'
    <3>1. o \in DOMAIN conns /\ o \notin Found(id) /\ conns[o].id \in Ids
      BY <1>2, <1>3, <2>5, <2>13
    <3>2. Handled(o) /\ conns'[o].id = conns[o].id /\ conns'[o].since = conns[o].since
          /\ conns'[o].got = conns[o].got /\ conns'[o].stage = conns[o].stage
      BY <2>4, <2>8, <2>13, <3>1 DEF Kept
    <3>3. lost'[conns[o].id] = lost[conns[o].id]
      BY <1>1, <2>1, <2>13, <3>1
    <3>4. Due(o)' = Due(o)
      BY <2>1, <3>2 DEF Due
    <3> QED BY <3>2, <3>3, <3>4 DEF Handled
  <2>14. ~Lapsed(id) => Handled(n)'
    <3>1. lost'[id] = <<>>
      BY <1>1, <2>1
    <3>2. Due(n)' = Run(c.since, count[id] - c.since)
      BY <2>1, <2>3, <2>8 DEF Due, Run
    <3>3. CASE c.stage = "live"
      <4>1. count[id] - c.since = Len(old)
        BY <1>5, <2>2, <2>3, <3>3
      <4> QED BY <2>3, <2>7, <2>8, <3>1, <3>2, <3>3, <4>1 DEF Handled
    <3>4. CASE c.stage # "live"
      <4>1. count[id] - c.since = 0
        BY <1>5, <2>3, <3>4
      <4>2. Run(c.since, 0) = <<>>
        BY DEF Run
      <4> QED BY <2>3, <2>8, <3>1, <3>2, <3>4, <4>1, <4>2 DEF Handled
    <3> QED BY <3>3, <3>4
  <2>15. ASSUME NEW p \in Peers, NEW o \in book'[p], ~Lapsed(conns[o].id)'
         PROVE  Handled(o)'
    <3>1. CASE o = n
      BY <2>3, <2>8, <2>10, <2>14, <2>15, <3>1
    <3>2. CASE o \in book[p] /\ conns[o].id # id
      <4>1. conns'[o].id = conns[o].id /\ conns[o].id \in Ids
        BY <1>2, <1>3, <2>4, <2>8, <3>2
      <4> QED BY <2>10, <2>13, <2>15, <3>2, <4>1
    <3> QED BY <2>12, <3>1, <3>2
  <2> QED BY <2>9, <2>11, <2>15 DEF Kept
<1>14. ASSUME NEW id \in Ids, Message(id)
       PROVE  Since' /\ Kept'
  <2> DEFINE takers == {o \in Found(id) : conns[o].stage = "live"}
  <2>0. takers = {o \in book[id[1]] : conns[o].id = id /\ conns[o].stage = "live"}
    BY DEF Found
  <2>1. /\ count' = [count EXCEPT ![id] = @ + 1]
        /\ conns' = [o \in DOMAIN conns |->
               IF o \in takers THEN [conns[o] EXCEPT !.got = Append(@, count[id] + 1)]
               ELSE conns[o]]
        /\ lost' = [lost EXCEPT ![id] =
               IF takers = {} THEN Append(@, count[id] + 1) ELSE @]
        /\ UNCHANGED <<book, skipped>>
    BY <1>14 DEF Message
  <2> HIDE DEF takers
  <2>2. DOMAIN conns' = DOMAIN conns
        /\ \A o \in DOMAIN conns : conns'[o].id = conns[o].id
               /\ conns'[o].since = conns[o].since /\ conns'[o].stage = conns[o].stage
               /\ conns'[o].got = IF o \in takers THEN Append(conns[o].got, count[id] + 1)
                                  ELSE conns[o].got
    BY <1>2, <2>1 DEF Conn
  <2>3. count'[id] = count[id] + 1 /\ \A i \in Ids : i # id => count'[i] = count[i]
    BY <1>1, <2>1
  <2>4. \A i \in Ids : i # id => lost'[i] = lost[i]
    BY <1>1, <2>1
  <2>5. \A i \in Ids : Lapsed(i)' <=> Lapsed(i)
    BY <1>1, <2>1, <2>2 DEF Lapsed
  <2>6. Since'
    BY <1>2, <1>5, <2>2, <2>3 DEF Since, Conn
  <2>7. ASSUME NEW i \in Ids, ~Lapsed(i)'
        PROVE  Last(i)'
    <3>1. Last(i)
      BY <2>5, <2>7 DEF Kept
    <3>2. CASE i # id
      BY <2>3, <2>4, <3>1, <3>2 DEF Last
    <3>3. CASE i = id /\ takers = {}
      <4> DEFINE a == count[id] - Len(lost[id])
                 m == Len(lost[id])
      <4>1. a \in Nat /\ m \in Nat /\ a + m + 1 = count[id] + 1
        BY <1>5 DEF Bounded
      <4>2. lost[id] = Run(a, m)
        BY <3>1, <3>3 DEF Last
      <4>3. lost'[id] = Append(lost[id], count[id] + 1)
        BY <1>1, <2>1, <3>3
      <4> HIDE DEF a, m
      <4>4. lost'[id] = Run(a, m + 1)
        BY <4>1, <4>2, <4>3, RunGrows
      <4>5. Len(lost'[id]) = m + 1 /\ count'[id] - (m + 1) = a
        BY <1>5, <2>3, <4>1, <4>4, RunGrows
      <4> QED BY <3>3, <4>4, <4>5 DEF Last
    <3>4. CASE i = id /\ takers # {}
      <4>1. PICK o \in book[id[1]] : conns[o].id = id /\ conns[o].stage = "live"
        BY <2>0, <3>4
      <4>2. lost[id] = <<>>
        BY <2>5, <2>7, <3>4, <4>1, IdHasPeer DEF Kept, Handled
      <4>3. lost'[id] = lost[id]
        BY <1>1, <2>1, <3>4
      <4>4. Len(lost'[id]) = 0 /\ count'[id] - 0 = count'[id]
        BY <1>5, <2>3, <4>2, <4>3
      <4>5. Run(count'[id], 0) = <<>>
        BY DEF Run
      <4> QED BY <3>4, <4>2, <4>3, <4>4, <4>5 DEF Last
    <3> QED BY <3>2, <3>3, <3>4
  <2>8. ASSUME NEW p \in Peers, NEW o \in book[p], ~Lapsed(conns[o].id)
        PROVE  Handled(o)'
    <3>1. Handled(o) /\ o \in DOMAIN conns /\ conns[o].id \in Ids /\ conns[o].id[1] = p
      BY <1>2, <1>3, <2>8 DEF Kept
    <3>2. conns'[o].id = conns[o].id /\ conns'[o].since = conns[o].since
          /\ conns'[o].stage = conns[o].stage
      BY <2>2, <3>1
    <3>3. CASE conns[o].id # id
      <4>1. o \notin takers
        BY <2>0, <3>3
      <4>2. conns'[o].got = conns[o].got /\ lost'[conns[o].id] = lost[conns[o].id]
            /\ count'[conns[o].id] = count[conns[o].id]
        BY <2>2, <2>3, <2>4, <3>1, <3>3, <4>1
      <4>3. Due(o)' = Due(o)
        BY <3>2, <4>2 DEF Due
      <4> QED BY <3>1, <3>2, <4>2, <4>3 DEF Handled
    <3>4. CASE conns[o].id = id
      <4> DEFINE a == conns[o].since
                 m == count[id] - conns[o].since
      <4>1. a \in Nat /\ m \in Nat /\ a + m + 1 = count[id] + 1
            /\ count[id] + 1 - conns[o].since = m + 1
        BY <1>2, <1>5, <3>1, <3>4 DEF Since, Conn
      <4>2. Due(o) = Run(a, m)
        BY <3>4 DEF Due, Run
      <4>3. Due(o)' = Run(a, m + 1)
        BY <2>3, <3>2, <3>4, <4>1 DEF Due, Run
      <4> HIDE DEF a, m
      <4>4. Due(o)' = Append(Due(o), count[id] + 1)
        BY <4>1, <4>2, <4>3, RunGrows
      <4>5. CASE conns[o].stage = "live"
        <5>1. o \in takers
          BY <2>0, <3>1, <3>4, <4>5
        <5>2. lost'[id] = lost[id]
          BY <1>1, <2>1, <5>1
        <5>3. conns'[o].got = Append(conns[o].got, count[id] + 1)
          BY <2>2, <3>1, <5>1
        <5> QED BY <3>1, <3>2, <3>4, <4>4, <4>5, <5>2, <5>3 DEF Handled
      <4>6. CASE conns[o].stage # "live"
        <5>1. takers = {}
          BY <1>4, <2>0, <3>1, <3>4, <4>6
        <5>2. lost'[id] = Append(lost[id], count[id] + 1)
          BY <1>1, <2>1, <5>1
        <5> QED BY <3>1, <3>2, <3>4, <4>4, <4>6, <5>2 DEF Handled
      <4> QED BY <4>5, <4>6
    <3> QED BY <3>3, <3>4
  <2>9. ASSUME NEW p \in Peers, NEW o \in book'[p], ~Lapsed(conns[o].id)'
        PROVE  Handled(o)'
    <3>1. o \in book[p] /\ conns'[o].id = conns[o].id /\ conns[o].id \in Ids
      BY <1>2, <1>3, <2>1, <2>2
    <3> QED BY <2>5, <2>8, <2>9, <3>1
  <2> QED BY <2>6, <2>7, <2>9 DEF Kept
<1>15. ASSUME NEW o \in DOMAIN conns, Answer(o)
       PROVE  Since' /\ Kept'
  <2> DEFINE id == conns[o].id
  <2>1. conns' = [conns EXCEPT ![o] = [conns[o] EXCEPT !.stage = "live", !.got = lost[id]]]
        /\ lost' = [lost EXCEPT ![id] = <<>>] /\ UNCHANGED <<book, skipped, count>>
        /\ conns[o].stage = "waiting"
    BY <1>15 DEF Answer
  <2>2. DOMAIN conns' = DOMAIN conns
        /\ \A b \in DOMAIN conns : conns'[b].id = conns[b].id
               /\ conns'[b].since = conns[b].since
               /\ (b # o => conns'[b] = conns[b])
        /\ conns'[o].stage = "live" /\ conns'[o].got = lost[id]
    BY <1>1, <1>2, <2>1 DEF Conn
  <2>3. id \in Ids /\ lost'[id] = <<>> /\ \A i \in Ids : i # id => lost'[i] = lost[i]
    BY <1>1, <1>2, <2>1
  <2>4. \A i \in Ids : Lapsed(i)' <=> Lapsed(i)
    BY <1>1, <2>1, <2>2 DEF Lapsed
  <2>5. Since'
    BY <2>1, <2>2 DEF Since
  <2>6. ASSUME NEW i \in Ids, ~Lapsed(i)'
        PROVE  Last(i)'
    <3>1. CASE i = id
      <4>1. lost'[i] = <<>>
        BY <2>3, <3>1
      <4>2. Len(lost'[i]) = 0 /\ count'[i] - 0 = count'[i]
        BY <1>5, <2>1, <4>1
      <4>3. Run(count'[i], 0) = <<>>
        BY DEF Run
      <4> QED BY <4>1, <4>2, <4>3 DEF Last
    <3>2. CASE i # id
      BY <2>1, <2>3, <2>4, <2>6, <3>2 DEF Kept, Last
    <3> QED BY <3>1, <3>2
  <2>7. ASSUME NEW p \in Peers, NEW b \in book[p], ~Lapsed(conns[b].id)
        PROVE  Handled(b)'
    <3>1. Handled(b) /\ b \in DOMAIN conns /\ conns[b].id \in Ids /\ conns[b].id[1] = p
      BY <1>2, <1>3, <2>7 DEF Kept
    <3>2. Due(b)' = Due(b)
      BY <2>1, <2>2, <3>1 DEF Due
    <3>3. CASE b = o
      <4>1. lost[id] = Due(o)
        BY <2>1, <3>1, <3>3 DEF Handled
      <4> QED BY <2>2, <2>3, <3>2, <3>3, <4>1 DEF Handled
    <3>4. CASE b # o
      <4>1. conns[b].id # id
        <5>1. ASSUME conns[b].id = id
              PROVE  FALSE
          <6>1. o \in book[p]
            BY <2>1, <2>7, <3>1, <5>1 DEF Complete, Lapsed
          <6> QED BY <1>4, <3>1, <3>4, <5>1, <6>1
        <5> QED BY <5>1
      <4> HIDE DEF id
      <4>2. lost'[conns[b].id] = lost[conns[b].id] /\ conns'[b] = conns[b]
        BY <2>2, <2>3, <3>1, <3>4, <4>1
      <4> QED BY <3>1, <3>2, <4>2 DEF Handled
    <3> QED BY <3>3, <3>4
  <2>8. ASSUME NEW p \in Peers, NEW b \in book'[p], ~Lapsed(conns[b].id)'
        PROVE  Handled(b)'
    <3>1. b \in book[p] /\ conns'[b].id = conns[b].id /\ conns[b].id \in Ids
      BY <1>2, <1>3, <2>1, <2>2
    <3> QED BY <2>4, <2>7, <2>8, <3>1
  <2> QED BY <2>5, <2>6, <2>8 DEF Kept
<1>16. CASE UNCHANGED vars
  BY <1>6, <1>16 DEF vars
<1> QED
  BY <1>8, <1>9, <1>10, <1>11, <1>12, <1>13, <1>14, <1>15, <1>16 DEF Next

\* The inductive invariant with the messages.
Served == Booked /\ Since /\ Kept

\* Every step keeps it.
LEMMA ServedStep == Served /\ [Next]_vars => Served'
<1> SUFFICES ASSUME Served, [Next]_vars
             PROVE  Served'
  OBVIOUS
<1>1. Booked'
  BY BookedStep DEF Served
<1>2. BookTyped'
  BY TypedStep DEF Served, Booked, Typed
<1>3. Since' /\ Kept'
  BY <1>1, <1>2, KeptStep DEF Served, Booked, Typed
<1> QED BY <1>1, <1>3 DEF Served

\* A new peer has it.
LEMMA ServedInit == Init => Served
<1> SUFFICES ASSUME Init
             PROVE  Served
  OBVIOUS
<1>1. Booked
  BY BookedInit
<1>2. conns = <<>> /\ book = [p \in Peers |-> {}] /\ count \in [Ids -> Nat]
      /\ \A id \in Ids : lost[id] = <<>>
  BY DEF Init
<1>3. Since
  BY <1>2 DEF Since
<1>4. \A id \in Ids : Last(id)
  BY <1>2, NothingIsLast
<1>5. Kept
  BY <1>2, <1>4 DEF Kept
<1> QED BY <1>1, <1>3, <1>5 DEF Served

\* Every message for a connection in the book is taken or stored once and in order, unless a
\* connection of the same id was passed over (peerjs.js, _storeMessage, _getMessages and
\* MediaConnection.prototype.answer).
THEOREM NoMessageMissed == Spec => []NoneMissed
<1>1. Served => NoneMissed
  BY KeptIsNoneMissed DEF Served
<1> QED BY ServedInit, ServedStep, <1>1, PTL DEF Spec
=============================================================================
