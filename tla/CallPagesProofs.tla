-------------------------- MODULE CallPagesProofs --------------------------
(***************************************************************************)
(* Proofs about CallPages for every set of users, every spelling of their  *)
(* names, any number of tracks and of calls.                               *)
(***************************************************************************)
EXTENDS CallPages, FiniteSetTheorems, TLAPS

USE DEF netVars, mediaVars, history

-----------------------------------------------------------------------------
(* Types.                                                                  *)

\* What sendMessage does to the connections keeps their types.
NetTyped ==
    /\ conn \in [Users -> Connection \cup {None}]
    /\ link \in [Users -> Seq(Message)]
    /\ \A u \in Users :
           /\ link[u] # <<>> => conn[u] # None /\ conn[u].page \in Users
           /\ conn[u] # None /\ conn[u].st = "open" => conn[u].page \in Users

\* A message is built from its three parts.
LEMMA MsgTyped ==
  ASSUME NEW from \in Users, NEW to \in Users, NEW action \in {"call", "accept", "accept-ok"}
  PROVE  Msg(from, to, action) \in Message
BY DEF Msg, Message

\* sendMessage makes a connection, appends to one, or drops the message.
LEMMA SendTyped ==
  ASSUME NetTyped, NEW u \in Users, NEW m \in Message, NEW lost, SendMessage(u, m, lost)
  PROVE  NetTyped'
<1>1. CASE conn[u] = None /\ peer[u] \in {"open", "opening"}
  <2>1. PICK st \in {"opening", "closed"} :
            conn' = [conn EXCEPT ![u] = [st |-> st, to |-> m.to, first |-> m, page |-> None]]
    BY <1>1 DEF SendMessage
  <2>2. [st |-> st, to |-> m.to, first |-> m, page |-> None] \in Connection
    BY DEF Connection, Message
  <2>3. link' = link
    BY <1>1 DEF SendMessage
  <2>4. link[u] = <<>>
    BY <1>1 DEF NetTyped
  <2> QED BY <2>1, <2>2, <2>3, <2>4 DEF NetTyped
<1>2. CASE conn[u] = None /\ peer[u] \notin {"open", "opening"}
  BY <1>2 DEF SendMessage, NetTyped
<1>3. CASE conn[u] # None
  <2>1. conn' = conn
    BY <1>3 DEF SendMessage
  <2>2. CASE link' = link
    BY <2>1, <2>2 DEF NetTyped
  <2>3. CASE conn[u].st = "open" /\ link' = [link EXCEPT ![u] = Append(@, m)]
    <3>1. link' \in [Users -> Seq(Message)]
      BY <2>3 DEF NetTyped
    <3>2. \A v \in Users \ {u} : link'[v] = link[v]
      BY <2>3 DEF NetTyped
    <3> QED BY <1>3, <2>1, <2>3, <3>1, <3>2 DEF NetTyped
  <2> QED BY <1>3, <2>2, <2>3 DEF SendMessage
<1> QED BY <1>1, <1>2, <1>3

\* A message that arrives leaves its connection.
LEMMA ArrivesTyped ==
  ASSUME NetTyped, NEW u \in Users, NEW w, NEW action, astray \in BOOLEAN,
         Arrives(u, w, action)
  PROVE  /\ w \in Users /\ Head(link[u]) \in Message /\ Head(link[u]).action = action
         /\ NetTyped' /\ astray' \in BOOLEAN
<1>1. /\ w \in Users /\ Head(link[u]) \in Message
      /\ Head(link[u]).action = action /\ astray' \in BOOLEAN
  BY DEF NetTyped, Arrives
<1>2. conn' = conn /\ link' \in [Users -> Seq(Message)]
  BY DEF NetTyped, Arrives
<1>3. \A v \in Users : link'[v] # <<>> => link[v] # <<>>
  BY DEF NetTyped, Arrives
<1> QED BY <1>1, <1>2, <1>3 DEF NetTyped

\* What is not about connections.
RestTyped ==
    /\ peer \in [Users -> {"none", "opening", "open", "off"}]
    /\ stream \in [Users -> BOOLEAN]
    /\ dialog \in [Users -> Message \cup {None}]
    /\ ringing \subseteq Call /\ playing \subseteq Answered
    /\ remote \in [Users -> Users \cup {None}]
    /\ agreed \subseteq Users \X Users /\ seen \subseteq Users \X Users
    /\ clicks \in Nat /\ accepts \in Nat /\ calls \in Nat
    /\ astray \in BOOLEAN /\ mishap \in BOOLEAN

\* A media call that is placed rings.
LEMMA PlaceTyped ==
  ASSUME RestTyped, NEW w \in Users, NEW m \in Message, PlaceCall(w, m)
  PROVE  ringing' \subseteq Call /\ calls' \in Nat /\ mishap' \in BOOLEAN
<1>1. CASE peer[w] = "open" /\ stream[w]
  <2>1. PICK n \in 0..calls : ringing' = ringing \cup {[page |-> w, msg |-> m, n |-> n]}
    BY <1>1 DEF PlaceCall
  <2>2. n \in Nat /\ calls' = calls + 1 /\ mishap' = mishap
    BY <1>1 DEF PlaceCall, RestTyped
  <2> QED BY <2>1, <2>2 DEF RestTyped, Call
<1>2. CASE ~(peer[w] = "open" /\ stream[w])
  BY <1>2 DEF PlaceCall, RestTyped
<1> QED BY <1>1, <1>2

(* The initial state is well typed.                                        *)
LEMMA TypeInit == Init => NetTyped /\ RestTyped
<1> SUFFICES ASSUME Init PROVE NetTyped /\ RestTyped
  OBVIOUS
<1>1. \A u \in Users : link[u] = <<>> /\ conn[u] = None
  BY DEF Init
<1>2. conn \in [Users -> Connection \cup {None}] /\ link \in [Users -> Seq(Message)]
  BY DEF Init
<1>3. NetTyped
  BY <1>1, <1>2 DEF NetTyped
<1>4. RestTyped
  BY DEF Init, RestTyped
<1> QED BY <1>3, <1>4

(* TypeOK is its two halves.                                               *)
LEMMA TypeParts == TypeOK <=> NetTyped /\ RestTyped
<1>1. TypeOK => NetTyped
  BY DEF TypeOK, NetTyped
<1>2. TypeOK => RestTyped
  BY DEF TypeOK, RestTyped
<1>3. NetTyped /\ RestTyped => TypeOK
  BY DEF TypeOK, NetTyped, RestTyped
<1> QED BY <1>1, <1>2, <1>3

(* Every step keeps the types.                                             *)
LEMMA TypeStep ==
  ASSUME NetTyped, RestTyped, [Next]_vars
  PROVE  NetTyped' /\ RestTyped'
<1>1. ASSUME NEW u \in Users, Register(u) PROVE NetTyped' /\ RestTyped'
  BY <1>1 DEF Register, NetTyped, RestTyped
<1>2. ASSUME NEW u \in Users, ServerAnswers(u) PROVE NetTyped' /\ RestTyped'
  <2>1. PICK p \in {"off", "open"} : peer' = [peer EXCEPT ![u] = p]
    BY <1>2 DEF ServerAnswers
  <2> QED BY <1>2, <2>1 DEF ServerAnswers, NetTyped, RestTyped
<1>3. ASSUME NEW u \in Users, LoseServer(u) PROVE NetTyped' /\ RestTyped'
  BY <1>3 DEF LoseServer, NetTyped, RestTyped
<1>4. ASSUME NEW u \in Users, GotStream(u) PROVE NetTyped' /\ RestTyped'
  BY <1>4 DEF GotStream, NetTyped, RestTyped
<1>5. ASSUME NEW u \in Users, NEW t \in Users, ClickCall(u, t) PROVE NetTyped' /\ RestTyped'
  <2>1. PICK lost \in BOOLEAN : /\ SendMessage(u, Msg(u, t, "call"), lost)
                                /\ mishap' = (mishap \/ lost)
    BY <1>5 DEF ClickCall
  <2>2. NetTyped'
    BY <2>1, MsgTyped, SendTyped
  <2> QED BY <1>5, <2>1, <2>2 DEF ClickCall, RestTyped
<1>6. ASSUME NEW u \in Users, ClickAccept(u) PROVE NetTyped' /\ RestTyped'
  <2>1. dialog[u] \in Message /\ dialog[u].to \in Users /\ dialog[u].from \in Users
    BY <1>6 DEF ClickAccept, RestTyped, Message
  <2>2. PICK lost \in BOOLEAN :
            /\ SendMessage(u, Msg(dialog[u].to, dialog[u].from, "accept"), lost)
            /\ mishap' = (mishap \/ lost)
    BY <1>6 DEF ClickAccept
  <2>3. NetTyped'
    BY <2>1, <2>2, MsgTyped, SendTyped
  <2> QED BY <1>6, <2>1, <2>2, <2>3 DEF ClickAccept, RestTyped
<1>7. ASSUME NEW u \in Users, ClickCancel(u) PROVE NetTyped' /\ RestTyped'
  BY <1>7 DEF ClickCancel, NetTyped, RestTyped
<1>8. ASSUME NEW u \in Users, ConnOpens(u) PROVE NetTyped' /\ RestTyped'
  <2>1. PICK w \in Users : conn' = [conn EXCEPT ![u].st = "open", ![u].page = w]
    BY <1>8 DEF ConnOpens
  <2>2. conn[u] \in Connection /\ conn[u].first \in Message
    BY <1>8 DEF ConnOpens, NetTyped, Connection
  <2>3. conn'[u] \in Connection /\ conn'[u].page = w /\ conn'[u] # None
    <3>1. conn'[u] = [conn[u] EXCEPT !.st = "open", !.page = w]
      BY <2>1 DEF NetTyped
    <3>2. conn'[u] \in Connection /\ conn'[u].page = w
      BY <2>2, <3>1 DEF Connection
    <3> QED BY <3>2, CallAssumption
  <2>4. conn' \in [Users -> Connection \cup {None}] /\ \A v \in Users \ {u} : conn'[v] = conn[v]
    <3>1. conn' = [conn EXCEPT ![u] = conn'[u]]
      BY <2>1 DEF NetTyped
    <3> QED BY <2>3, <3>1 DEF NetTyped
  <2>5. /\ link' \in [Users -> Seq(Message)]
        /\ \A v \in Users \ {u} : link'[v] = link[v]
    <3>1. link' = [link EXCEPT ![u] = Append(@, conn[u].first)]
      BY <1>8 DEF ConnOpens
    <3>2. Append(link[u], conn[u].first) \in Seq(Message)
      BY <2>2 DEF NetTyped
    <3> QED BY <3>1, <3>2 DEF NetTyped
  <2>6. NetTyped'
    BY <2>3, <2>4, <2>5 DEF NetTyped
  <2> QED BY <1>8, <2>6 DEF ConnOpens, RestTyped
<1>9. ASSUME NEW u \in Users, ConnCloses(u) PROVE NetTyped' /\ RestTyped'
  <2>1. conn[u] \in Connection
    BY <1>9 DEF ConnCloses, NetTyped
  <2>2. conn'[u] \in Connection /\ conn'[u].st = "closed"
    BY <1>9, <2>1 DEF ConnCloses, NetTyped, Connection
  <2>3. /\ conn' \in [Users -> Connection \cup {None}]
        /\ link' \in [Users -> Seq(Message)] /\ link'[u] = <<>>
        /\ \A v \in Users \ {u} : conn'[v] = conn[v] /\ link'[v] = link[v]
    BY <1>9, <2>2 DEF ConnCloses, NetTyped
  <2>4. NetTyped'
    BY <2>2, <2>3 DEF NetTyped
  <2> QED BY <1>9, <2>4 DEF ConnCloses, RestTyped
<1>10. ASSUME NEW u \in Users, ReceiveCall(u) PROVE NetTyped' /\ RestTyped'
  <2>1. PICK w \in Users : /\ Arrives(u, w, "call")
                           /\ dialog' = [dialog EXCEPT ![w] = Head(link[u])]
    BY <1>10 DEF ReceiveCall
  <2>2. Head(link[u]) \in Message /\ NetTyped' /\ astray' \in BOOLEAN
    BY <2>1, ArrivesTyped DEF RestTyped
  <2> QED BY <1>10, <2>1, <2>2 DEF ReceiveCall, RestTyped
<1>11. ASSUME NEW u \in Users, ReceiveAccept(u) PROVE NetTyped' /\ RestTyped'
  <2>1. PICK w \in Users : Arrives(u, w, "accept") /\ PlaceCall(w, Head(link[u]))
    BY <1>11 DEF ReceiveAccept
  <2>2. Head(link[u]) \in Message /\ NetTyped' /\ astray' \in BOOLEAN
    BY <2>1, ArrivesTyped DEF RestTyped
  <2>3. ringing' \subseteq Call /\ calls' \in Nat /\ mishap' \in BOOLEAN
    BY <2>1, <2>2, PlaceTyped
  <2> QED BY <1>11, <2>2, <2>3 DEF ReceiveAccept, RestTyped
<1>12. ASSUME NEW u \in Users, ReceiveAcceptOk(u) PROVE NetTyped' /\ RestTyped'
  <2>1. PICK w \in Users : Arrives(u, w, "accept-ok") /\ PlaceCall(w, Head(link[u]))
    BY <1>12 DEF ReceiveAcceptOk
  <2>2. Head(link[u]) \in Message /\ NetTyped' /\ astray' \in BOOLEAN
    BY <2>1, ArrivesTyped DEF RestTyped
  <2>3. ringing' \subseteq Call /\ calls' \in Nat /\ mishap' \in BOOLEAN
    BY <2>1, <2>2, PlaceTyped
  <2> QED BY <1>12, <2>2, <2>3 DEF ReceiveAcceptOk, RestTyped
<1>13. ASSUME NEW c \in ringing, RingFails(c) PROVE NetTyped' /\ RestTyped'
  BY <1>13 DEF RingFails, NetTyped, RestTyped
<1>14. ASSUME NEW c \in ringing, NEW x \in Users, Ring(c, x) PROVE NetTyped' /\ RestTyped'
  <2>1. NetTyped'
    BY <1>14 DEF Ring, NetTyped
  <2>2. [call |-> c, by |-> x, due |-> Tracks] \in Answered
    BY CallAssumption DEF RestTyped, Answered
  <2>3. playing' \subseteq Answered /\ mishap' \in BOOLEAN
    BY <1>14, <2>2 DEF Ring, RestTyped
  <2>4. ringing' \subseteq Call /\ astray' \in BOOLEAN
    BY <1>14 DEF Ring, RestTyped
  <2> QED BY <1>14, <2>1, <2>3, <2>4 DEF Ring, RestTyped
<1>15. ASSUME NEW a \in playing, StreamBegins(a) PROVE NetTyped' /\ RestTyped'
  <2>1. /\ a \in Answered /\ a.by \in Users /\ a.due \in Nat \ {0}
        /\ a.call.page \in Users /\ a.call.msg \in Message
    BY DEF RestTyped, Answered, Call
  <2>2. a.call.msg.to \in Users /\ a.call.msg.from \in Users
    BY <2>1 DEF Message
  <2>3. playing' \subseteq Answered
    BY <1>15, <2>1 DEF StreamBegins, RestTyped, Answered
  <2>4. remote' \in [Users -> Users \cup {None}] /\ seen' \subseteq Users \X Users
    BY <1>15, <2>1 DEF StreamBegins, RestTyped
  <2>5. NetTyped' /\ mishap' \in BOOLEAN
    <3>1. CASE a.call.msg.action = "accept"
      <4>1. PICK lost \in BOOLEAN :
                /\ SendMessage(a.call.page, Msg(a.call.msg.to, a.call.msg.from, "accept-ok"), lost)
                /\ mishap' = (mishap \/ lost)
        BY <1>15, <3>1 DEF StreamBegins
      <4> QED BY <2>1, <2>2, <4>1, MsgTyped, SendTyped DEF RestTyped
    <3>2. CASE a.call.msg.action # "accept"
      BY <1>15, <3>2 DEF StreamBegins, NetTyped, RestTyped
    <3> QED BY <3>1, <3>2
  <2> QED BY <1>15, <2>3, <2>4, <2>5 DEF StreamBegins, RestTyped
<1>16. CASE UNCHANGED vars
  BY <1>16 DEF vars, NetTyped, RestTyped
<1> QED
  BY <1>1, <1>2, <1>3, <1>4, <1>5, <1>6, <1>7, <1>8, <1>9, <1>10, <1>11, <1>12, <1>13,
     <1>14, <1>15, <1>16 DEF Next

\* Every reachable state of the pages is well typed.
THEOREM TypeCorrect == Spec => []TypeOK
<1>1. (NetTyped /\ RestTyped) /\ [Next]_vars => (NetTyped /\ RestTyped)'
  BY TypeStep
<1> QED BY <1>1, TypeInit, TypeParts, PTL DEF Spec

-----------------------------------------------------------------------------
(* Nobody is shown unasked.  As long as nothing went astray, what a page   *)
(* holds names the users it stands for, and whatever comes after an answer *)
(* is about two who have agreed.                                           *)

Both(u, v) == <<u, v>> \in agreed /\ <<v, u>> \in agreed

\* m is a message that the page of u may send when agr is agreed.
Honest(agr, u, m) ==
    /\ m.from = u
    /\ <<u, m.to>> \in agr
    /\ m.action # "call" => <<m.to, u>> \in agr

\* The connections carry honest messages.
LinksHonest ==
    \A u \in Users :
        /\ conn[u] # None => Honest(agreed, u, conn[u].first)
        /\ \A i \in DOMAIN link[u] : Honest(agreed, u, link[u][i])

\* A dialog is open at the one who is called, by one who has called him.
DialogsHonest ==
    \A w \in Users : dialog[w] # None =>
        dialog[w].to = w /\ <<dialog[w].from, w>> \in agreed

\* Media calls are between two who have agreed, at the pages they are for.
CallHonest(c) == c.msg.to = c.page /\ Both(c.page, c.msg.from)
CallsHonest ==
    /\ \A c \in ringing : CallHonest(c)
    /\ \A a \in playing : CallHonest(a.call) /\ a.by = a.call.msg.from

\* What is shown is what was agreed.
ShownHonest == \A u \in Users : remote[u] # None => Both(u, remote[u])

Honesty == ~astray => LinksHonest /\ DialogsHonest /\ CallsHonest /\ ShownHonest

\* Agreement is never withdrawn.
LEMMA HonestGrows ==
  ASSUME agreed \subseteq agreed', NEW u, NEW m, Honest(agreed, u, m)
  PROVE  Honest(agreed', u, m)
BY DEF Honest

\* sendMessage of an honest message keeps the connections honest.
LEMMA SendHonest ==
  ASSUME NetTyped, LinksHonest, agreed \subseteq agreed',
         NEW u \in Users, NEW m \in Message, NEW lost, SendMessage(u, m, lost),
         Honest(agreed', u, m)
  PROVE  LinksHonest'
<1>1. CASE conn[u] = None /\ peer[u] \in {"open", "opening"}
  <2>1. PICK st \in {"opening", "closed"} :
            conn' = [conn EXCEPT ![u] = [st |-> st, to |-> m.to, first |-> m, page |-> None]]
    BY <1>1 DEF SendMessage
  <2>2. conn'[u].first = m /\ \A v \in Users \ {u} : conn'[v] = conn[v]
    BY <2>1 DEF NetTyped
  <2>3. link' = link
    BY <1>1 DEF SendMessage
  <2> QED BY <2>2, <2>3 DEF LinksHonest, Honest
<1>2. CASE conn[u] = None /\ peer[u] \notin {"open", "opening"}
  BY <1>2 DEF SendMessage, LinksHonest, Honest
<1>3. CASE conn[u] # None
  <2>1. conn' = conn
    BY <1>3 DEF SendMessage
  <2>2. CASE link' = link
    BY <2>1, <2>2 DEF LinksHonest, Honest
  <2>3. CASE link' = [link EXCEPT ![u] = Append(@, m)]
    <3>1. \A v \in Users \ {u} : link'[v] = link[v]
      BY <2>3 DEF NetTyped
    <3>2. link[u] \in Seq(Message) /\ link'[u] = Append(link[u], m)
      BY <2>3 DEF NetTyped
    <3>3. \A i \in DOMAIN link'[u] :
              \/ link'[u][i] = m
              \/ i \in DOMAIN link[u] /\ link'[u][i] = link[u][i]
      BY <3>2
    <3>4. \A i \in DOMAIN link'[u] : Honest(agreed', u, link'[u][i])
      BY <3>3, HonestGrows DEF LinksHonest
    <3>5. \A v \in Users \ {u} : \A i \in DOMAIN link'[v] : Honest(agreed', v, link'[v][i])
      BY <3>1, HonestGrows DEF LinksHonest
    <3>6. \A v \in Users : conn'[v] # None => Honest(agreed', v, conn'[v].first)
      BY <2>1, HonestGrows DEF LinksHonest
    <3> QED BY <3>4, <3>5, <3>6 DEF LinksHonest
  <2> QED BY <1>3, <2>2, <2>3 DEF SendMessage
<1> QED BY <1>1, <1>2, <1>3

\* An arriving message that does not go astray is honest and at the one it is for.
LEMMA ArrivesHonest ==
  ASSUME NetTyped, LinksHonest, ~astray', agreed' = agreed,
         NEW u \in Users, NEW w, NEW action, Arrives(u, w, action)
  PROVE  ~astray /\ Honest(agreed, u, Head(link[u])) /\ Head(link[u]).to = w /\ LinksHonest'
<1>1. ~astray /\ Head(link[u]).to = w
  BY DEF Arrives
<1>2. link[u] \in Seq(Message) /\ link[u] # <<>> /\ Head(link[u]) = link[u][1]
  BY DEF NetTyped, Arrives
<1>3. Honest(agreed, u, Head(link[u]))
  BY <1>2 DEF LinksHonest
<1>4. /\ conn' = conn /\ link'[u] = Tail(link[u])
      /\ \A v \in Users \ {u} : link'[v] = link[v]
  BY DEF Arrives, NetTyped
<1>5. \A i \in DOMAIN link'[u] : i + 1 \in DOMAIN link[u] /\ link'[u][i] = link[u][i + 1]
  BY <1>2, <1>4
<1>6. \A v \in Users : \A i \in DOMAIN link'[v] : Honest(agreed', v, link'[v][i])
  BY <1>4, <1>5 DEF LinksHonest
<1>7. LinksHonest'
  BY <1>4, <1>6 DEF LinksHonest
<1> QED BY <1>1, <1>3, <1>7

\* A media call placed for an honest answer is between two who have agreed.
LEMMA PlaceHonest ==
  ASSUME RestTyped, CallsHonest, agreed' = agreed, playing' = playing,
         NEW u \in Users, NEW w \in Users, NEW m \in Message,
         Honest(agreed, u, m), m.to = w, m.action # "call", PlaceCall(w, m)
  PROVE  CallsHonest'
<1>1. CASE peer[w] = "open" /\ stream[w]
  <2>1. PICK n \in 0..calls : ringing' = ringing \cup {[page |-> w, msg |-> m, n |-> n]}
    BY <1>1 DEF PlaceCall
  <2>2. CallHonest([page |-> w, msg |-> m, n |-> n])
    BY DEF Honest, CallHonest, Both
  <2> QED BY <2>1, <2>2 DEF CallsHonest, CallHonest, Both
<1>2. CASE ~(peer[w] = "open" /\ stream[w])
  BY <1>2 DEF PlaceCall, CallsHonest, CallHonest, Both
<1> QED BY <1>1, <1>2

\* What does not touch messages, calls or pictures keeps their honesty.
LEMMA UntouchedHonest ==
  ASSUME LinksHonest, DialogsHonest, CallsHonest, ShownHonest, agreed \subseteq agreed'
  PROVE  /\ UNCHANGED netVars => LinksHonest'
         /\ UNCHANGED dialog => DialogsHonest'
         /\ UNCHANGED <<ringing, playing>> => CallsHonest'
         /\ UNCHANGED remote => ShownHonest'
<1>1. UNCHANGED netVars => LinksHonest'
  BY HonestGrows DEF LinksHonest
<1>2. UNCHANGED dialog => DialogsHonest'
  BY DEF DialogsHonest
<1>3. UNCHANGED <<ringing, playing>> => CallsHonest'
  BY DEF CallsHonest, CallHonest, Both
<1>4. UNCHANGED remote => ShownHonest'
  BY DEF ShownHonest, Both
<1> QED BY <1>1, <1>2, <1>3, <1>4

(* Every step keeps honesty.                                               *)
LEMMA HonestStep ==
  ASSUME NetTyped, RestTyped, Honesty, [Next]_vars, ~astray'
  PROVE  LinksHonest' /\ DialogsHonest' /\ CallsHonest' /\ ShownHonest'
<1> DEFINE Goal == LinksHonest' /\ DialogsHonest' /\ CallsHonest' /\ ShownHonest'
<1> DEFINE Now == LinksHonest /\ DialogsHonest /\ CallsHonest /\ ShownHonest
<1> SUFFICES Goal
  OBVIOUS
<1>1. ASSUME UNCHANGED <<netVars, dialog, ringing, playing, remote, agreed, astray>> PROVE Goal
  BY <1>1, UntouchedHonest DEF Honesty
<1>2. ASSUME NEW u \in Users,
             \/ Register(u) \/ ServerAnswers(u) \/ LoseServer(u) \/ GotStream(u)
      PROVE  Goal
  BY <1>1, <1>2 DEF Register, ServerAnswers, LoseServer, GotStream
<1>3. ASSUME NEW u \in Users, NEW t \in Users, ClickCall(u, t) PROVE Goal
  <2>1. Now /\ agreed \subseteq agreed' /\ Honest(agreed', u, Msg(u, t, "call"))
    BY <1>3 DEF ClickCall, Honesty, Honest, Msg
  <2>2. PICK lost \in BOOLEAN : SendMessage(u, Msg(u, t, "call"), lost)
    BY <1>3 DEF ClickCall
  <2>3. LinksHonest'
    BY <2>1, <2>2, MsgTyped, SendHonest
  <2> QED BY <1>3, <2>1, <2>3, UntouchedHonest DEF ClickCall
<1>4. ASSUME NEW u \in Users, ClickAccept(u) PROVE Goal
  <2> DEFINE m == Msg(dialog[u].to, dialog[u].from, "accept")
  <2>1. /\ Now /\ agreed' = agreed \cup {<<u, dialog[u].from>>}
        /\ dialog[u] \in Message /\ dialog[u].to = u /\ <<dialog[u].from, u>> \in agreed
    BY <1>4 DEF ClickAccept, Honesty, DialogsHonest, RestTyped
  <2>2. m \in Message
    BY <2>1, MsgTyped DEF Message
  <2>3. Honest(agreed', u, m)
    BY <2>1 DEF Honest, Msg
  <2>4. PICK lost \in BOOLEAN : SendMessage(u, m, lost)
    BY <1>4 DEF ClickAccept
  <2>5. LinksHonest'
    BY <2>1, <2>2, <2>3, <2>4, SendHonest
  <2>6. dialog' = [dialog EXCEPT ![u] = None]
    BY <1>4 DEF ClickAccept
  <2>7. DialogsHonest'
    BY <2>1, <2>6 DEF DialogsHonest, RestTyped
  <2> QED BY <1>4, <2>1, <2>5, <2>7, UntouchedHonest DEF ClickAccept
<1>5. ASSUME NEW u \in Users, ClickCancel(u) PROVE Goal
  <2>1. Now /\ agreed' = agreed /\ dialog' = [dialog EXCEPT ![u] = None]
    BY <1>5 DEF ClickCancel, Honesty
  <2>2. DialogsHonest'
    BY <2>1 DEF DialogsHonest, RestTyped
  <2> QED BY <1>5, <2>1, <2>2, UntouchedHonest DEF ClickCancel
<1>6. ASSUME NEW u \in Users, ConnOpens(u) PROVE Goal
  <2>1. Now /\ agreed' = agreed /\ conn[u] # None /\ conn[u] \in Connection
    BY <1>6 DEF ConnOpens, Honesty, NetTyped
  <2>2. PICK w \in Users : conn' = [conn EXCEPT ![u].st = "open", ![u].page = w]
    BY <1>6 DEF ConnOpens
  <2>3. \A v \in Users : conn'[v] # None => conn[v] # None /\ conn'[v].first = conn[v].first
    BY <2>1, <2>2 DEF NetTyped, Connection
  <2>4. link'[u] = Append(link[u], conn[u].first) /\ \A v \in Users \ {u} : link'[v] = link[v]
    BY <1>6 DEF ConnOpens, NetTyped
  <2>5. link[u] \in Seq(Message) /\ conn[u].first \in Message
    BY <2>1 DEF NetTyped, Connection
  <2>6. \A i \in DOMAIN link'[u] :
            \/ link'[u][i] = conn[u].first
            \/ i \in DOMAIN link[u] /\ link'[u][i] = link[u][i]
    BY <2>4, <2>5
  <2>7. \A v \in Users : \A i \in DOMAIN link'[v] : Honest(agreed', v, link'[v][i])
    BY <2>1, <2>4, <2>6 DEF LinksHonest
  <2>8. LinksHonest'
    BY <2>1, <2>3, <2>7 DEF LinksHonest
  <2> QED BY <1>6, <2>1, <2>8, UntouchedHonest DEF ConnOpens
<1>7. ASSUME NEW u \in Users, ConnCloses(u) PROVE Goal
  <2>1. Now /\ agreed' = agreed /\ conn[u] # None /\ conn[u] \in Connection
    BY <1>7 DEF ConnCloses, Honesty, NetTyped
  <2>2. conn' = [conn EXCEPT ![u].st = "closed"] /\ link' = [link EXCEPT ![u] = <<>>]
    BY <1>7 DEF ConnCloses
  <2>3. \A v \in Users : conn'[v] # None => conn[v] # None /\ conn'[v].first = conn[v].first
    BY <2>1, <2>2 DEF NetTyped, Connection
  <2>4. \A v \in Users : link'[v] = <<>> \/ link'[v] = link[v]
    BY <2>2 DEF NetTyped
  <2>5. LinksHonest'
    BY <2>1, <2>3, <2>4 DEF LinksHonest
  <2> QED BY <1>7, <2>1, <2>5, UntouchedHonest DEF ConnCloses
<1>8. ASSUME NEW u \in Users, ReceiveCall(u) PROVE Goal
  <2>1. PICK w \in Users : /\ Arrives(u, w, "call")
                           /\ dialog' = [dialog EXCEPT ![w] = Head(link[u])]
    BY <1>8 DEF ReceiveCall
  <2>2. Now /\ agreed' = agreed
    BY <1>8, <2>1 DEF ReceiveCall, Arrives, Honesty
  <2>3. Honest(agreed, u, Head(link[u])) /\ Head(link[u]).to = w /\ LinksHonest'
    BY <2>1, <2>2, ArrivesHonest
  <2>4. DialogsHonest'
    BY <2>1, <2>2, <2>3 DEF DialogsHonest, Honest, RestTyped
  <2> QED BY <1>8, <2>2, <2>3, <2>4, UntouchedHonest DEF ReceiveCall
<1>9. ASSUME NEW u \in Users, ReceiveAccept(u) \/ ReceiveAcceptOk(u) PROVE Goal
  <2>1. PICK w \in Users, action \in {"accept", "accept-ok"} :
            Arrives(u, w, action) /\ PlaceCall(w, Head(link[u]))
    BY <1>9 DEF ReceiveAccept, ReceiveAcceptOk
  <2>2. Now /\ UNCHANGED <<agreed, dialog, playing, remote>>
    BY <1>9, <2>1 DEF ReceiveAccept, ReceiveAcceptOk, Arrives, Honesty
  <2>3. Honest(agreed, u, Head(link[u])) /\ Head(link[u]).to = w /\ LinksHonest'
    BY <2>1, <2>2, ArrivesHonest
  <2>4. Head(link[u]) \in Message /\ Head(link[u]).action = action
    BY <2>1, ArrivesTyped DEF RestTyped
  <2>5. CallsHonest'
    BY <2>1, <2>2, <2>3, <2>4, PlaceHonest
  <2> QED BY <2>2, <2>3, <2>5, UntouchedHonest
<1>10. ASSUME NEW c \in ringing, RingFails(c) PROVE Goal
  <2>1. Now /\ UNCHANGED <<agreed, playing>> /\ ringing' \subseteq ringing
    BY <1>10 DEF RingFails, Honesty
  <2>2. CallsHonest'
    BY <2>1 DEF CallsHonest, CallHonest, Both
  <2> QED BY <1>10, <2>1, <2>2, UntouchedHonest DEF RingFails
<1>11. ASSUME NEW c \in ringing, NEW x \in Users, Ring(c, x) PROVE Goal
  <2>1. Now /\ UNCHANGED agreed /\ ringing' \subseteq ringing /\ x = c.msg.from
    BY <1>11 DEF Ring, Honesty
  <2>2. playing' \subseteq playing \cup {[call |-> c, by |-> x, due |-> Tracks]}
    BY <1>11 DEF Ring
  <2>3. \A a \in playing' : CallHonest(a.call) /\ a.by = a.call.msg.from
    BY <2>1, <2>2 DEF CallsHonest
  <2>4. CallsHonest'
    BY <2>1, <2>3 DEF CallsHonest, CallHonest, Both
  <2> QED BY <1>11, <2>1, <2>4, UntouchedHonest DEF Ring
<1>12. ASSUME NEW a \in playing, StreamBegins(a) PROVE Goal
  <2> DEFINE m == Msg(a.call.msg.to, a.call.msg.from, "accept-ok")
  <2>1. Now /\ UNCHANGED <<agreed, dialog, ringing>>
    BY <1>12 DEF StreamBegins, Honesty
  <2>2. /\ a.call.page \in Users /\ a.call.msg \in Message
        /\ a.call.msg.to = a.call.page /\ a.by = a.call.msg.from /\ Both(a.call.page, a.by)
    BY <2>1 DEF CallsHonest, CallHonest, RestTyped, Answered, Call
  <2>3. LinksHonest'
    <3>1. CASE a.call.msg.action = "accept"
      <4>1. PICK lost \in BOOLEAN : SendMessage(a.call.page, m, lost)
        BY <1>12, <3>1 DEF StreamBegins
      <4>2. m \in Message
        BY <2>2, MsgTyped DEF Message
      <4>3. Honest(agreed', a.call.page, m)
        BY <2>1, <2>2 DEF Honest, Msg, Both
      <4> QED BY <2>1, <2>2, <4>1, <4>2, <4>3, SendHonest
    <3>2. CASE a.call.msg.action # "accept"
      BY <1>12, <2>1, <3>2, UntouchedHonest DEF StreamBegins
    <3> QED BY <3>1, <3>2
  <2>4. \A b \in playing' : b \in playing \/ (b.call = a.call /\ b.by = a.by)
    BY <1>12 DEF StreamBegins, RestTyped, Answered
  <2>5. CallsHonest'
    BY <2>1, <2>4 DEF CallsHonest, CallHonest, Both
  <2>6. remote' = [remote EXCEPT ![a.call.page] = a.by]
    BY <1>12 DEF StreamBegins
  <2>7. ShownHonest'
    BY <2>1, <2>2, <2>6 DEF ShownHonest, Both, RestTyped
  <2> QED BY <2>1, <2>3, <2>5, <2>7, UntouchedHonest
<1>13. CASE UNCHANGED vars
  BY <1>1, <1>13 DEF vars
<1> HIDE DEF Goal
<1> QED
  BY <1>2, <1>3, <1>4, <1>5, <1>6, <1>7, <1>8, <1>9, <1>10, <1>11, <1>12, <1>13 DEF Next

\* Nobody is shown to a page unless he and its user have called the other or accepted
\* his call, however the messages of all the pages interleave, as long as none reaches
\* a page that it is not for: sendMessage, the dialog and the two 'stream' callbacks
\* never mix up whom they are about.
THEOREM NobodyShownUnasked == Spec => []ShownIsAgreed
<1>1. Init => Honesty
  BY DEF Init, Honesty, LinksHonest, DialogsHonest, CallsHonest, ShownHonest
<1>2. (NetTyped /\ RestTyped /\ Honesty) /\ [Next]_vars => (NetTyped /\ RestTyped /\ Honesty)'
  BY TypeStep, HonestStep DEF Honesty
<1>3. NetTyped /\ RestTyped /\ Honesty => ShownIsAgreed
  BY DEF Honesty, ShownHonest, ShownIsAgreed, Both
<1> QED BY <1>1, <1>2, <1>3, TypeInit, PTL DEF Spec

-----------------------------------------------------------------------------
(* What goes astray.  While ids differ and everybody has to do with one    *)
(* other user only, localConn leads to the one all its messages are for.   *)

\* A connection is made for the user of its first message, and opens at his page.
Routed ==
    \A u \in Users : conn[u] # None =>
        /\ conn[u].to = conn[u].first.to
        /\ conn[u].page \in {None, conn[u].to}

\* The page that has the id of a user is his own.
LEMMA ReachesHim ==
  ASSUME DistinctIds, NEW u \in Users, NEW page \in Users, Reaches(u, page)
  PROVE  page = u
BY DEF DistinctIds, Reaches

\* sendMessage makes localConn for the user of the message.
LEMMA SendRouted ==
  ASSUME NetTyped, Routed, NEW u \in Users, NEW m, NEW lost, SendMessage(u, m, lost)
  PROVE  Routed'
<1>1. CASE conn' = conn
  BY <1>1 DEF Routed
<1>2. CASE \E st : conn' = [conn EXCEPT ![u] =
                                [st |-> st, to |-> m.to, first |-> m, page |-> None]]
  <2>1. /\ conn'[u].to = m.to /\ conn'[u].first = m /\ conn'[u].page = None
        /\ \A v \in Users \ {u} : conn'[v] = conn[v]
    BY <1>2 DEF NetTyped
  <2> QED BY <2>1 DEF Routed
<1> QED BY <1>1, <1>2 DEF SendMessage

(* Every step keeps the connections on their way.                          *)
LEMMA RoutedStep ==
  ASSUME DistinctIds, NetTyped, RestTyped, Routed, [Next]_vars
  PROVE  Routed'
<1>1. ASSUME UNCHANGED conn PROVE Routed'
  BY <1>1 DEF Routed
<1>2. ASSUME NEW u \in Users, NEW t \in Users, ClickCall(u, t) PROVE Routed'
  BY <1>2, SendRouted DEF ClickCall
<1>3. ASSUME NEW u \in Users, ClickAccept(u) PROVE Routed'
  BY <1>3, SendRouted DEF ClickAccept
<1>4. ASSUME NEW u \in Users, ConnOpens(u) PROVE Routed'
  <2>1. conn[u] \in Connection /\ conn[u].to \in Users
    BY <1>4 DEF ConnOpens, NetTyped, Connection
  <2>2. PICK w \in Users : /\ Reaches(conn[u].to, w)
                           /\ conn' = [conn EXCEPT ![u].st = "open", ![u].page = w]
    BY <1>4 DEF ConnOpens
  <2>3. w = conn[u].to
    BY <2>1, <2>2, ReachesHim
  <2>4. /\ conn[u] # None
        /\ conn'[u] = [conn[u] EXCEPT !.st = "open", !.page = w]
        /\ \A v \in Users \ {u} : conn'[v] = conn[v]
    BY <1>4, <2>2 DEF ConnOpens, NetTyped
  <2>5. conn'[u].to = conn[u].to /\ conn'[u].first = conn[u].first /\ conn'[u].page = w
    BY <2>1, <2>4 DEF Connection
  <2> QED BY <2>3, <2>4, <2>5 DEF Routed
<1>5. ASSUME NEW u \in Users, ConnCloses(u) PROVE Routed'
  <2>1. /\ conn[u] # None /\ conn[u] \in Connection
        /\ conn'[u] = [conn[u] EXCEPT !.st = "closed"]
        /\ \A v \in Users \ {u} : conn'[v] = conn[v]
    BY <1>5 DEF ConnCloses, NetTyped
  <2>2. /\ conn'[u].to = conn[u].to /\ conn'[u].first = conn[u].first
        /\ conn'[u].page = conn[u].page
    BY <2>1 DEF Connection
  <2> QED BY <2>1, <2>2 DEF Routed
<1>6. ASSUME NEW a \in playing, StreamBegins(a) PROVE Routed'
  <2>1. CASE a.call.msg.action # "accept"
    BY <1>1, <1>6, <2>1 DEF StreamBegins
  <2>2. CASE a.call.msg.action = "accept"
    <3>1. a.call.page \in Users
      BY DEF RestTyped, Answered, Call
    <3> QED BY <1>6, <2>2, <3>1, SendRouted DEF StreamBegins
  <2> QED BY <2>1, <2>2
<1>7. ASSUME \/ \E u \in Users : \/ Register(u) \/ ServerAnswers(u) \/ LoseServer(u)
                                 \/ GotStream(u) \/ ClickCancel(u) \/ ReceiveCall(u)
                                 \/ ReceiveAccept(u) \/ ReceiveAcceptOk(u)
             \/ \E c \in ringing : RingFails(c) \/ \E x \in Users : Ring(c, x)
             \/ UNCHANGED vars
      PROVE  Routed'
  BY <1>1, <1>7 DEF Register, ServerAnswers, LoseServer, GotStream, ClickCancel, ReceiveCall,
     ReceiveAccept, ReceiveAcceptOk, Arrives, RingFails, Ring, vars
<1> QED BY <1>2, <1>3, <1>4, <1>5, <1>6, <1>7 DEF Next

\* A message on a connection is for the one page it leads to.
LEMMA ArrivesStraight ==
  ASSUME DistinctIds, EachWithOne, NetTyped, LinksHonest, Routed, ~astray,
         NEW u \in Users, NEW w \in Users, NEW action, Arrives(u, w, action)
  PROVE  ~astray'
<1>1. /\ link[u] \in Seq(Message) /\ link[u] # <<>> /\ Head(link[u]) = link[u][1]
      /\ w = conn[u].page /\ astray' = (astray \/ Head(link[u]).to # w)
  BY DEF NetTyped, Arrives
<1>2. conn[u] # None /\ w # None
  BY <1>1, CallAssumption DEF NetTyped
<1>3. w = conn[u].first.to
  BY <1>1, <1>2 DEF Routed
<1>4. <<u, w>> \in agreed /\ <<u, Head(link[u]).to>> \in agreed
  <2>1. 1 \in DOMAIN link[u]
    BY <1>1
  <2>2. <<u, w>> \in agreed
    BY <1>2, <1>3 DEF LinksHonest, Honest
  <2>3. <<u, link[u][1].to>> \in agreed
    BY <2>1 DEF LinksHonest, Honest
  <2> QED BY <1>1, <2>2, <2>3
<1>5. Head(link[u]).to = w
  BY <1>4 DEF EachWithOne
<1> QED BY <1>1, <1>5

(* As long as everybody has to do with one other user, no step goes astray. *)
LEMMA StraightStep ==
  ASSUME DistinctIds, NetTyped, RestTyped, Honesty, Routed, EachWithOne => ~astray,
         [Next]_vars
  PROVE  EachWithOne' => ~astray'
<1>1. ASSUME agreed \subseteq agreed', UNCHANGED astray PROVE EachWithOne' => ~astray'
  BY <1>1 DEF EachWithOne
<1>2. ASSUME NEW u \in Users, ReceiveCall(u) \/ ReceiveAccept(u) \/ ReceiveAcceptOk(u)
      PROVE  EachWithOne' => ~astray'
  <2>1. UNCHANGED agreed /\ \E w \in Users : \E action : Arrives(u, w, action)
    BY <1>2 DEF ReceiveCall, ReceiveAccept, ReceiveAcceptOk
  <2>2. SUFFICES ASSUME EachWithOne PROVE ~astray'
    BY <2>1 DEF EachWithOne
  <2>3. ~astray /\ LinksHonest
    BY <2>2 DEF Honesty
  <2> QED BY <2>1, <2>2, <2>3, ArrivesStraight
<1>3. ASSUME NEW c \in ringing, NEW x \in Users, Ring(c, x) PROVE EachWithOne' => ~astray'
  <2>1. c.msg.from \in Users
    BY DEF RestTyped, Call, Message
  <2>2. x = c.msg.from
    BY <1>3, <2>1, ReachesHim DEF Ring
  <2> QED BY <1>1, <1>3, <2>2 DEF Ring
<1>4. ASSUME \/ \E u \in Users : \/ Register(u) \/ ServerAnswers(u) \/ LoseServer(u)
                                 \/ GotStream(u) \/ \E t \in Users : ClickCall(u, t)
                                 \/ ClickAccept(u) \/ ClickCancel(u)
                                 \/ ConnOpens(u) \/ ConnCloses(u)
             \/ \E c \in ringing : RingFails(c)
             \/ \E a \in playing : StreamBegins(a)
             \/ UNCHANGED vars
      PROVE  agreed \subseteq agreed' /\ UNCHANGED astray
  BY <1>4 DEF Register, ServerAnswers, LoseServer, GotStream, ClickCall, ClickAccept,
     ClickCancel, ConnOpens, ConnCloses, RingFails, StreamBegins, vars
<1> QED BY <1>1, <1>2, <1>3, <1>4 DEF Next

\* Only two names with one hash, or a user who has called or answered two people, make a
\* message or a stream go to the wrong user, for any number of users who call, accept,
\* cancel and are disconnected in any order. With NobodyShownUnasked: without these two,
\* nobody is ever shown unasked.
THEOREM AstrayIsExplained == Spec => []AstrayExplained
<1> DEFINE Straight == DistinctIds => Routed /\ (EachWithOne => ~astray)
<1>1. Init => Honesty /\ Straight
  BY DEF Init, Honesty, LinksHonest, DialogsHonest, CallsHonest, ShownHonest, Routed
<1>2. /\ NetTyped /\ RestTyped /\ Honesty /\ Straight
      /\ [Next]_vars
      => (NetTyped /\ RestTyped /\ Honesty /\ Straight)'
  <2> SUFFICES ASSUME NetTyped, RestTyped, Honesty, Straight, [Next]_vars
               PROVE  (NetTyped /\ RestTyped /\ Honesty /\ Straight)'
    OBVIOUS
  <2>1. NetTyped' /\ RestTyped'
    BY TypeStep
  <2>2. Honesty'
    BY HonestStep DEF Honesty
  <2>3. Straight'
    <3> SUFFICES ASSUME DistinctIds' PROVE Routed' /\ (EachWithOne' => ~astray')
      OBVIOUS
    <3>1. DistinctIds
      BY DEF DistinctIds, Named, PeerId
    <3>2. Routed /\ (EachWithOne => ~astray)
      BY <3>1
    <3> QED BY <3>1, <3>2, RoutedStep, StraightStep
  <2> QED BY <2>1, <2>2, <2>3
<1>3. Straight => AstrayExplained
  BY DEF AstrayExplained
<1> QED BY <1>1, <1>2, <1>3, TypeInit, PTL DEF Spec

-----------------------------------------------------------------------------
(* Media calls that are still to come.  A call that rings for an accepted   *)
(* invitation has all its 'stream' events before it, one that plays those   *)
(* that are due; each of them sends one "accept-ok", which waits for its    *)
(* connection or is on it, and makes one more call.                         *)

Accepted == {c \in ringing : c.msg.action = "accept"}

EventsDue == {t \in playing \X Nat : t[1].call.msg.action = "accept" /\ t[2] \in 1..t[1].due}

Waits(u) == conn[u] # None /\ conn[u].st = "opening" /\ conn[u].first.action = "accept-ok"
Unsent == {u \in Users : Waits(u)}

Replies == {t \in Users \X Nat :
                t[2] \in DOMAIN link[t[1]] /\ link[t[1]][t[2]].action = "accept-ok"}

AllFinite == /\ IsFiniteSet(Accepted) /\ IsFiniteSet(EventsDue)
             /\ IsFiniteSet(Unsent) /\ IsFiniteSet(Replies)

\* What has been placed and what is to come was paid for by the accepted invitations.
Owed ==
    /\ AllFinite
    /\ calls + Tracks * Cardinality(Accepted) + Cardinality(EventsDue)
             + Cardinality(Unsent) + Cardinality(Replies) <= accepts * (1 + Tracks)

\* A set that loses the elements of D and gains at most those of A.
LEMMA Trade ==
  ASSUME NEW S, IsFiniteSet(S), NEW D, D \subseteq S, NEW A, IsFiniteSet(A),
         NEW T, T \subseteq (S \ D) \cup A
  PROVE  /\ IsFiniteSet(T) /\ IsFiniteSet(D)
         /\ Cardinality(T) \in Nat /\ Cardinality(S) \in Nat
         /\ Cardinality(D) \in Nat /\ Cardinality(A) \in Nat
         /\ Cardinality(T) <= Cardinality(S) - Cardinality(D) + Cardinality(A)
<1>1. IsFiniteSet(D) /\ IsFiniteSet(S \ D) /\ S \cap D = D
      /\ Cardinality(S \ D) = Cardinality(S) - Cardinality(S \cap D)
  BY FS_Subset, FS_Difference
<1>2. /\ IsFiniteSet((S \ D) \cup A)
      /\ Cardinality((S \ D) \cup A) = Cardinality(S \ D) + Cardinality(A)
                                           - Cardinality((S \ D) \cap A)
  BY <1>1, FS_Union
<1>3. IsFiniteSet((S \ D) \cap A)
  BY <1>1, FS_Intersection
<1>4. IsFiniteSet(T) /\ Cardinality(T) <= Cardinality((S \ D) \cup A)
  BY <1>2, FS_Subset
<1>5. /\ Cardinality(T) \in Nat /\ Cardinality(S) \in Nat /\ Cardinality(S \ D) \in Nat
      /\ Cardinality(D) \in Nat /\ Cardinality(A) \in Nat
      /\ Cardinality((S \ D) \cap A) \in Nat
  BY <1>1, <1>3, <1>4, FS_CardinalityType
<1>6. Cardinality(S \ D) = Cardinality(S) - Cardinality(D)
  <2>1. Cardinality(S \cap D) = Cardinality(D)
    BY <1>1, Zenon
  <2> QED BY ONLY <1>1, <2>1
<1> DEFINE n == Cardinality((S \ D) \cup A)
           k == Cardinality((S \ D) \cap A)
<1>7. Cardinality(T) <= n /\ n = Cardinality(S \ D) + Cardinality(A) - k /\ k \in Nat
  BY <1>2, <1>4, <1>5
<1> HIDE DEF n, k
<1>8. Cardinality(T) <= Cardinality(S) - Cardinality(D) + Cardinality(A)
  BY ONLY <1>5, <1>6, <1>7
<1> QED BY ONLY <1>1, <1>4, <1>5, <1>8

\* A set that gains at most one element.
LEMMA OneMore ==
  ASSUME NEW S, IsFiniteSet(S), NEW x, NEW T, T \subseteq S \cup {x}
  PROVE  /\ IsFiniteSet(T) /\ Cardinality(T) \in Nat /\ Cardinality(S) \in Nat
         /\ Cardinality(T) <= Cardinality(S) + 1
         /\ T \subseteq S => Cardinality(T) <= Cardinality(S)
         /\ T \subseteq S /\ x \in S /\ x \notin T => Cardinality(T) <= Cardinality(S) - 1
<1>1. /\ IsFiniteSet({x}) /\ Cardinality({x}) = 1
      /\ IsFiniteSet({}) /\ Cardinality({}) = 0
  BY FS_Singleton, FS_EmptySet
<1>2. /\ IsFiniteSet(T) /\ Cardinality(T) \in Nat /\ Cardinality(S) \in Nat
      /\ Cardinality(T) <= Cardinality(S) + 1
  <2>1. {} \subseteq S /\ T \subseteq (S \ {}) \cup {x}
    OBVIOUS
  <2>2. /\ IsFiniteSet(T) /\ Cardinality(T) \in Nat /\ Cardinality(S) \in Nat
        /\ Cardinality(T) <= Cardinality(S) - Cardinality({}) + Cardinality({x})
    BY ONLY IsFiniteSet(S), <1>1, <2>1, Trade
  <2> QED BY ONLY <1>1, <2>2
<1>3. T \subseteq S => Cardinality(T) <= Cardinality(S)
  BY FS_Subset
<1>4. ASSUME T \subseteq S, x \in S, x \notin T PROVE Cardinality(T) <= Cardinality(S) - 1
  <2>1. {x} \subseteq S /\ T \subseteq (S \ {x}) \cup {}
    BY <1>4
  <2>2. Cardinality(T) <= Cardinality(S) - Cardinality({x}) + Cardinality({})
    BY <1>1, <2>1, Trade
  <2> QED BY <1>1, <1>2, <2>2
<1> QED BY <1>2, <1>3, <1>4

\* sendMessage makes at most one reply wait or go out, and only with an "accept-ok".
LEMMA SendOwed ==
  ASSUME NetTyped, IsFiniteSet(Unsent), IsFiniteSet(Replies),
         NEW u \in Users, NEW m \in Message, NEW lost, SendMessage(u, m, lost)
  PROVE  /\ IsFiniteSet(Unsent') /\ IsFiniteSet(Replies')
         /\ Cardinality(Unsent') + Cardinality(Replies')
               <= Cardinality(Unsent) + Cardinality(Replies) + 1
         /\ m.action # "accept-ok" => Cardinality(Unsent') + Cardinality(Replies')
                                          <= Cardinality(Unsent) + Cardinality(Replies)
<1>1. \/ /\ conn[u] = None /\ link' = link
         /\ \E st \in {"opening", "closed"} :
                conn' = [conn EXCEPT ![u] = [st |-> st, to |-> m.to, first |-> m, page |-> None]]
      \/ conn' = conn /\ link' = link
      \/ conn' = conn /\ link' = [link EXCEPT ![u] = Append(@, m)]
  BY DEF SendMessage
<1>2. CASE conn' = conn /\ link' = link
  <2>1. Unsent' = Unsent /\ Replies' = Replies
    BY <1>2 DEF Unsent, Replies, Waits
  <2> QED BY <2>1, FS_CardinalityType
<1>3. ASSUME NEW st, conn' = [conn EXCEPT ![u] = [st |-> st, to |-> m.to, first |-> m, page |-> None]],
             link' = link, conn[u] = None
      PROVE  /\ IsFiniteSet(Unsent') /\ Replies' = Replies
             /\ Unsent' \subseteq Unsent \cup {u}
             /\ m.action # "accept-ok" => Unsent' \subseteq Unsent
  <2>1. Replies' = Replies
    BY <1>3 DEF Replies
  <2>2. \A v \in Users \ {u} : conn'[v] = conn[v]
    BY <1>3 DEF NetTyped
  <2>3. conn'[u].first = m
    BY <1>3 DEF NetTyped
  <2>4. \A v \in Users : Waits(v)' => (v # u /\ Waits(v)) \/ (v = u /\ m.action = "accept-ok")
    BY <2>2, <2>3 DEF Waits
  <2>5. Unsent' = {v \in Users : Waits(v)'}
    BY DEF Unsent
  <2>6. Unsent' \subseteq Unsent \cup {u} /\ (m.action # "accept-ok" => Unsent' \subseteq Unsent)
    BY <2>4, <2>5 DEF Unsent
  <2> QED BY <2>1, <2>6, OneMore
<1>4. CASE conn' = conn /\ link' = [link EXCEPT ![u] = Append(@, m)]
  <2>1. Unsent' = Unsent
    BY <1>4 DEF Unsent, Waits
  <2>2. /\ link[u] \in Seq(Message) /\ link'[u] = Append(link[u], m)
        /\ \A v \in Users \ {u} : link'[v] = link[v]
    BY <1>4 DEF NetTyped
  <2>3. \A i \in DOMAIN link'[u] :
            \/ i = Len(link[u]) + 1 /\ link'[u][i] = m
            \/ i \in DOMAIN link[u] /\ link'[u][i] = link[u][i]
    BY <2>2
  <2>4. /\ Replies' \subseteq Replies \cup {<<u, Len(link[u]) + 1>>}
        /\ m.action # "accept-ok" => Replies' \subseteq Replies
    <3>1. ASSUME NEW t \in Replies'
          PROVE  t \in Replies \/ (t = <<u, Len(link[u]) + 1>> /\ m.action = "accept-ok")
      <4>1. /\ t \in Users \X Nat /\ t = <<t[1], t[2]>>
            /\ t[2] \in DOMAIN link'[t[1]] /\ link'[t[1]][t[2]].action = "accept-ok"
        BY <3>1 DEF Replies
      <4>2. CASE t[1] = u
        BY <2>3, <4>1, <4>2 DEF Replies
      <4>3. CASE t[1] # u
        BY <2>2, <4>1, <4>3 DEF Replies
      <4> QED BY <4>2, <4>3
    <3> QED BY <3>1
  <2>5. /\ IsFiniteSet(Replies') /\ Cardinality(Replies') \in Nat /\ Cardinality(Replies) \in Nat
        /\ Cardinality(Replies') <= Cardinality(Replies) + 1
        /\ m.action # "accept-ok" => Cardinality(Replies') <= Cardinality(Replies)
    BY <2>4, OneMore
  <2> QED BY <2>1, <2>5, FS_CardinalityType
<1>5. CASE /\ conn[u] = None /\ link' = link
           /\ \E st \in {"opening", "closed"} :
                conn' = [conn EXCEPT ![u] = [st |-> st, to |-> m.to, first |-> m, page |-> None]]
  <2>1. /\ IsFiniteSet(Unsent') /\ Replies' = Replies
        /\ Unsent' \subseteq Unsent \cup {u}
        /\ m.action # "accept-ok" => Unsent' \subseteq Unsent
    BY <1>3, <1>5
  <2>2. /\ Cardinality(Unsent') \in Nat /\ Cardinality(Unsent) \in Nat
        /\ Cardinality(Unsent') <= Cardinality(Unsent) + 1
        /\ m.action # "accept-ok" => Cardinality(Unsent') <= Cardinality(Unsent)
    BY <2>1, OneMore
  <2> QED BY <2>1, <2>2, FS_CardinalityType
<1> QED BY <1>1, <1>2, <1>4, <1>5

\* A message that arrives leaves its connection, and an "accept-ok" is one reply less.
LEMMA ArrivesOwed ==
  ASSUME NetTyped, IsFiniteSet(Replies),
         NEW u \in Users, NEW w, NEW action, Arrives(u, w, action)
  PROVE  /\ Unsent' = Unsent /\ IsFiniteSet(Replies')
         /\ Cardinality(Replies') <= Cardinality(Replies)
         /\ action = "accept-ok" => Cardinality(Replies') <= Cardinality(Replies) - 1
<1>1. conn' = conn /\ link[u] # <<>> /\ Head(link[u]).action = action
  BY DEF Arrives
<1>2. /\ link[u] \in Seq(Message) /\ link'[u] = Tail(link[u])
      /\ \A v \in Users \ {u} : link'[v] = link[v]
  BY DEF Arrives, NetTyped
<1>3. Unsent' = Unsent
  BY <1>1 DEF Unsent, Waits
<1>4. \A i \in DOMAIN link'[u] :
          i \in Nat /\ i + 1 \in DOMAIN link[u] /\ link'[u][i] = link[u][i + 1] /\ i + 1 # 1
  BY <1>1, <1>2
<1>5. PICK left : left = IF action = "accept-ok" THEN Replies \ {<<u, 1>>} ELSE Replies
  OBVIOUS
<1> DEFINE Ahead(t) == IF t[1] = u THEN <<u, t[2] + 1>> ELSE t
<1>6. ASSUME NEW t \in Replies' PROVE Ahead(t) \in left
  <2>1. /\ t[1] \in Users /\ t[2] \in Nat /\ t = <<t[1], t[2]>>
        /\ t[2] \in DOMAIN link'[t[1]] /\ link'[t[1]][t[2]].action = "accept-ok"
    BY <1>6 DEF Replies
  <2>2. CASE t[1] = u
    <3>1. /\ t[2] + 1 \in DOMAIN link[u] /\ link[u][t[2] + 1].action = "accept-ok"
          /\ t[2] + 1 \in Nat /\ t[2] + 1 # 1
      BY <1>4, <2>1, <2>2
    <3> QED BY <1>5, <2>2, <3>1 DEF Replies
  <2>3. CASE t[1] # u
    <3>1. t \in Replies /\ t # <<u, 1>>
      BY <1>2, <2>1, <2>3 DEF Replies
    <3> QED BY <1>5, <2>3, <3>1
  <2> QED BY <2>2, <2>3
<1>7. ASSUME NEW s \in Replies', NEW t \in Replies', Ahead(s) = Ahead(t) PROVE s = t
  <2>1. /\ s = <<s[1], s[2]>> /\ t = <<t[1], t[2]>> /\ s[2] \in Nat /\ t[2] \in Nat
    BY <1>7 DEF Replies
  <2> QED BY <1>7, <2>1
<1>8. PICK f : f = [t \in Replies' |-> Ahead(t)]
  OBVIOUS
<1> HIDE DEF Ahead
<1>9. f \in Injection(Replies', left)
  BY <1>6, <1>7, <1>8 DEF Injection, IsInjective
<1>10. IsFiniteSet(left) /\ Cardinality(left) <= Cardinality(Replies)
       /\ (action = "accept-ok" => Cardinality(left) <= Cardinality(Replies) - 1)
  <2>1. CASE action = "accept-ok"
    <3>1. 1 \in DOMAIN link[u] /\ link[u][1].action = "accept-ok"
      BY <1>1, <1>2, <2>1
    <3>2. <<u, 1>> \in Replies
      BY <3>1 DEF Replies
    <3>3. left = Replies \ {<<u, 1>>}
      BY <1>5, <2>1
    <3>4. /\ IsFiniteSet(left) /\ Cardinality(left) = Cardinality(Replies) - 1
          /\ Cardinality(Replies) \in Nat
      BY <3>2, <3>3, FS_RemoveElement, FS_CardinalityType
    <3> QED BY <3>4
  <2>2. CASE action # "accept-ok"
    BY <1>5, <2>2, FS_CardinalityType
  <2> QED BY <2>1, <2>2
<1>11. IsFiniteSet(Replies') /\ Cardinality(Replies') <= Cardinality(left)
  BY <1>9, <1>10, FS_Injection
<1>12. /\ Cardinality(Replies') \in Nat /\ Cardinality(left) \in Nat
       /\ Cardinality(Replies) \in Nat
  BY <1>10, <1>11, FS_CardinalityType
<1> QED BY ONLY <1>3, <1>10, <1>11, <1>12

\* A connection that opens sends what waited for it.
LEMMA OpensOwed ==
  ASSUME NetTyped, IsFiniteSet(Unsent), IsFiniteSet(Replies), NEW u \in Users, ConnOpens(u)
  PROVE  /\ IsFiniteSet(Unsent') /\ IsFiniteSet(Replies')
         /\ Cardinality(Unsent') + Cardinality(Replies')
               <= Cardinality(Unsent) + Cardinality(Replies)
<1>1. conn[u] # None /\ conn[u].st = "opening" /\ conn[u] \in Connection
  BY DEF ConnOpens, NetTyped
<1>2. PICK w : conn' = [conn EXCEPT ![u].st = "open", ![u].page = w]
  BY DEF ConnOpens
<1>3. conn'[u].st = "open" /\ \A v \in Users \ {u} : conn'[v] = conn[v]
  BY <1>1, <1>2 DEF NetTyped, Connection
<1>4. /\ link[u] \in Seq(Message) /\ conn[u].first \in Message
      /\ link'[u] = Append(link[u], conn[u].first)
      /\ \A v \in Users \ {u} : link'[v] = link[v]
  BY <1>1 DEF ConnOpens, NetTyped, Connection
<1>5. \A v \in Users : Waits(v)' => v # u /\ Waits(v)
  BY <1>3 DEF Waits
<1>6. Unsent' \subseteq Unsent /\ u \notin Unsent'
  <2>1. Unsent' = {v \in Users : Waits(v)'}
    BY DEF Unsent
  <2> QED BY <1>5, <2>1 DEF Unsent
<1>7. conn[u].first.action = "accept-ok" => u \in Unsent
  BY <1>1 DEF Unsent, Waits
<1>8. \A i \in DOMAIN link'[u] :
          \/ i = Len(link[u]) + 1 /\ link'[u][i] = conn[u].first
          \/ i \in DOMAIN link[u] /\ link'[u][i] = link[u][i]
  BY <1>4
<1>9. ASSUME NEW t \in Replies'
      PROVE  \/ t \in Replies
             \/ t = <<u, Len(link[u]) + 1>> /\ conn[u].first.action = "accept-ok"
  <2>1. /\ t \in Users \X Nat /\ t = <<t[1], t[2]>>
        /\ t[2] \in DOMAIN link'[t[1]] /\ link'[t[1]][t[2]].action = "accept-ok"
    BY <1>9 DEF Replies
  <2>2. CASE t[1] = u
    BY <1>8, <2>1, <2>2 DEF Replies
  <2>3. CASE t[1] # u
    BY <1>4, <2>1, <2>3 DEF Replies
  <2> QED BY <2>2, <2>3
<1>10. /\ Replies' \subseteq Replies \cup {<<u, Len(link[u]) + 1>>}
       /\ conn[u].first.action # "accept-ok" => Replies' \subseteq Replies
  BY <1>9
<1>11. /\ IsFiniteSet(Replies') /\ Cardinality(Replies') \in Nat /\ Cardinality(Replies) \in Nat
       /\ Cardinality(Replies') <= Cardinality(Replies) + 1
       /\ conn[u].first.action # "accept-ok" => Cardinality(Replies') <= Cardinality(Replies)
  BY <1>10, OneMore
<1>12. /\ IsFiniteSet(Unsent') /\ Cardinality(Unsent') \in Nat /\ Cardinality(Unsent) \in Nat
       /\ Cardinality(Unsent') <= Cardinality(Unsent)
       /\ conn[u].first.action = "accept-ok" => Cardinality(Unsent') <= Cardinality(Unsent) - 1
  <2>1. Unsent' \subseteq Unsent \cup {u}
    BY <1>6
  <2> QED BY <1>6, <1>7, <2>1, OneMore
<1> QED BY <1>11, <1>12

\* A media call that is placed is one more; only the first of a handshake will be answered.
LEMMA PlaceOwed ==
  ASSUME RestTyped, IsFiniteSet(Accepted), NEW w \in Users, NEW m \in Message, PlaceCall(w, m)
  PROVE  /\ IsFiniteSet(Accepted') /\ calls' \in Nat /\ calls' <= calls + 1
         /\ Cardinality(Accepted') <= Cardinality(Accepted) + 1
         /\ m.action # "accept" => Cardinality(Accepted') <= Cardinality(Accepted)
<1>1. PICK call : /\ ringing' \subseteq ringing \cup {call} /\ call.msg = m
                  /\ calls' \in {calls, calls + 1}
  <2>1. CASE peer[w] = "open" /\ stream[w]
    <3>1. PICK n \in 0..calls : ringing' = ringing \cup {[page |-> w, msg |-> m, n |-> n]}
      BY <2>1 DEF PlaceCall
    <3>2. [page |-> w, msg |-> m, n |-> n].msg = m /\ calls' = calls + 1
      BY <2>1 DEF PlaceCall
    <3> QED BY <3>1, <3>2
  <2>2. CASE ~(peer[w] = "open" /\ stream[w])
    <3>1. ringing' = ringing /\ calls' = calls
      BY <2>2 DEF PlaceCall
    <3>2. [msg |-> m].msg = m
      OBVIOUS
    <3> QED BY <3>1, <3>2
  <2> QED BY <2>1, <2>2
<1>2. /\ Accepted' \subseteq Accepted \cup {call}
      /\ m.action # "accept" => Accepted' \subseteq Accepted
  BY <1>1 DEF Accepted
<1>3. calls' \in Nat /\ calls' <= calls + 1
  BY <1>1 DEF RestTyped
<1> QED BY <1>2, <1>3, OneMore

\* The events of a call: as many as are due.
LEMMA EventsCount ==
  ASSUME NEW a, NEW k \in Nat
  PROVE  IsFiniteSet({a} \X (1..k)) /\ Cardinality({a} \X (1..k)) = k
<1>1. IsFiniteSet(1..k) /\ Cardinality(1..k) = k
  BY FS_Interval
<1>2. IsFiniteSet({a}) /\ Cardinality({a}) = 1
  BY FS_Singleton
<1>3. /\ IsFiniteSet({a} \X (1..k))
      /\ Cardinality({a} \X (1..k)) = Cardinality({a}) * Cardinality(1..k)
  BY <1>1, <1>2, FS_Product
<1> QED BY <1>1, <1>2, <1>3

\* A call that is answered exchanges itself for its events.
LEMMA RingOwed ==
  ASSUME RestTyped, IsFiniteSet(Accepted), IsFiniteSet(EventsDue),
         NEW c \in ringing, NEW x \in Users, Ring(c, x)
  PROVE  /\ IsFiniteSet(Accepted') /\ IsFiniteSet(EventsDue')
         /\ \/ /\ Cardinality(Accepted') <= Cardinality(Accepted)
               /\ Cardinality(EventsDue') <= Cardinality(EventsDue)
            \/ /\ Cardinality(Accepted') <= Cardinality(Accepted) - 1
               /\ Cardinality(EventsDue') <= Cardinality(EventsDue) + Tracks
<1>1. PICK a : a = [call |-> c, by |-> x, due |-> Tracks]
  OBVIOUS
<1>2. /\ ringing' = ringing \ {c} /\ playing' \subseteq playing \cup {a}
      /\ a.call = c /\ a.due = Tracks /\ Tracks \in Nat
  BY <1>1, CallAssumption DEF Ring
<1>3. Accepted' = Accepted \ {c}
  BY <1>2 DEF Accepted
<1>4. IsFiniteSet(Accepted') /\ Cardinality(Accepted') <= Cardinality(Accepted)
  BY <1>3, FS_Subset
<1>5. CASE c.msg.action = "accept"
  <2>1. c \in Accepted /\ c \notin Accepted' /\ Accepted' \subseteq Accepted
        /\ Accepted' \subseteq Accepted \cup {c}
    BY <1>3, <1>5 DEF Accepted
  <2>2. Cardinality(Accepted') <= Cardinality(Accepted) - 1
    BY <2>1, OneMore
  <2>3. EventsDue' \subseteq (EventsDue \ {}) \cup ({a} \X (1..Tracks))
    BY <1>2 DEF EventsDue
  <2>4. IsFiniteSet({a} \X (1..Tracks)) /\ Cardinality({a} \X (1..Tracks)) = Tracks
    BY <1>2, EventsCount
  <2>5. /\ IsFiniteSet(EventsDue') /\ Cardinality(EventsDue') \in Nat
        /\ Cardinality(EventsDue) \in Nat
        /\ Cardinality(EventsDue') <= Cardinality(EventsDue) - Cardinality({})
                                          + Cardinality({a} \X (1..Tracks))
    <3>1. {} \subseteq EventsDue
      OBVIOUS
    <3> QED BY ONLY IsFiniteSet(EventsDue), <2>3, <2>4, <3>1, Trade
  <2> QED BY <1>2, <1>4, <2>2, <2>4, <2>5, FS_EmptySet
<1>6. CASE c.msg.action # "accept"
  <2>1. EventsDue' \subseteq EventsDue
    BY <1>2, <1>6 DEF EventsDue
  <2> QED BY <1>4, <2>1, FS_Subset
<1> QED BY <1>5, <1>6

\* A 'stream' event of a first call pays for the reply that it makes.
LEMMA StreamOwed ==
  ASSUME NetTyped, RestTyped, AllFinite, NEW a \in playing, StreamBegins(a)
  PROVE  /\ IsFiniteSet(EventsDue') /\ IsFiniteSet(Unsent') /\ IsFiniteSet(Replies')
         /\ Cardinality(EventsDue') + Cardinality(Unsent') + Cardinality(Replies')
               <= Cardinality(EventsDue) + Cardinality(Unsent) + Cardinality(Replies)
<1>1. /\ a \in Answered /\ a.due \in Nat \ {0} /\ a.call.page \in Users
      /\ a.call.msg \in Message /\ a.call.msg.to \in Users /\ a.call.msg.from \in Users
  BY DEF RestTyped, Answered, Call, Message
<1>2. PICK b : b = [a EXCEPT !.due = @ - 1]
  OBVIOUS
<1>3. /\ playing' \subseteq (playing \ {a}) \cup {b}
      /\ b.call = a.call /\ b.due = a.due - 1
  BY <1>1, <1>2 DEF StreamBegins, Answered
<1>4. CASE a.call.msg.action = "accept"
  <2>1. PICK lost : SendMessage(a.call.page, Msg(a.call.msg.to, a.call.msg.from, "accept-ok"), lost)
    BY <1>4 DEF StreamBegins
  <2>2. Msg(a.call.msg.to, a.call.msg.from, "accept-ok") \in Message
    BY <1>1, MsgTyped
  <2>3. /\ IsFiniteSet(Unsent') /\ IsFiniteSet(Replies')
        /\ Cardinality(Unsent') + Cardinality(Replies')
               <= Cardinality(Unsent) + Cardinality(Replies) + 1
    BY <1>1, <2>1, <2>2, SendOwed DEF AllFinite
  <2>4. PICK k \in Nat : k = a.due - 1 /\ a.due \in Nat /\ a.due = k + 1
    BY <1>1
  <2>5. {a} \X (1..a.due) \subseteq EventsDue
    <3>1. ASSUME NEW i \in 1..a.due PROVE <<a, i>> \in EventsDue
      <4>1. i \in Nat /\ <<a, i>> \in playing \X Nat
        BY <2>4
      <4> QED BY <1>4, <4>1 DEF EventsDue
    <3>2. \A t \in {a} \X (1..a.due) : \E i \in 1..a.due : t = <<a, i>>
      OBVIOUS
    <3> QED BY <3>1, <3>2
  <2>6. EventsDue' \subseteq (EventsDue \ ({a} \X (1..a.due))) \cup ({b} \X (1..k))
    BY <1>3, <2>4 DEF EventsDue
  <2>7. /\ IsFiniteSet({b} \X (1..k)) /\ Cardinality({b} \X (1..k)) = k
        /\ Cardinality({a} \X (1..a.due)) = a.due
    BY <2>4, EventsCount
  <2>8. /\ IsFiniteSet(EventsDue') /\ Cardinality(EventsDue') \in Nat
        /\ Cardinality(EventsDue) \in Nat
        /\ Cardinality(EventsDue') <= Cardinality(EventsDue) - Cardinality({a} \X (1..a.due))
                                          + Cardinality({b} \X (1..k))
    <3>1. IsFiniteSet(EventsDue)
      BY DEF AllFinite
    <3> QED BY ONLY <2>5, <2>6, <2>7, <3>1, Trade
  <2>9. Cardinality(EventsDue') <= Cardinality(EventsDue) - 1
    BY ONLY <2>4, <2>7, <2>8
  <2>10. /\ Cardinality(Unsent') \in Nat /\ Cardinality(Replies') \in Nat
         /\ Cardinality(Unsent) \in Nat /\ Cardinality(Replies) \in Nat
    BY <2>3, FS_CardinalityType DEF AllFinite
  <2> QED BY ONLY <2>3, <2>8, <2>9, <2>10
<1>5. CASE a.call.msg.action # "accept"
  <2>1. UNCHANGED netVars
    BY <1>5 DEF StreamBegins
  <2>2. Unsent' = Unsent /\ Replies' = Replies
    BY <2>1 DEF Unsent, Replies, Waits
  <2>3. EventsDue' \subseteq EventsDue
    BY <1>3, <1>5 DEF EventsDue
  <2>4. IsFiniteSet(EventsDue') /\ Cardinality(EventsDue') <= Cardinality(EventsDue)
    BY <2>3, FS_Subset DEF AllFinite
  <2>5. /\ Cardinality(EventsDue') \in Nat /\ Cardinality(EventsDue) \in Nat
        /\ Cardinality(Unsent) \in Nat /\ Cardinality(Replies) \in Nat
    BY <2>4, FS_CardinalityType DEF AllFinite
  <2> QED BY <2>2, <2>4, <2>5 DEF AllFinite
<1> QED BY <1>4, <1>5

\* The parts of what is owed are numbers.
LEMMA PartsTyped ==
  ASSUME RestTyped, AllFinite
  PROVE  /\ Tracks \in Nat /\ calls \in Nat /\ accepts \in Nat
         /\ Cardinality(Accepted) \in Nat /\ Cardinality(EventsDue) \in Nat
         /\ Cardinality(Unsent) \in Nat /\ Cardinality(Replies) \in Nat
BY FS_CardinalityType, CallAssumption DEF RestTyped, AllFinite

\* A step that exchanges parts for one another owes no more than before.
LEMMA Balance ==
  ASSUME NEW t \in Nat,
         NEW n0 \in Nat, NEW a0 \in Nat, NEW e0 \in Nat, NEW r0 \in Nat, NEW p0 \in Nat,
         NEW n1 \in Nat, NEW a1 \in Nat, NEW e1 \in Nat, NEW r1 \in Nat, NEW p1 \in Nat,
         n0 + t * a0 + e0 + r0 <= p0 * (1 + t),
         \/ a1 <= a0 /\ p1 = p0 /\ n1 + e1 + r1 <= n0 + e0 + r0
         \/ a1 <= a0 - 1 /\ p1 = p0 /\ n1 + e1 + r1 <= n0 + e0 + r0 + t
         \/ a1 <= a0 + 1 /\ p1 = p0 + 1 /\ n1 + e1 + r1 <= n0 + e0 + r0 + 1
  PROVE  n1 + t * a1 + e1 + r1 <= p1 * (1 + t)
<1>1. ASSUME NEW x \in Nat, NEW y \in Nat, x <= y PROVE t * x <= t * y
  BY <1>1
<1>2. t * (a0 + 1) = t * a0 + t /\ (p0 + 1) * (1 + t) = p0 * (1 + t) + 1 + t
  OBVIOUS
<1>3. a1 <= a0 - 1 => t * a1 <= t * a0 - t
  <2>1. ASSUME a1 + 1 <= a0 PROVE t * (a1 + 1) <= t * a0
    BY <1>1, <2>1
  <2>2. t * (a1 + 1) = t * a1 + t
    OBVIOUS
  <2> QED BY <2>1, <2>2
<1>4. a1 <= a0 => t * a1 <= t * a0
  BY <1>1
<1>5. a1 <= a0 + 1 => t * a1 <= t * (a0 + 1)
  BY <1>1
<1>6. PICK x0 \in Nat, x1 \in Nat, y0 \in Nat, y1 \in Nat :
          x0 = t * a0 /\ x1 = t * a1 /\ y0 = p0 * (1 + t) /\ y1 = p1 * (1 + t)
  OBVIOUS
<1>7. /\ a1 <= a0 => x1 <= x0
      /\ a1 <= a0 - 1 => x1 <= x0 - t
      /\ a1 <= a0 + 1 => x1 <= x0 + t
      /\ p1 = p0 => y1 = y0
      /\ p1 = p0 + 1 => y1 = y0 + 1 + t
      /\ n0 + x0 + e0 + r0 <= y0
  BY <1>2, <1>3, <1>4, <1>5, <1>6
<1>8. n1 + x1 + e1 + r1 <= y1
  BY ONLY <1>7, t \in Nat, x0 \in Nat, x1 \in Nat, y0 \in Nat, y1 \in Nat,
          n0 \in Nat, e0 \in Nat, r0 \in Nat, n1 \in Nat, e1 \in Nat, r1 \in Nat,
          a0 \in Nat, a1 \in Nat, p0 \in Nat, p1 \in Nat,
          \/ a1 <= a0 /\ p1 = p0 /\ n1 + e1 + r1 <= n0 + e0 + r0
          \/ a1 <= a0 - 1 /\ p1 = p0 /\ n1 + e1 + r1 <= n0 + e0 + r0 + t
          \/ a1 <= a0 + 1 /\ p1 = p0 + 1 /\ n1 + e1 + r1 <= n0 + e0 + r0 + 1
<1> QED BY ONLY <1>6, <1>8

\* The same, of the parts.
LEMMA OwedKept ==
  ASSUME Owed, RestTyped, RestTyped', AllFinite',
         LET Rest == calls + Cardinality(EventsDue) + (Cardinality(Unsent) + Cardinality(Replies))
         IN  \/ /\ Cardinality(Accepted') <= Cardinality(Accepted) /\ accepts' = accepts
                /\ Rest' <= Rest
             \/ /\ Cardinality(Accepted') <= Cardinality(Accepted) - 1 /\ accepts' = accepts
                /\ Rest' <= Rest + Tracks
             \/ /\ Cardinality(Accepted') <= Cardinality(Accepted) + 1 /\ accepts' = accepts + 1
                /\ Rest' <= Rest + 1
  PROVE  Owed'
<1>1. AllFinite /\ calls + Tracks * Cardinality(Accepted) + Cardinality(EventsDue)
             + Cardinality(Unsent) + Cardinality(Replies) <= accepts * (1 + Tracks)
  BY DEF Owed
<1>2. /\ Tracks \in Nat /\ calls \in Nat /\ accepts \in Nat
      /\ Cardinality(Accepted) \in Nat /\ Cardinality(EventsDue) \in Nat
      /\ Cardinality(Unsent) \in Nat /\ Cardinality(Replies) \in Nat
  BY <1>1, PartsTyped
<1>3. /\ calls' \in Nat /\ accepts' \in Nat
      /\ Cardinality(Accepted') \in Nat /\ Cardinality(EventsDue') \in Nat
      /\ Cardinality(Unsent') \in Nat /\ Cardinality(Replies') \in Nat
  BY FS_CardinalityType DEF RestTyped, AllFinite
<1>4. PICK n0 \in Nat, a0 \in Nat, e0 \in Nat, u0 \in Nat, r0 \in Nat, p0 \in Nat :
          /\ n0 = calls /\ a0 = Cardinality(Accepted) /\ e0 = Cardinality(EventsDue)
          /\ u0 = Cardinality(Unsent) /\ r0 = Cardinality(Replies) /\ p0 = accepts
  BY ONLY <1>2
<1>5. PICK n1 \in Nat, a1 \in Nat, e1 \in Nat, u1 \in Nat, r1 \in Nat, p1 \in Nat :
          /\ n1 = calls' /\ a1 = Cardinality(Accepted') /\ e1 = Cardinality(EventsDue')
          /\ u1 = Cardinality(Unsent') /\ r1 = Cardinality(Replies') /\ p1 = accepts'
  BY ONLY <1>3
<1>6. /\ n0 + Tracks * a0 + e0 + (u0 + r0) <= p0 * (1 + Tracks)
      /\ \/ a1 <= a0 /\ p1 = p0 /\ n1 + e1 + (u1 + r1) <= n0 + e0 + (u0 + r0)
         \/ a1 <= a0 - 1 /\ p1 = p0 /\ n1 + e1 + (u1 + r1) <= n0 + e0 + (u0 + r0) + Tracks
         \/ a1 <= a0 + 1 /\ p1 = p0 + 1 /\ n1 + e1 + (u1 + r1) <= n0 + e0 + (u0 + r0) + 1
  BY <1>1, <1>2, <1>4, <1>5
<1>7. u0 + r0 \in Nat /\ u1 + r1 \in Nat
  OBVIOUS
<1>8. n1 + Tracks * a1 + e1 + (u1 + r1) <= p1 * (1 + Tracks)
  BY <1>2, <1>6, <1>7, Balance
<1>9. n1 + Tracks * a1 + e1 + u1 + r1 <= p1 * (1 + Tracks)
  BY <1>2, <1>8
<1> QED BY <1>5, <1>9 DEF Owed

\* Every step is paid for.
LEMMA OwedStep ==
  ASSUME NetTyped, RestTyped, RestTyped', Owed, [Next]_vars
  PROVE  Owed'
<1> USE DEF AllFinite
<1>1. /\ IsFiniteSet(Accepted) /\ IsFiniteSet(EventsDue)
      /\ IsFiniteSet(Unsent) /\ IsFiniteSet(Replies)
  BY DEF Owed
<1>2. /\ Tracks \in Nat /\ calls \in Nat /\ accepts \in Nat
      /\ Cardinality(Accepted) \in Nat /\ Cardinality(EventsDue) \in Nat
      /\ Cardinality(Unsent) \in Nat /\ Cardinality(Replies) \in Nat
  BY <1>1, PartsTyped
<1>3. UNCHANGED ringing => Accepted' = Accepted
  BY DEF Accepted
<1>4. UNCHANGED playing => EventsDue' = EventsDue
  BY DEF EventsDue
<1>5. UNCHANGED netVars => Unsent' = Unsent /\ Replies' = Replies
  BY DEF Unsent, Replies, Waits
<1>6. ASSUME UNCHANGED <<netVars, ringing, playing, accepts, calls>> PROVE Owed'
  BY <1>1, <1>2, <1>3, <1>4, <1>5, <1>6, OwedKept
<1>7. ASSUME NEW u \in Users, NEW m \in Message, NEW lost, SendMessage(u, m, lost),
             m.action # "accept-ok", UNCHANGED <<ringing, playing, accepts, calls>>
      PROVE  Owed'
  <2>1. /\ IsFiniteSet(Unsent') /\ IsFiniteSet(Replies')
        /\ Cardinality(Unsent') + Cardinality(Replies')
               <= Cardinality(Unsent) + Cardinality(Replies)
    BY <1>1, <1>7, SendOwed
  <2>2. Accepted' = Accepted /\ EventsDue' = EventsDue
    BY <1>3, <1>4, <1>7
  <2>3. Cardinality(Unsent') \in Nat /\ Cardinality(Replies') \in Nat
    BY <2>1, FS_CardinalityType
  <2> QED BY <1>1, <1>2, <1>7, <2>1, <2>2, <2>3, OwedKept
<1>8. ASSUME NEW u \in Users,
             \/ Register(u) \/ ServerAnswers(u) \/ LoseServer(u) \/ GotStream(u) \/ ClickCancel(u)
      PROVE  Owed'
  BY <1>6, <1>8 DEF Register, ServerAnswers, LoseServer, GotStream, ClickCancel
<1>9. ASSUME NEW u \in Users, NEW t \in Users, ClickCall(u, t) PROVE Owed'
  <2>1. PICK lost : SendMessage(u, Msg(u, t, "call"), lost)
    BY <1>9 DEF ClickCall
  <2>2. Msg(u, t, "call") \in Message /\ Msg(u, t, "call").action = "call"
    BY MsgTyped DEF Msg
  <2> QED BY <1>7, <1>9, <2>1, <2>2 DEF ClickCall
<1>10. ASSUME NEW u \in Users, ClickAccept(u) PROVE Owed'
  <2>1. dialog[u].to \in Users /\ dialog[u].from \in Users
    BY <1>10 DEF ClickAccept, RestTyped, Message
  <2>2. PICK m : m = Msg(dialog[u].to, dialog[u].from, "accept")
    OBVIOUS
  <2>3. PICK lost : SendMessage(u, m, lost)
    BY <1>10, <2>2 DEF ClickAccept
  <2>4. m \in Message /\ m.action = "accept"
    BY <2>1, <2>2, MsgTyped DEF Msg
  <2> QED BY <1>7, <1>10, <2>3, <2>4 DEF ClickAccept
<1>11. ASSUME NEW u \in Users, ConnOpens(u) PROVE Owed'
  <2>1. /\ IsFiniteSet(Unsent') /\ IsFiniteSet(Replies')
        /\ Cardinality(Unsent') + Cardinality(Replies')
               <= Cardinality(Unsent) + Cardinality(Replies)
    BY <1>1, <1>11, OpensOwed
  <2>2. /\ Accepted' = Accepted /\ EventsDue' = EventsDue
        /\ UNCHANGED <<accepts, calls>>
    BY <1>3, <1>4, <1>11 DEF ConnOpens
  <2>3. Cardinality(Unsent') \in Nat /\ Cardinality(Replies') \in Nat
    BY <2>1, FS_CardinalityType
  <2> QED BY <1>1, <1>2, <2>1, <2>2, <2>3, OwedKept
<1>12. ASSUME NEW u \in Users, ConnCloses(u) PROVE Owed'
  <2>1. /\ conn[u] \in Connection /\ conn' = [conn EXCEPT ![u].st = "closed"]
        /\ link' = [link EXCEPT ![u] = <<>>]
    BY <1>12 DEF ConnCloses, NetTyped
  <2>2. /\ conn'[u].st = "closed" /\ link'[u] = <<>>
        /\ \A v \in Users \ {u} : conn'[v] = conn[v] /\ link'[v] = link[v]
    BY <2>1 DEF NetTyped, Connection
  <2>3. \A v \in Users : Waits(v)' => Waits(v)
    BY <2>2 DEF Waits
  <2>4. Unsent' \subseteq Unsent
    <3>1. Unsent' = {v \in Users : Waits(v)'}
      BY DEF Unsent
    <3> QED BY <2>3, <3>1 DEF Unsent
  <2>5. Replies' \subseteq Replies
    <3>1. ASSUME NEW t \in Replies' PROVE t \in Replies
      <4>1. /\ t \in Users \X Nat /\ t[1] \in Users
            /\ t[2] \in DOMAIN link'[t[1]] /\ link'[t[1]][t[2]].action = "accept-ok"
        BY <3>1 DEF Replies
      <4>2. t[1] # u
        BY <2>2, <4>1
      <4> QED BY <2>2, <4>1, <4>2 DEF Replies
    <3> QED BY <3>1
  <2>6. /\ IsFiniteSet(Unsent') /\ Cardinality(Unsent') <= Cardinality(Unsent)
        /\ IsFiniteSet(Replies') /\ Cardinality(Replies') <= Cardinality(Replies)
    BY <1>1, <2>4, <2>5, FS_Subset
  <2>7. /\ Accepted' = Accepted /\ EventsDue' = EventsDue
        /\ UNCHANGED <<accepts, calls>>
    BY <1>3, <1>4, <1>12 DEF ConnCloses
  <2>8. Cardinality(Unsent') \in Nat /\ Cardinality(Replies') \in Nat
    BY <2>6, FS_CardinalityType
  <2> QED BY <1>1, <1>2, <2>6, <2>7, <2>8, OwedKept
<1>13. ASSUME NEW u \in Users, ReceiveCall(u) PROVE Owed'
  <2>1. PICK w \in Users : Arrives(u, w, "call")
    BY <1>13 DEF ReceiveCall
  <2>2. /\ Unsent' = Unsent /\ IsFiniteSet(Replies')
        /\ Cardinality(Replies') <= Cardinality(Replies)
    BY <1>1, <2>1, ArrivesOwed
  <2>3. /\ Accepted' = Accepted /\ EventsDue' = EventsDue
        /\ UNCHANGED <<accepts, calls>>
    BY <1>3, <1>4, <1>13 DEF ReceiveCall
  <2>4. Cardinality(Replies') \in Nat
    BY <2>2, FS_CardinalityType
  <2> QED BY <1>1, <1>2, <2>2, <2>3, <2>4, OwedKept
<1>14. ASSUME NEW u \in Users, ReceiveAccept(u) PROVE Owed'
  <2>1. PICK w \in Users : Arrives(u, w, "accept") /\ PlaceCall(w, Head(link[u]))
    BY <1>14 DEF ReceiveAccept
  <2>2. Head(link[u]) \in Message
    BY <2>1, ArrivesTyped DEF RestTyped
  <2>3. /\ Unsent' = Unsent /\ IsFiniteSet(Replies')
        /\ Cardinality(Replies') <= Cardinality(Replies)
    BY <1>1, <2>1, ArrivesOwed
  <2>4. /\ IsFiniteSet(Accepted') /\ calls' \in Nat /\ calls' <= calls + 1
        /\ Cardinality(Accepted') <= Cardinality(Accepted) + 1
    BY <1>1, <2>1, <2>2, PlaceOwed
  <2>5. EventsDue' = EventsDue /\ accepts' = accepts + 1
    BY <1>4, <1>14 DEF ReceiveAccept
  <2>6. Cardinality(Replies') \in Nat
    BY <2>3, FS_CardinalityType
  <2> QED BY <1>1, <1>2, <2>3, <2>4, <2>5, <2>6, OwedKept
<1>15. ASSUME NEW u \in Users, ReceiveAcceptOk(u) PROVE Owed'
  <2>1. PICK w \in Users : Arrives(u, w, "accept-ok") /\ PlaceCall(w, Head(link[u]))
    BY <1>15 DEF ReceiveAcceptOk
  <2>2. Head(link[u]) \in Message /\ Head(link[u]).action = "accept-ok"
    BY <2>1, ArrivesTyped DEF RestTyped
  <2>3. /\ Unsent' = Unsent /\ IsFiniteSet(Replies')
        /\ Cardinality(Replies') <= Cardinality(Replies) - 1
    BY <1>1, <2>1, ArrivesOwed
  <2>4. /\ IsFiniteSet(Accepted') /\ calls' \in Nat /\ calls' <= calls + 1
        /\ Cardinality(Accepted') <= Cardinality(Accepted)
    BY <1>1, <2>1, <2>2, PlaceOwed
  <2>5. EventsDue' = EventsDue /\ accepts' = accepts
    BY <1>4, <1>15 DEF ReceiveAcceptOk
  <2>6. Cardinality(Replies') \in Nat
    BY <2>3, FS_CardinalityType
  <2> QED BY <1>1, <1>2, <2>3, <2>4, <2>5, <2>6, OwedKept
<1>16. ASSUME NEW c \in ringing, RingFails(c) PROVE Owed'
  <2>1. Accepted' \subseteq Accepted
    BY <1>16 DEF RingFails, Accepted
  <2>2. IsFiniteSet(Accepted') /\ Cardinality(Accepted') <= Cardinality(Accepted)
    BY <1>1, <2>1, FS_Subset
  <2>3. UNCHANGED <<netVars, playing, accepts, calls>>
    BY <1>16 DEF RingFails
  <2> QED BY <1>1, <1>2, <1>4, <1>5, <2>2, <2>3, OwedKept
<1>17. ASSUME NEW c \in ringing, NEW x \in Users, Ring(c, x) PROVE Owed'
  <2>1. /\ IsFiniteSet(Accepted') /\ IsFiniteSet(EventsDue')
        /\ \/ /\ Cardinality(Accepted') <= Cardinality(Accepted)
              /\ Cardinality(EventsDue') <= Cardinality(EventsDue)
           \/ /\ Cardinality(Accepted') <= Cardinality(Accepted) - 1
              /\ Cardinality(EventsDue') <= Cardinality(EventsDue) + Tracks
    BY <1>1, <1>17, RingOwed
  <2>2. UNCHANGED <<netVars, accepts, calls>>
    BY <1>17 DEF Ring
  <2>3. Cardinality(EventsDue') \in Nat
    BY <2>1, FS_CardinalityType
  <2> QED BY <1>1, <1>2, <1>5, <2>1, <2>2, <2>3, OwedKept
<1>18. ASSUME NEW a \in playing, StreamBegins(a) PROVE Owed'
  <2>1. /\ IsFiniteSet(EventsDue') /\ IsFiniteSet(Unsent') /\ IsFiniteSet(Replies')
        /\ Cardinality(EventsDue') + Cardinality(Unsent') + Cardinality(Replies')
               <= Cardinality(EventsDue) + Cardinality(Unsent) + Cardinality(Replies)
    BY <1>1, <1>18, StreamOwed
  <2>2. UNCHANGED <<ringing, accepts, calls>>
    BY <1>18 DEF StreamBegins
  <2>3. /\ Cardinality(EventsDue') \in Nat /\ Cardinality(Unsent') \in Nat
        /\ Cardinality(Replies') \in Nat
    BY <2>1, FS_CardinalityType
  <2> QED BY <1>1, <1>2, <1>3, <2>1, <2>2, <2>3, OwedKept
<1>19. CASE UNCHANGED vars
  BY <1>6, <1>19 DEF vars
<1> QED
  BY <1>8, <1>9, <1>10, <1>11, <1>12, <1>13, <1>14, <1>15, <1>16, <1>17, <1>18, <1>19 DEF Next

\* An accepted invitation makes at most one media call and one more for each 'stream' event
\* of that, however many pages there are, whoever is disconnected and whatever arrives when:
\* the handshake, in which every event is answered anew, comes to an end.
THEOREM HandshakeEnds == Spec => []CallsBounded
<1>1. Init => Owed
  <2> SUFFICES ASSUME Init PROVE Owed
    OBVIOUS
  <2>1. Accepted = {} /\ EventsDue = {} /\ Unsent = {} /\ Replies = {}
    BY DEF Init, Accepted, EventsDue, Unsent, Replies, Waits
  <2>2. calls = 0 /\ accepts = 0 /\ Tracks \in Nat
    BY CallAssumption DEF Init
  <2> QED BY <2>1, <2>2, FS_EmptySet DEF Owed, AllFinite
<1>2. (NetTyped /\ RestTyped /\ Owed) /\ [Next]_vars => (NetTyped /\ RestTyped /\ Owed)'
  BY TypeStep, OwedStep
<1>3. NetTyped /\ RestTyped /\ Owed => CallsBounded
  <2> SUFFICES ASSUME RestTyped, Owed PROVE CallsBounded
    OBVIOUS
  <2>1. /\ Tracks \in Nat /\ calls \in Nat /\ accepts \in Nat
        /\ Cardinality(Accepted) \in Nat /\ Cardinality(EventsDue) \in Nat
        /\ Cardinality(Unsent) \in Nat /\ Cardinality(Replies) \in Nat
    BY PartsTyped DEF Owed
  <2>2. Tracks * Cardinality(Accepted) \in Nat /\ accepts * (1 + Tracks) \in Nat
    BY <2>1
  <2>3. calls <= calls + Tracks * Cardinality(Accepted) + Cardinality(EventsDue)
                       + Cardinality(Unsent) + Cardinality(Replies)
    BY <2>1, <2>2
  <2> QED BY <2>1, <2>2, <2>3 DEF Owed, CallsBounded
<1> QED BY <1>1, <1>2, <1>3, TypeInit, PTL DEF Spec
=============================================================================
