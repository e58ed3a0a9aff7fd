--------------------------- MODULE HttpServer_proofs ---------------------------
(***************************************************************************)
(* What the worker of the HTTP server guarantees whatever its clients send *)
(* and however many connections and descriptors there are: first of the    *)
(* transport, then of the parser and the router.                           *)
(***************************************************************************)
EXTENDS HttpUse, WellFoundedInduction, TLAPS

Types == TransportOK(Answer) /\ answers \in [Conn -> Nat]

(* A connection that waits to be accepted has no descriptor; one that      *)
(* waits to be registered, be it linked in the queue or not yet, has one,  *)
(* which the worker does not know yet.  The entry that pop has found is    *)
(* still the first.                                                        *)
Queued(c) == c \notin backlog /\ fdOf[c] # NoFd /\ peers[fdOf[c]] = NoConn

Arriving ==
    /\ \A c \in backlog : fdOf[c] = NoFd
    /\ \A i \in DOMAIN peersQueue : Queued(peersQueue[i]) /\ peersQueue[i] # pushing
    /\ \A i, j \in DOMAIN peersQueue : peersQueue[i] = peersQueue[j] => i = j
    /\ pushing # NoConn => Queued(pushing)
    /\ hand = "found" => peersQueue # <<>>

(* Write events are asked for only while an answer to the connection of    *)
(* the descriptor waits, and a batch has one event of a descriptor, of     *)
(* what is still asked for: the handling of the others cannot change that. *)
Waits(f) == toWrite[f] # NoAnswer /\ toWrite[f].conn = peers[f]

Events ==
    /\ \A f \in Fds : "write" \in interest[f] => Waits(f)
    /\ \A e \in batch : e.flags # {} /\ e.flags \subseteq interest[e.fd]
    /\ \A d, e \in batch : d.fd = e.fd => d = e

(* The answers given to c are numbered in the order of the writes, and one *)
(* that waits comes after those that were sent.                            *)
Sent(c) == got[c] \o outq[c]

Ordered(s, c, m) ==
    /\ \A i \in DOMAIN s : s[i].conn = c /\ s[i].n <= m
    /\ \A i \in DOMAIN s : \A j \in 1 .. i - 1 : s[j].n < s[i].n

InOrder ==
    /\ \A c \in Conn : Ordered(Sent(c), c, answers[c])
    /\ \A f \in Fds : "write" \in interest[f] =>
          /\ toWrite[f].n <= answers[peers[f]]
          /\ \A i \in DOMAIN Sent(peers[f]) : Sent(peers[f])[i].n < toWrite[f].n

Inv == Types /\ PeersAreOpen /\ Arriving /\ Events /\ InOrder /\ NeverThrows

-------------------------------------------------------------------------------
(* Sequences of answers.                                                   *)
LEMMA OrderedAppend ==
    ASSUME NEW s \in Seq(Answer), NEW c, NEW m \in Nat, NEW k \in Nat, NEW a \in Answer,
           Ordered(s, c, m), a.conn = c, a.n <= k, m <= k,
           \A i \in DOMAIN s : s[i].n < a.n
    PROVE  Ordered(Append(s, a), c, k)
<1> DEFINE t == Append(s, a)
<1>1. /\ Len(s) \in Nat /\ DOMAIN s = 1 .. Len(s) /\ DOMAIN t = 1 .. Len(s) + 1
      /\ \A i \in DOMAIN s : t[i] = s[i] /\ s[i] \in Answer
      /\ t[Len(s) + 1] = a
  OBVIOUS
<1>2. \A b \in Answer : b.n \in Nat
  BY DEF Answer
<1> HIDE DEF t
<1>3. \A i \in DOMAIN t : t[i].conn = c /\ t[i].n <= k
  <2> SUFFICES ASSUME NEW i \in DOMAIN t PROVE t[i].conn = c /\ t[i].n <= k
    OBVIOUS
  <2>1. CASE i \in DOMAIN s
    BY <1>1, <1>2, <2>1 DEF Ordered
  <2>2. CASE i = Len(s) + 1
    BY <1>1, <2>2
  <2> QED
    BY <1>1, <2>1, <2>2
<1>4. \A i \in DOMAIN t : \A j \in 1 .. i - 1 : t[j].n < t[i].n
  <2> SUFFICES ASSUME NEW i \in DOMAIN t, NEW j \in 1 .. i - 1 PROVE t[j].n < t[i].n
    OBVIOUS
  <2>0. j \in DOMAIN s
    BY <1>1
  <2>1. CASE i \in DOMAIN s
    BY <1>1, <2>0, <2>1 DEF Ordered
  <2>2. CASE i = Len(s) + 1
    BY <1>1, <2>0, <2>2
  <2> QED
    BY <1>1, <2>1, <2>2
<1> QED
  BY <1>3, <1>4 DEF Ordered, t

LEMMA OrderedMore ==
    ASSUME NEW s \in Seq(Answer), NEW c, NEW m \in Nat, NEW k \in Nat, m <= k, Ordered(s, c, m)
    PROVE  Ordered(s, c, k)
<1>1. \A i \in DOMAIN s : s[i] \in Answer
  OBVIOUS
<1>2. \A i \in DOMAIN s : s[i].n \in Nat
  BY <1>1 DEF Answer
<1> QED
  BY <1>2 DEF Ordered

LEMMA ReadKeeps ==
    ASSUME NEW S, NEW s \in Seq(S), NEW t \in Seq(S), t # <<>>
    PROVE  Append(s, Head(t)) \o Tail(t) = s \o t
  OBVIOUS

LEMMA WriteAppends ==
    ASSUME NEW S, NEW s \in Seq(S), NEW t \in Seq(S), NEW a \in S
    PROVE  s \o Append(t, a) = Append(s \o t, a)
  OBVIOUS

LEMMA InvInit == Init => Inv
<1> SUFFICES ASSUME Init PROVE Inv
  OBVIOUS
<1>1. Types
  <2>1. /\ \A c \in Conn : <<>> \in Seq(Answer)
        /\ <<>> \in Seq(Conn)
    OBVIOUS
  <2>2. /\ fdOf \in [Conn -> Fds \cup {NoFd}] /\ fin \in [Conn -> BOOLEAN]
        /\ outq \in [Conn -> Seq(Answer)] /\ got \in [Conn -> Seq(Answer)]
        /\ answers \in [Conn -> Nat]
    BY <2>1 DEF Init, TransportInit
  <2>3. /\ peers \in [Fds -> Conn \cup {NoConn}] /\ toWrite \in [Fds -> Answer \cup {NoAnswer}]
        /\ interest \in [Fds -> SUBSET {"read", "write"}]
    BY DEF Init, TransportInit
  <2>4. backlog \subseteq Conn /\ peersQueue \in Seq(Conn) /\ ready \subseteq Fds
        /\ batch = {} /\ crashed \in BOOLEAN
        /\ pushing = NoConn /\ signalling = FALSE /\ event = FALSE /\ hand = "idle"
    BY <2>1 DEF Init, TransportInit
  <2> QED
    BY <2>2, <2>3, <2>4 DEF Types, TransportOK
<1>2. PeersAreOpen
  BY DEF Init, TransportInit, PeersAreOpen
<1>3. Arriving /\ Events /\ NeverThrows
  BY DEF Init, TransportInit, Arriving, Events, NeverThrows
<1>4. \A c \in Conn : Sent(c) = <<>>
  BY DEF Init, TransportInit, Sent
<1>5. InOrder
  BY <1>4 DEF Init, TransportInit, InOrder, Ordered
<1> QED
  BY <1>1, <1>2, <1>3, <1>5 DEF Inv

-------------------------------------------------------------------------------
(* What handling an event does.  It is the event of a descriptor f that is *)
(* known as that of c; the answers of others, their descriptors and their  *)
(* events stay as they are.                                                *)
Ignored == UNCHANGED <<fdOf, peers, outq, toWrite, interest>>

Written(c, f, a) ==
    /\ toWrite[f] = NoAnswer
    /\ outq' = [outq EXCEPT ![c] = Append(@, a)]
    /\ UNCHANGED <<fdOf, peers, toWrite, interest>>

Kept(f, a) ==
    /\ toWrite[f] = NoAnswer
    /\ toWrite' = [toWrite EXCEPT ![f] = a]
    /\ interest' = [interest EXCEPT ![f] = {"read", "write"}]
    /\ UNCHANGED <<fdOf, peers, outq>>

Retried(c, f) ==
    /\ "write" \in interest[f]
    /\ outq' = [outq EXCEPT ![c] = Append(@, toWrite[f])]
    /\ toWrite' = [toWrite EXCEPT ![f] = NoAnswer]
    /\ interest' = [interest EXCEPT ![f] = {"read"}]
    /\ UNCHANGED <<fdOf, peers>>

Gone(c, f) ==
    /\ peers' = [peers EXCEPT ![f] = NoConn]
    /\ fdOf' = [fdOf EXCEPT ![c] = NoFd]
    /\ interest' = [interest EXCEPT ![f] = {}]
    /\ UNCHANGED <<outq, toWrite>>

NextAnswer(c, a) == a \in Answer /\ a.conn = c /\ a.n = answers[c] + 1

(* The answer to a request is dropped, written or kept.                    *)
Replied(c, f) ==
    /\ answers' = [answers EXCEPT ![c] = @ + 1]
    /\ \/ Ignored
       \/ \E a : NextAnswer(c, a) /\ (Written(c, f, a) \/ Kept(f, a))

Handled(e, c, f) ==
    /\ f = e.fd /\ c = peers[f] /\ f \in Fds /\ c \in Conn /\ fdOf[c] = f
    /\ batch' = batch \ {e}
    /\ ready' \subseteq ready \cup {f}
    /\ UNCHANGED <<backlog, fin, got, queue, crashed>>
    /\ \/ UNCHANGED answers /\ (Ignored \/ Retried(c, f) \/ Gone(c, f))
       \/ Replied(c, f)

LEMMA EventFields ==
    ASSUME Inv, NEW e \in batch
    PROVE  /\ e.fd \in Fds /\ peers[e.fd] \in Conn /\ fdOf[peers[e.fd]] = e.fd
           /\ e.flags # {} /\ e.flags \subseteq {"read", "write"}
           /\ e.flags \subseteq interest[e.fd]
           /\ Owner(e.fd) = peers[e.fd]
<1>1. /\ e.fd \in Fds /\ e.flags # {} /\ e.flags \subseteq {"read", "write"}
      /\ e.flags \subseteq interest[e.fd]
  BY DEF Inv, Types, TransportOK, Events
<1>2. peers[e.fd] \in Conn /\ fdOf[peers[e.fd]] = e.fd
  BY <1>1 DEF Inv, Types, TransportOK, PeersAreOpen
<1>3. e.fd # NoFd
  BY <1>1, TransportAssumption
<1>4. \A d \in Conn : fdOf[d] = e.fd => d = peers[e.fd]
  BY <1>2, <1>3 DEF Inv, PeersAreOpen
<1>5. Owner(e.fd) = peers[e.fd]
  BY <1>2, <1>4 DEF Owner
<1> QED
  BY <1>1, <1>2, <1>5

LEMMA ReplyIs ==
    ASSUME Inv, NEW f \in Fds, NEW c \in Conn, NEW status \in Status, Reply(c, f, status)
    PROVE  /\ answers' = [answers EXCEPT ![c] = @ + 1]
           /\ ready' \subseteq ready \cup {f}
           /\ \/ UNCHANGED <<outq, toWrite, interest>>
              \/ \E a : /\ NextAnswer(c, a) /\ toWrite[f] = NoAnswer
                        /\ \/ /\ outq' = [outq EXCEPT ![c] = Append(@, a)]
                              /\ UNCHANGED <<toWrite, interest>>
                           \/ /\ toWrite' = [toWrite EXCEPT ![f] = a]
                              /\ interest' = [interest EXCEPT ![f] = {"read", "write"}]
                              /\ UNCHANGED outq
<1> DEFINE a == [conn |-> c, n |-> answers[c] + 1, status |-> status]
<1>1. answers' = [answers EXCEPT ![c] = @ + 1] /\ AsyncWrite(c, f, a)
  BY DEF Reply
<1>2. answers[c] + 1 \in Nat \ {0}
  <2>1. answers[c] \in Nat
    BY DEF Inv, Types
  <2> QED
    BY <2>1
<1>3. NextAnswer(c, a)
  BY <1>2 DEF NextAnswer, Answer
<1> HIDE DEF a
<1>4. CASE toWrite[f] # NoAnswer
  <2>1. UNCHANGED <<outq, interest, ready, toWrite>>
    BY <1>1, <1>4 DEF AsyncWrite, NoWrite
  <2> QED
    BY <1>1, <2>1
<1>5. CASE toWrite[f] = NoAnswer /\ Len(outq[c]) < Window
  <2>1. /\ outq' = [outq EXCEPT ![c] = Append(@, a)]
        /\ UNCHANGED <<interest, ready, toWrite>>
    BY <1>1, <1>5 DEF AsyncWrite
  <2> QED
    BY <1>1, <1>3, <1>5, <2>1
<1>6. CASE toWrite[f] = NoAnswer /\ ~(Len(outq[c]) < Window)
  <2>1. /\ toWrite' = [toWrite EXCEPT ![f] = a]
        /\ UNCHANGED outq
        /\ Watch(c, f, {"read", "write"})
    BY <1>1, <1>6 DEF AsyncWrite
  <2>2. /\ interest' = [interest EXCEPT ![f] = {"read", "write"}]
        /\ ready' \subseteq ready \cup {f}
    BY <2>1 DEF Watch
  <2> QED
    BY <1>1, <1>3, <1>6, <2>1, <2>2
<1> QED
  BY <1>4, <1>5, <1>6

LEMMA EventHandled ==
    ASSUME Inv, NEW e \in batch, OnReadable(e) \/ (Retry(e) /\ HttpUnchanged)
    PROVE  Handled(e, peers[e.fd], e.fd)
<1> DEFINE f == e.fd
           c == peers[f]
<1>1. /\ f \in Fds /\ c \in Conn /\ fdOf[c] = f /\ Owner(f) = c /\ c # NoConn
      /\ e.flags # {} /\ e.flags \subseteq {"read", "write"} /\ e.flags \subseteq interest[f]
  BY EventFields, TransportAssumption
<1>2. CASE Retry(e) /\ HttpUnchanged
  <2>1. "write" \in interest[f] /\ toWrite[f] # NoAnswer
    BY <1>1, <1>2 DEF Retry, Writable, Inv, Events, Waits
  <2>2. batch' = batch \ {e} /\ SendWaiting(e, {"read"}) /\ UNCHANGED answers
    BY <1>2, <2>1 DEF Retry, HttpUnchanged
  <2>3. /\ Retried(c, f) /\ ready' \subseteq ready \cup {f}
        /\ UNCHANGED <<backlog, fin, got, queue, crashed>>
    BY <1>1, <2>1, <2>2 DEF SendWaiting, Retried, Watch, clients
  <2> QED
    BY <1>1, <2>2, <2>3 DEF Handled
<1>3. CASE OnReadable(e)
  <2>1. ~IsUnknown(e)
    BY <1>1 DEF IsUnknown
  <2>2. CASE Disconnect(e) /\ HttpUnchanged
    BY <1>1, <2>2 DEF Disconnect, HttpUnchanged, Handled, Gone, clients
  <2>3. CASE Overflow(e) /\ HttpUnchanged
    BY <1>1, <2>3 DEF Overflow, HttpUnchanged, Handled, Ignored, clients, worker
  <2>4. CASE OnInput(e)
    <3>1. /\ batch' = batch \ {e}
          /\ UNCHANGED <<backlog, fin, got, fdOf, queue, peers, crashed>>
      BY <2>4 DEF OnInput, Incoming, clients
    <3>2. (NoWrite /\ UNCHANGED answers) \/ \E status \in Status : Reply(c, f, status)
      <4>1. PICK r : \/ Reply(c, f, "Request_Entity_Too_Large")
                     \/ NoWrite /\ UNCHANGED <<handled, answers>>
                     \/ Reply(c, f, "Bad_Request")
                     \/ Reply(c, f, IF Routed(r.p).route = NotFound THEN "Not_Found" ELSE "Ok")
        BY <2>4 DEF OnInput
      <4> QED
        BY <4>1 DEF Status
    <3>3. CASE NoWrite /\ UNCHANGED answers
      BY <1>1, <3>1, <3>3 DEF NoWrite, Handled, Ignored
    <3>4. ASSUME NEW status \in Status, Reply(c, f, status) PROVE Handled(e, c, f)
      <4>1. Replied(c, f) /\ ready' \subseteq ready \cup {f}
        BY <1>1, <3>1, <3>4, ReplyIs DEF Replied, Ignored, Written, Kept
      <4> QED
        BY <1>1, <3>1, <4>1 DEF Handled
    <3> QED
      BY <3>2, <3>3, <3>4
  <2> QED
    BY <1>3, <2>1, <2>2, <2>3, <2>4 DEF OnReadable
<1> QED
  BY <1>2, <1>3

-------------------------------------------------------------------------------
(* The steps.                                                              *)

(* What the transport knows, and the answers as they were sent, are the    *)
(* same.                                                                   *)
LEMMA Undisturbed ==
    ASSUME Inv, UNCHANGED <<backlog, fdOf, pushing, peersQueue, peers, toWrite, interest>>,
           UNCHANGED <<answers, crashed>>, hand' = "found" => peersQueue # <<>>,
           \A c \in Conn : Sent(c)' = Sent(c)
    PROVE  PeersAreOpen' /\ Arriving' /\ InOrder' /\ NeverThrows'
<1>1. PeersAreOpen' /\ Arriving' /\ NeverThrows'
  BY DEF Inv, PeersAreOpen, Arriving, Queued, NeverThrows
<1>2. \A f \in Fds : "write" \in interest[f] => peers[f] \in Conn
  BY DEF Inv, PeersAreOpen, Types, TransportOK
<1>3. InOrder'
  BY <1>2 DEF Inv, InOrder, Ordered
<1> QED
  BY <1>1, <1>3

LEMMA ClientStep ==
    ASSUME Inv, NEW c \in Conn, Client(c), HttpUnchanged
    PROVE  Inv'
<1>1. /\ UNCHANGED <<backlog, fdOf, pushing, signalling, peersQueue, event, hand, peers, toWrite,
                      interest, batch, answers, crashed>>
      /\ fin' \in [Conn -> BOOLEAN]
  BY DEF Client, Send, Close, ReadAnswer, HttpUnchanged, clients, kernel, worker, queue, Inv,
         Types, TransportOK
<1>2. ready' \subseteq Fds
  <2>1. ready \subseteq Fds /\ fdOf[c] \in Fds \cup {NoFd}
    BY DEF Inv, Types, TransportOK
  <2>2. \A what : Wakes(c, what) \subseteq Fds
    BY <2>1 DEF Wakes
  <2> QED
    BY <2>1, <2>2 DEF Client, Send, Close, ReadAnswer
<1>3. /\ outq' \in [Conn -> Seq(Answer)] /\ got' \in [Conn -> Seq(Answer)]
      /\ \A d \in Conn : Sent(d)' = Sent(d)
  <2>0. outq \in [Conn -> Seq(Answer)] /\ got \in [Conn -> Seq(Answer)]
    BY DEF Inv, Types, TransportOK
  <2>1. CASE Send(c) \/ Close(c)
    BY <2>0, <2>1 DEF Send, Close, Sent, kernel
  <2>2. CASE ReadAnswer(c)
    <3>1. /\ outq[c] # <<>>
          /\ got' = [got EXCEPT ![c] = Append(@, Head(outq[c]))]
          /\ outq' = [outq EXCEPT ![c] = Tail(@)]
      BY <2>2 DEF ReadAnswer
    <3>2. outq[c] \in Seq(Answer) /\ got[c] \in Seq(Answer)
      BY <2>0
    <3>3. Head(outq[c]) \in Answer /\ Tail(outq[c]) \in Seq(Answer)
          /\ Append(got[c], Head(outq[c])) \in Seq(Answer)
      BY <3>1, <3>2
    <3>4. Append(got[c], Head(outq[c])) \o Tail(outq[c]) = got[c] \o outq[c]
      BY <3>1, <3>2, ReadKeeps
    <3> QED
      BY <2>0, <3>1, <3>3, <3>4 DEF Sent
  <2> QED
    BY <2>1, <2>2 DEF Client
<1>4. Types'
  BY <1>1, <1>2, <1>3 DEF Inv, Types, TransportOK
<1>5. Events'
  BY <1>1 DEF Inv, Events, Waits
<1>6. hand' = "found" => peersQueue # <<>>
  BY <1>1 DEF Inv, Arriving
<1> QED
  BY <1>1, <1>3, <1>4, <1>5, <1>6, Undisturbed DEF Inv

LEMMA PollStep ==
    ASSUME Inv, Poll, HttpUnchanged
    PROVE  Inv'
<1>1. /\ UNCHANGED <<backlog, fdOf, fin, outq, got, pushing, signalling, peersQueue, event, peers,
                     toWrite, interest, answers, crashed>>
      /\ hand' \in {"idle", "due"}
  BY DEF Poll, HttpUnchanged, clients, kernel
<1>2. /\ \A e \in batch' : \E f \in ready : \E flags \in SUBSET interest[f] :
            e = [fd |-> f, flags |-> flags] /\ flags # {}
      /\ \A d, e \in batch' : d.fd = e.fd => d = e
      /\ ready' = {}
  <2> DEFINE E(f) == [fd |-> f, flags |-> Conditions(Owner(f), outq[Owner(f)]) \cap interest[f]]
  <2>1. batch' = {e \in {E(f) : f \in ready} : e.flags # {}} /\ ready' = {}
    BY DEF Poll
  <2>2. \A f : E(f).fd = f /\ E(f).flags = Conditions(Owner(f), outq[Owner(f)]) \cap interest[f]
    OBVIOUS
  <2> QED
    BY <2>1, <2>2
<1>3. batch' \subseteq [fd : Fds, flags : SUBSET {"read", "write"}]
  <2>1. /\ ready \subseteq Fds
        /\ \A f \in Fds : SUBSET interest[f] \subseteq SUBSET {"read", "write"}
    BY DEF Inv, Types, TransportOK
  <2>2. ASSUME NEW e \in batch' PROVE e \in [fd : Fds, flags : SUBSET {"read", "write"}]
    <3>1. PICK f \in ready : \E flags \in SUBSET interest[f] : e = [fd |-> f, flags |-> flags]
      BY <1>2
    <3>2. PICK flags \in SUBSET interest[f] : e = [fd |-> f, flags |-> flags]
      BY <3>1
    <3>3. f \in Fds /\ flags \in SUBSET {"read", "write"}
      BY <2>1
    <3> QED
      BY <3>2, <3>3
  <2> QED
    BY <2>2
<1>4. Types'
  BY <1>1, <1>2, <1>3 DEF Inv, Types, TransportOK
<1>5. Events'
  BY <1>1, <1>2 DEF Inv, Events, Waits
<1>6. \A d \in Conn : Sent(d)' = Sent(d)
  BY <1>1 DEF Sent
<1> QED
  BY <1>1, <1>4, <1>5, <1>6, Undisturbed DEF Inv

LEMMA AcceptStep ==
    ASSUME Inv, NEW c \in Conn, Accept(c), HttpUnchanged
    PROVE  Inv'
<1>1. PICK f \in Free : fdOf' = [fdOf EXCEPT ![c] = f]
  BY DEF Accept
<1>2. /\ c \in backlog /\ backlog' = backlog \ {c} /\ pushing = NoConn /\ pushing' = c
      /\ UNCHANGED <<fin, outq, got, signalling, peersQueue, event, hand, peers, toWrite, interest,
                     ready, batch, answers, crashed>>
  BY DEF Accept, HttpUnchanged, epoll
<1>3. /\ f \in Fds /\ f # NoFd /\ \A d \in Conn : fdOf[d] # f
      /\ fdOf[c] = NoFd /\ fdOf \in [Conn -> Fds \cup {NoFd}]
  BY <1>1, <1>2, TransportAssumption DEF Free, Inv, Arriving, Types, TransportOK
<1>4. peers[f] = NoConn
  BY <1>3 DEF Inv, PeersAreOpen, Types, TransportOK
<1>5. \A i \in DOMAIN peersQueue : peersQueue[i] \in Conn
  BY DEF Inv, Types, TransportOK
<1>6. Types'
  BY <1>1, <1>2, <1>3 DEF Inv, Types, TransportOK
<1>7. PeersAreOpen'
  <2>1. \A d, e \in Conn : fdOf'[d] = fdOf'[e] /\ fdOf'[d] # NoFd => d = e
    BY <1>1, <1>3 DEF Inv, PeersAreOpen
  <2>2. \A g \in Fds : peers[g] # NoConn => fdOf'[peers[g]] = g
    BY <1>1, <1>3, TransportAssumption DEF Inv, PeersAreOpen, Types, TransportOK
  <2> QED
    BY <1>2, <2>1, <2>2 DEF Inv, PeersAreOpen
<1>8. Arriving'
  <2>1. \A d \in backlog' : fdOf'[d] = NoFd
    BY <1>1, <1>2, <1>3 DEF Inv, Arriving, Types, TransportOK
  <2>2. \A i \in DOMAIN peersQueue : peersQueue[i] # c /\ Queued(peersQueue[i])
    BY <1>2 DEF Inv, Arriving, Queued
  <2>3. Queued(c)'
    BY <1>1, <1>2, <1>3, <1>4 DEF Queued
  <2>4. \A i \in DOMAIN peersQueue : \E d \in Conn : d = peersQueue[i] /\ Queued(d)'
    <3>1. ASSUME NEW d \in Conn, d # c, Queued(d) PROVE Queued(d)'
      BY <1>1, <1>2, <1>3, <3>1 DEF Queued
    <3> QED
      BY <1>5, <2>2, <3>1
  <2> QED
    BY <1>2, <2>1, <2>2, <2>3, <2>4 DEF Inv, Arriving, Queued
<1>9. Events'
  BY <1>2 DEF Inv, Events, Waits
<1>10. \A d \in Conn : Sent(d)' = Sent(d)
  BY <1>2 DEF Sent
<1>11. InOrder' /\ NeverThrows'
  <2>1. \A g \in Fds : "write" \in interest[g] => peers[g] \in Conn
    BY DEF Inv, PeersAreOpen, Types, TransportOK
  <2> QED
    BY <1>2, <1>10, <2>1 DEF Inv, InOrder, Ordered, NeverThrows
<1> QED
  BY <1>6, <1>7, <1>8, <1>9, <1>11 DEF Inv

LEMMA LinkStep ==
    ASSUME Inv, Link, HttpUnchanged
    PROVE  Inv'
<1>1. /\ pushing # NoConn /\ pushing' = NoConn /\ signalling' = TRUE
      /\ peersQueue' = Append(peersQueue, pushing)
      /\ UNCHANGED <<backlog, fdOf, fin, outq, got, event, hand, peers, toWrite, interest, ready,
                     batch, answers, crashed>>
  BY DEF Link, HttpUnchanged, clients, kernel, epoll
<1>2. /\ peersQueue \in Seq(Conn) /\ peersQueue' \in Seq(Conn) /\ pushing \in Conn
      /\ DOMAIN peersQueue = 1 .. Len(peersQueue) /\ Len(peersQueue) \in Nat
      /\ DOMAIN peersQueue' = 1 .. Len(peersQueue) + 1
      /\ \A i \in DOMAIN peersQueue : peersQueue'[i] = peersQueue[i] /\ peersQueue[i] \in Conn
      /\ peersQueue'[Len(peersQueue) + 1] = pushing
  <2>1. peersQueue \in Seq(Conn) /\ pushing \in Conn
    BY <1>1 DEF Inv, Types, TransportOK
  <2> QED
    BY <1>1, <2>1
<1>3. Types'
  BY <1>1, <1>2 DEF Inv, Types, TransportOK
<1>4. PeersAreOpen' /\ Events'
  BY <1>1 DEF Inv, PeersAreOpen, Events, Waits
<1>5. Arriving'
  <2>1. \A i \in DOMAIN peersQueue : Queued(peersQueue[i]) /\ peersQueue[i] # pushing
    BY DEF Inv, Arriving
  <2>2. \A i \in DOMAIN peersQueue' : Queued(peersQueue'[i]) /\ peersQueue'[i] \in Conn
    BY <1>1, <1>2, <2>1 DEF Inv, Arriving
  <2>3. \A i, j \in DOMAIN peersQueue' : peersQueue'[i] = peersQueue'[j] => i = j
    BY <1>2, <2>1 DEF Inv, Arriving
  <2>4. peersQueue' # <<>>
    BY <1>2
  <2> QED
    BY <1>1, <2>2, <2>3, <2>4, TransportAssumption DEF Inv, Arriving, Queued
<1>6. \A d \in Conn : Sent(d)' = Sent(d)
  BY <1>1 DEF Sent
<1>7. InOrder' /\ NeverThrows'
  <2>1. \A g \in Fds : "write" \in interest[g] => peers[g] \in Conn
    BY DEF Inv, PeersAreOpen, Types, TransportOK
  <2> QED
    BY <1>1, <1>6, <2>1 DEF Inv, InOrder, Ordered, NeverThrows
<1> QED
  BY <1>3, <1>4, <1>5, <1>7 DEF Inv

(* What only concerns the eventfd, and the search of an entry.             *)
LEMMA WakeStep ==
    ASSUME Inv, Signal \/ PopPeer \/ NoPeer, HttpUnchanged
    PROVE  Inv'
<1>1. /\ UNCHANGED <<backlog, fdOf, fin, outq, got, pushing, peersQueue, peers, toWrite, interest,
                     ready, batch, answers, crashed>>
      /\ signalling' \in BOOLEAN /\ event' \in BOOLEAN
      /\ hand' \in {"idle", "due", "pop", "found", "none"}
      /\ hand' = "found" => peersQueue # <<>>
  <2>1. /\ signalling \in BOOLEAN /\ event \in BOOLEAN
        /\ hand \in {"idle", "due", "pop", "found", "none"}
        /\ hand = "found" => peersQueue # <<>>
    BY DEF Inv, Types, TransportOK, Arriving
  <2>2. CASE Signal
    BY <2>1, <2>2 DEF Signal, HttpUnchanged, clients, kernel, epoll
  <2>3. CASE PopPeer
    BY <2>1, <2>3 DEF PopPeer, HttpUnchanged, clients, kernel, epoll
  <2>4. CASE NoPeer
    BY <2>1, <2>4 DEF NoPeer, Drain, HttpUnchanged, clients, kernel, epoll
  <2> QED
    BY <2>2, <2>3, <2>4
<1>2. Types' /\ Events'
  BY <1>1 DEF Inv, Types, TransportOK, Events, Waits
<1>3. \A d \in Conn : Sent(d)' = Sent(d)
  BY <1>1 DEF Sent
<1> QED
  BY <1>1, <1>2, <1>3, Undisturbed DEF Inv

LEMMA HandlePeerStep ==
    ASSUME Inv, HandlePeer, HttpUnchanged
    PROVE  Inv'
<1> DEFINE c == Head(peersQueue)
           f == fdOf[c]
<1>1. /\ peersQueue \in Seq(Conn) /\ peersQueue # <<>> /\ c = peersQueue[1] /\ 1 \in DOMAIN peersQueue
      /\ peersQueue' = Tail(peersQueue)
  <2>1. peersQueue \in Seq(Conn) /\ peersQueue # <<>> /\ peersQueue' = Tail(peersQueue)
    BY DEF HandlePeer, Inv, Arriving, Types, TransportOK
  <2> QED
    BY <2>1
<1>2. c \in Conn /\ f \in Fds /\ peers[f] = NoConn /\ interest[f] = {}
  BY <1>1 DEF Inv, Arriving, Queued, Types, TransportOK, PeersAreOpen
<1>3. /\ peers' = [peers EXCEPT ![f] = c]
      /\ interest' = [interest EXCEPT ![f] = {"read"}]
      /\ ready' \subseteq ready \cup {f}
      /\ event' = FALSE /\ hand' = "pop"
      /\ UNCHANGED <<backlog, fdOf, fin, outq, got, pushing, signalling, toWrite, batch, answers,
                     crashed>>
  BY <1>2 DEF HandlePeer, Drain, Watch, HttpUnchanged, clients
<1>4. /\ peersQueue' \in Seq(Conn)
      /\ DOMAIN peersQueue = 1 .. Len(peersQueue) /\ Len(peersQueue) \in Nat
      /\ DOMAIN peersQueue' = 1 .. Len(peersQueue) - 1
      /\ \A i \in DOMAIN peersQueue' : /\ i + 1 \in DOMAIN peersQueue
                                       /\ peersQueue'[i] = peersQueue[i + 1]
                                       /\ peersQueue[i + 1] \in Conn
  BY <1>1
<1>5. Types'
  BY <1>2, <1>3, <1>4 DEF Inv, Types, TransportOK
<1>6. PeersAreOpen'
  BY <1>2, <1>3, TransportAssumption DEF Inv, PeersAreOpen, Types, TransportOK
<1>7. Arriving'
  <2>1. \A i \in DOMAIN peersQueue' : /\ Queued(peersQueue[i + 1]) /\ peersQueue[i + 1] # c
                                       /\ peersQueue[i + 1] # pushing
    BY <1>1, <1>4 DEF Inv, Arriving
  <2>0. ASSUME NEW d \in Conn, d # c, Queued(d) PROVE Queued(d)'
    <3>1. fdOf[d] # f
      BY <1>2, <2>0, TransportAssumption DEF Inv, PeersAreOpen, Queued
    <3> QED
      BY <1>2, <1>3, <2>0, <3>1 DEF Queued, Inv, Types, TransportOK
  <2>2. \A i \in DOMAIN peersQueue' : \E d \in Conn : d = peersQueue'[i] /\ Queued(d)'
    BY <1>4, <2>0, <2>1
  <2>3. \A i, j \in DOMAIN peersQueue' : peersQueue'[i] = peersQueue'[j] => i = j
    BY <1>4 DEF Inv, Arriving
  <2>4. pushing # NoConn => \E d \in Conn : d = pushing /\ Queued(d)'
    <3>1. pushing # NoConn => pushing \in Conn /\ pushing # c /\ Queued(pushing)
      BY <1>1 DEF Inv, Arriving, Types, TransportOK
    <3> QED
      BY <2>0, <3>1
  <2>5. \A i \in DOMAIN peersQueue' : peersQueue'[i] # pushing
    BY <1>4, <2>1
  <2> QED
    BY <1>3, <2>2, <2>3, <2>4, <2>5 DEF Inv, Arriving, Queued
<1>8. Events'
  <2>1. \A e \in batch : e.fd \in Fds /\ e.fd # f
    BY <1>2, EventFields
  <2> QED
    BY <1>2, <1>3, <2>1 DEF Inv, Events, Waits, Types, TransportOK
<1>9. \A d \in Conn : Sent(d)' = Sent(d)
  BY <1>3 DEF Sent
<1>10. InOrder' /\ NeverThrows'
  <2>1. \A g \in Fds : "write" \in interest[g] => peers[g] \in Conn /\ g # f
    BY <1>2 DEF Inv, PeersAreOpen, Types, TransportOK
  <2>2. \A g \in Fds : "write" \in interest'[g] => "write" \in interest[g] /\ peers'[g] = peers[g]
    BY <1>2, <1>3 DEF Inv, Types, TransportOK
  <2> QED
    BY <1>3, <2>1, <2>2 DEF Inv, InOrder, Ordered, NeverThrows, Sent
<1> QED
  BY <1>5, <1>6, <1>7, <1>8, <1>10 DEF Inv

(* An event of the descriptor f of c.                                      *)
LEMMA EventStep ==
    ASSUME Inv, NEW e \in batch, NEW c \in Conn, NEW f \in Fds, Handled(e, c, f)
    PROVE  Inv'
<1>1. /\ f = e.fd /\ c = peers[f] /\ fdOf[c] = f /\ c # NoConn /\ f # NoFd /\ interest[f] # {}
      /\ batch' = batch \ {e} /\ ready' \subseteq ready \cup {f}
      /\ UNCHANGED <<backlog, fin, got, pushing, signalling, peersQueue, event, hand, crashed>>
  BY EventFields, TransportAssumption DEF Handled, queue
<1>2. \/ UNCHANGED answers /\ (Ignored \/ Retried(c, f) \/ Gone(c, f))
      \/ Replied(c, f)
  BY DEF Handled
<1>3. /\ fdOf \in [Conn -> Fds \cup {NoFd}] /\ peers \in [Fds -> Conn \cup {NoConn}]
      /\ outq \in [Conn -> Seq(Answer)] /\ toWrite \in [Fds -> Answer \cup {NoAnswer}]
      /\ got \in [Conn -> Seq(Answer)]
      /\ interest \in [Fds -> SUBSET {"read", "write"}] /\ answers \in [Conn -> Nat]
  BY DEF Inv, Types, TransportOK
<1>4. "write" \in interest[f] =>
         /\ toWrite[f] \in Answer /\ toWrite[f].conn = c /\ toWrite[f].n <= answers[c]
         /\ toWrite[f].n \in Nat
         /\ \A i \in DOMAIN Sent(c) : Sent(c)[i].n < toWrite[f].n
  BY <1>1, <1>3 DEF Inv, Events, Waits, InOrder, Answer
<1>5. \A d \in batch' : d \in batch /\ d.fd # f /\ d.fd \in Fds
  BY <1>1, EventFields DEF Inv, Events
<1>6. answers' \in [Conn -> Nat] /\ \A d \in Conn : answers[d] <= answers'[d]
  <2>1. CASE UNCHANGED answers
    BY <1>3, <2>1
  <2>2. CASE answers' = [answers EXCEPT ![c] = @ + 1]
    BY <1>3, <2>2
  <2> QED
    BY <1>2, <2>1, <2>2 DEF Replied
<1>7. /\ outq' \in [Conn -> Seq(Answer)] /\ toWrite' \in [Fds -> Answer \cup {NoAnswer}]
      /\ interest' \in [Fds -> SUBSET {"read", "write"}]
      /\ fdOf' \in [Conn -> Fds \cup {NoFd}] /\ peers' \in [Fds -> Conn \cup {NoConn}]
  <2>1. CASE Ignored
    BY <1>3, <2>1 DEF Ignored
  <2>2. CASE Retried(c, f)
    <3>1. Append(outq[c], toWrite[f]) \in Seq(Answer)
      BY <1>3, <1>4, <2>2 DEF Retried
    <3> QED
      BY <1>3, <2>2, <3>1 DEF Retried
  <2>3. CASE Gone(c, f)
    BY <1>3, <2>3 DEF Gone
  <2>4. ASSUME NEW a, NextAnswer(c, a), Written(c, f, a) \/ Kept(f, a)
        PROVE  /\ outq' \in [Conn -> Seq(Answer)] /\ toWrite' \in [Fds -> Answer \cup {NoAnswer}]
               /\ interest' \in [Fds -> SUBSET {"read", "write"}]
               /\ fdOf' \in [Conn -> Fds \cup {NoFd}] /\ peers' \in [Fds -> Conn \cup {NoConn}]
    <3>1. a \in Answer /\ Append(outq[c], a) \in Seq(Answer)
      BY <1>3, <2>4 DEF NextAnswer
    <3> QED
      BY <1>3, <2>4, <3>1 DEF Written, Kept
  <2> QED
    BY <1>2, <2>1, <2>2, <2>3, <2>4 DEF Replied
<1>8. Types'
  BY <1>1, <1>6, <1>7 DEF Inv, Types, TransportOK
<1>9. PeersAreOpen' /\ Arriving'
  <2>1. CASE Gone(c, f)
    <3>1. \A d \in Conn : d # c => fdOf'[d] = fdOf[d]
      BY <1>3, <2>1 DEF Gone
    <3>2. fdOf'[c] = NoFd /\ peers'[f] = NoConn /\ interest'[f] = {}
      BY <1>3, <2>1 DEF Gone
    <3>3. \A g \in Fds : g # f => peers'[g] = peers[g] /\ interest'[g] = interest[g] /\ peers[g] # c
      BY <1>1, <1>3, <2>1 DEF Gone, Inv, PeersAreOpen
    <3>4. PeersAreOpen'
      <4>1. \A a, b \in Conn : fdOf'[a] = fdOf'[b] /\ fdOf'[a] # NoFd => a = b
        BY <3>1, <3>2 DEF Inv, PeersAreOpen
      <4>2. \A g \in Fds : peers'[g] # NoConn =>
                /\ g # f /\ peers[g] \in Conn /\ peers[g] # c
                /\ peers'[g] = peers[g] /\ fdOf[peers[g]] = g
        BY <1>3, <3>2, <3>3 DEF Inv, PeersAreOpen
      <4>3. \A g \in Fds : peers'[g] # NoConn => fdOf'[peers'[g]] = g
        BY <3>1, <4>2
      <4>4. \A g \in Fds : interest'[g] # {} <=> peers'[g] # NoConn
        BY <3>2, <3>3 DEF Inv, PeersAreOpen
      <4> QED
        BY <4>1, <4>3, <4>4 DEF PeersAreOpen
    <3>5. \A d \in backlog' : fdOf'[d] = NoFd
      BY <1>1, <3>1, <3>2 DEF Inv, Arriving, Types, TransportOK
    <3>6. ASSUME NEW d \in Conn, Queued(d) PROVE Queued(d)'
      <4>1. d # c /\ fdOf[d] # f /\ fdOf[d] \in Fds
        BY <1>1, <1>3, <3>6 DEF Queued
      <4> QED
        BY <1>1, <3>1, <3>3, <3>6, <4>1 DEF Queued
    <3>7. /\ \A i \in DOMAIN peersQueue : peersQueue[i] \in Conn /\ Queued(peersQueue[i])
          /\ pushing # NoConn => pushing \in Conn /\ Queued(pushing)
      BY DEF Inv, Arriving, Types, TransportOK
    <3>8. Arriving'
      <4>1. \A i \in DOMAIN peersQueue : \E d \in Conn : d = peersQueue[i] /\ Queued(d)'
        BY <3>6, <3>7
      <4>2. pushing # NoConn => \E d \in Conn : d = pushing /\ Queued(d)'
        BY <3>6, <3>7
      <4> QED
        BY <1>1, <3>5, <4>1, <4>2 DEF Inv, Arriving, Queued
    <3> QED
      BY <3>4, <3>8
  <2>2. ASSUME UNCHANGED <<fdOf, peers>>, \A g \in Fds : interest'[g] = {} <=> interest[g] = {}
        PROVE  PeersAreOpen' /\ Arriving'
    BY <1>1, <2>2 DEF Inv, PeersAreOpen, Arriving, Queued
  <2>3. CASE Retried(c, f)
    BY <1>1, <1>3, <2>2, <2>3 DEF Retried
  <2>4. CASE Ignored \/ \E a : Written(c, f, a) \/ Kept(f, a)
    BY <1>1, <1>3, <2>2, <2>4 DEF Ignored, Written, Kept
  <2> QED
    BY <1>2, <2>1, <2>3, <2>4 DEF Replied
<1>10. /\ \A g \in Fds : g # f =>
             interest'[g] = interest[g] /\ toWrite'[g] = toWrite[g] /\ peers'[g] = peers[g]
       /\ "write" \in interest'[f] => Waits(f)' /\ peers'[f] = c
  <2>1. CASE Ignored
    BY <1>1, <2>1 DEF Ignored, Inv, Events, Waits
  <2>2. CASE Retried(c, f)
    BY <1>3, <2>2 DEF Retried
  <2>3. CASE Gone(c, f)
    BY <1>3, <2>3 DEF Gone
  <2>4. ASSUME NEW a, NextAnswer(c, a), Written(c, f, a)
        PROVE  /\ \A g \in Fds : g # f =>
                     interest'[g] = interest[g] /\ toWrite'[g] = toWrite[g] /\ peers'[g] = peers[g]
               /\ "write" \in interest'[f] => Waits(f)' /\ peers'[f] = c
    BY <1>1, <2>4 DEF Written, Inv, Events, Waits
  <2>5. ASSUME NEW a, NextAnswer(c, a), Kept(f, a)
        PROVE  /\ \A g \in Fds : g # f =>
                     interest'[g] = interest[g] /\ toWrite'[g] = toWrite[g] /\ peers'[g] = peers[g]
               /\ "write" \in interest'[f] => Waits(f)' /\ peers'[f] = c
    BY <1>1, <1>3, <2>5, NoAnswerAssumption DEF Kept, NextAnswer, Waits
  <2> QED
    BY <1>2, <2>1, <2>2, <2>3, <2>4, <2>5 DEF Replied
<1>11. Events'
  <2>1. \A g \in Fds : "write" \in interest'[g] => Waits(g)'
    BY <1>10 DEF Inv, Events, Waits
  <2>2. \A d \in batch' : d.flags # {} /\ d.flags \subseteq interest'[d.fd]
    BY <1>5, <1>10 DEF Inv, Events
  <2>3. \A d, k \in batch' : d.fd = k.fd => d = k
    BY <1>5 DEF Inv, Events
  <2> QED
    BY <2>1, <2>2, <2>3 DEF Events
<1>12. InOrder'
  <2>1. \A d \in Conn : Sent(d) \in Seq(Answer) /\ Ordered(Sent(d), d, answers[d])
    BY <1>3 DEF Sent, Inv, InOrder
  <2>2. ASSUME UNCHANGED outq PROVE \A d \in Conn : Sent(d)' = Sent(d)
    BY <1>1, <2>2 DEF Sent
  <2>3. ASSUME NEW a \in Answer, outq' = [outq EXCEPT ![c] = Append(@, a)]
        PROVE  /\ Sent(c)' = Append(Sent(c), a)
               /\ \A d \in Conn : d # c => Sent(d)' = Sent(d)
    <3>1. outq[c] \in Seq(Answer) /\ got[c] \in Seq(Answer) /\ outq'[c] = Append(outq[c], a)
      BY <1>3, <2>3
    <3>2. \A s, t \in Seq(Answer) : s \o Append(t, a) = Append(s \o t, a)
      BY <2>3, WriteAppends
    <3>3. got[c] \o Append(outq[c], a) = Append(got[c] \o outq[c], a)
      BY <3>1, <3>2
    <3>4. \A d \in Conn : d # c => outq'[d] = outq[d]
      BY <1>3, <2>3
    <3> QED
      BY <1>1, <3>1, <3>3, <3>4 DEF Sent
  <2>4. \A d \in Conn : Ordered(Sent(d)', d, answers'[d])
    <3>1. ASSUME NEW d \in Conn, Sent(d)' = Sent(d) PROVE Ordered(Sent(d)', d, answers'[d])
      <4>1. answers[d] \in Nat /\ answers'[d] \in Nat /\ answers[d] <= answers'[d]
        BY <1>3, <1>6
      <4> QED
        BY <2>1, <3>1, <4>1, OrderedMore
    <3>2. ASSUME NEW a \in Answer, outq' = [outq EXCEPT ![c] = Append(@, a)],
                 a.conn = c, a.n <= answers'[c], \A i \in DOMAIN Sent(c) : Sent(c)[i].n < a.n
          PROVE  \A d \in Conn : Ordered(Sent(d)', d, answers'[d])
      <4>1. answers[c] \in Nat /\ answers'[c] \in Nat /\ answers[c] <= answers'[c]
        BY <1>3, <1>6
      <4>2. Ordered(Append(Sent(c), a), c, answers'[c])
        BY <2>1, <3>2, <4>1, OrderedAppend
      <4>3. Sent(c)' = Append(Sent(c), a) /\ \A d \in Conn : d # c => Sent(d)' = Sent(d)
        BY <2>3, <3>2
      <4>4. Ordered(Sent(c)', c, answers'[c])
        BY <4>2, <4>3
      <4>5. \A d \in Conn : d # c => Ordered(Sent(d)', d, answers'[d])
        BY <3>1, <4>3
      <4> SUFFICES ASSUME NEW d \in Conn PROVE Ordered(Sent(d)', d, answers'[d])
        OBVIOUS
      <4>6. CASE d = c
        BY <4>4, <4>6 DEF Ordered, Sent
      <4>7. CASE d # c
        BY <4>5, <4>7
      <4> QED
        BY <4>6, <4>7
    <3>3. CASE UNCHANGED outq
      BY <2>2, <3>1, <3>3
    <3>4. CASE UNCHANGED answers /\ Retried(c, f)
      BY <1>4, <3>2, <3>4 DEF Retried
    <3>5. ASSUME NEW a, NextAnswer(c, a), Written(c, f, a), answers' = [answers EXCEPT ![c] = @ + 1]
          PROVE  \A d \in Conn : Ordered(Sent(d)', d, answers'[d])
      <4>1. a \in Answer /\ a.conn = c /\ a.n = answers'[c] /\ a.n = answers[c] + 1 /\ answers[c] \in Nat
        BY <1>3, <3>5 DEF NextAnswer
      <4>2. \A i \in DOMAIN Sent(c) : Sent(c)[i] \in Answer /\ Sent(c)[i].n <= answers[c]
        BY <2>1 DEF Ordered
      <4>3. \A i \in DOMAIN Sent(c) : Sent(c)[i].n < a.n
        BY <4>1, <4>2 DEF Answer
      <4>4. a.n <= answers'[c] /\ outq' = [outq EXCEPT ![c] = Append(@, a)]
        BY <3>5, <4>1 DEF Written
      <4> QED
        BY <3>2, <4>1, <4>3, <4>4
    <3> QED
      BY <1>2, <3>3, <3>4, <3>5 DEF Ignored, Gone, Replied, Kept
  <2>5. ASSUME NEW g \in Fds, "write" \in interest'[g]
        PROVE  \E d \in Conn : /\ d = peers'[g] /\ toWrite'[g].n <= answers'[d]
                              /\ \A i \in DOMAIN Sent(d)' : Sent(d)'[i].n < toWrite'[g].n
    <3>1. ASSUME "write" \in interest[g], g # f \/ UNCHANGED <<toWrite, interest, outq, peers>>
          PROVE  \E d \in Conn : /\ d = peers'[g] /\ toWrite'[g].n <= answers'[d]
                                /\ \A i \in DOMAIN Sent(d)' : Sent(d)'[i].n < toWrite'[g].n
      <4>0. PICK d \in Conn : d = peers[g]
        BY <1>3, <3>1 DEF Inv, PeersAreOpen
      <4>1. d = peers[g] /\ peers'[g] = d /\ toWrite'[g] = toWrite[g]
        BY <1>3, <1>10, <3>1, <4>0
      <4>2. toWrite[g] \in Answer /\ toWrite[g].n <= answers[d] /\ answers[d] <= answers'[d]
            /\ answers[d] \in Nat /\ answers'[d] \in Nat
        BY <1>3, <1>6, <3>1, <4>1 DEF Inv, Events, Waits, InOrder
      <4>3. Sent(d)' = Sent(d)
        <5>1. CASE UNCHANGED outq
          BY <2>2, <4>1, <5>1
        <5>2. CASE g # f /\ d # c
          <6>1. outq'[d] = outq[d]
            BY <1>2, <1>3, <4>1, <5>2 DEF Ignored, Retried, Gone, Replied, Written, Kept
          <6> QED
            BY <1>1, <6>1 DEF Sent
        <5> QED
          BY <1>1, <1>3, <3>1, <4>1, <5>1, <5>2 DEF Inv, PeersAreOpen
      <4>4. \A i \in DOMAIN Sent(d) : Sent(d)[i].n < toWrite[g].n
        BY <3>1, <4>1 DEF Inv, InOrder
      <4>5. toWrite[g].n <= answers'[d]
        BY <4>2 DEF Answer
      <4> QED
        BY <4>1, <4>3, <4>4, <4>5
    <3>2. CASE g # f
      BY <1>10, <2>5, <3>1, <3>2
    <3>3. CASE g = f
      <4>1. CASE Ignored
        BY <2>5, <3>1, <4>1 DEF Ignored
      <4>2. CASE Retried(c, f) \/ Gone(c, f)
        BY <1>3, <2>5, <3>3, <4>2 DEF Retried, Gone
      <4>3. ASSUME NEW a, NextAnswer(c, a), Written(c, f, a)
            PROVE  FALSE
        BY <1>10, <2>5, <3>3, <4>3 DEF Written, Inv, Events, Waits
      <4>4. ASSUME NEW a, NextAnswer(c, a), Kept(f, a), answers' = [answers EXCEPT ![c] = @ + 1]
            PROVE  /\ c = peers'[g] /\ toWrite'[g].n <= answers'[c]
                   /\ \A i \in DOMAIN Sent(c)' : Sent(c)'[i].n < toWrite'[g].n
        <5>1. /\ a \in Answer /\ a.n = answers'[c] /\ a.n = answers[c] + 1 /\ answers[c] \in Nat
              /\ toWrite'[f] = a /\ peers'[f] = c
          BY <1>1, <1>3, <4>4 DEF NextAnswer, Kept
        <5>2. \A i \in DOMAIN Sent(c) : Sent(c)[i] \in Answer /\ Sent(c)[i].n <= answers[c]
          BY <2>1 DEF Ordered
        <5>3. \A i \in DOMAIN Sent(c) : Sent(c)[i].n < a.n
          BY <5>1, <5>2 DEF Answer
        <5>4. Sent(c)' = Sent(c)
          BY <2>2, <4>4 DEF Kept
        <5> QED
          BY <3>3, <5>1, <5>3, <5>4
      <4> QED
        BY <1>2, <4>1, <4>2, <4>3, <4>4 DEF Replied
    <3> QED
      BY <3>2, <3>3
  <2> QED
    BY <2>4, <2>5 DEF InOrder, Sent
<1> QED
  BY <1>1, <1>8, <1>9, <1>11, <1>12 DEF Inv, NeverThrows

LEMMA InvAlways == Spec => []Inv
<1>1. ASSUME Inv, [Next]_vars PROVE Inv'
  <2>1. ASSUME NEW c \in Conn, Client(c), HttpUnchanged PROVE Inv'
    BY <1>1, <2>1, ClientStep
  <2>2. CASE Listener /\ HttpUnchanged
    BY <1>1, <2>2, AcceptStep, LinkStep, WakeStep DEF Listener
  <2>3. CASE HandlePeer /\ HttpUnchanged
    BY <1>1, <2>3, HandlePeerStep
  <2>4. CASE (Poll \/ PopPeer \/ NoPeer) /\ HttpUnchanged
    BY <1>1, <2>4, PollStep, WakeStep
  <2>5. ASSUME NEW e \in batch, OnReadable(e) \/ (Retry(e) /\ HttpUnchanged) PROVE Inv'
    <3>1. peers[e.fd] \in Conn /\ e.fd \in Fds
      BY <1>1, EventFields
    <3>2. Handled(e, peers[e.fd], e.fd)
      BY <1>1, <2>5, EventHandled
    <3>3. \E c \in Conn, f \in Fds : Handled(e, c, f)
      BY <3>1, <3>2
    <3> QED
      BY <1>1, <3>3, EventStep
  <2>6. CASE UNCHANGED vars
    <3>1. /\ UNCHANGED <<backlog, fdOf, fin, outq, got, pushing, signalling, peersQueue, event,
                         hand, peers, toWrite, interest, batch, answers, crashed>>
          /\ UNCHANGED ready
      BY <2>6 DEF vars, tvars, clients, kernel, epoll, worker, queue
    <3>2. Types' /\ Events'
      BY <1>1, <3>1 DEF Inv, Types, TransportOK, Events, Waits
    <3>3. \A c \in Conn : Sent(c)' = Sent(c)
      BY <3>1 DEF Sent
    <3> QED
      BY <1>1, <3>1, <3>2, <3>3, Undisturbed DEF Inv, Arriving
  <2>7. \/ Worker \/ UNCHANGED vars \/ (Listener /\ HttpUnchanged)
        \/ \E c \in Conn : Client(c) /\ HttpUnchanged
    BY <1>1 DEF Next
  <2> QED
    BY <2>1, <2>2, <2>3, <2>4, <2>5, <2>6, <2>7 DEF Worker
<1> QED
  BY <1>1, InvInit, PTL DEF Spec

-------------------------------------------------------------------------------
(* Whatever the clients do and in whatever order the threads run: two      *)
(* connections never share a descriptor, and the descriptors the worker    *)
(* watches are those of the connections it knows (listener.cc, handlePeer, *)
(* handlePeerDisconnection).                                               *)
THEOREM DescriptorsAgree == Spec => []PeersAreOpen
<1>1. Inv => PeersAreOpen
  BY DEF Inv
<1> QED
  BY <1>1, InvAlways, PTL

(* The two throws of Transport::onReady are never reached.                 *)
THEOREM WorkerNeverThrows == Spec => []NeverThrows
<1>1. Inv => NeverThrows
  BY DEF Inv
<1> QED
  BY <1>1, InvAlways, PTL

(* The answers on their way to a client, and those that it has read, are   *)
(* to its own requests and in the order in which they were written; an     *)
(* answer left in toWrite by a connection that is gone reaches nobody.     *)
THEOREM AnswersStayInOrder == Spec => []AnswersToTheirClient
<1>1. Inv => AnswersToTheirClient
  BY DEF Inv, InOrder, Ordered, Sent, AnswersToTheirClient
<1> QED
  BY <1>1, InvAlways, PTL

-------------------------------------------------------------------------------
(* The least of a set of numbers, from the well-founded order.             *)
LEMMA Least == ASSUME NEW S \in SUBSET Nat, S # {} PROVE \E j \in S : \A k \in S : j <= k
<1> DEFINE R == OpToRel(<, Nat)
<1>1. IsWellFoundedOn(R, Nat)
  BY NatLessThanWellFounded
<1>2. \A x, y \in Nat : <<y, x>> \in R <=> y < x
  BY DEF OpToRel
<1> HIDE DEF R
<1>3. PICK j \in S : \A k \in S : ~(<<k, j>> \in R)
  BY <1>1, WFMin
<1>4. ASSUME NEW k \in S PROVE j <= k
  <2>1. ~(k < j)
    BY <1>2, <1>3
  <2> QED
    BY <2>1
<1> QED
  BY <1>4

(* Induction from M up to N, for a set instead of a predicate.            *)
LEMMA UpTo ==
    ASSUME NEW M \in Nat, NEW N \in Nat, NEW G, M \in G,
           \A n \in M .. N : n \in G /\ n < N => n + 1 \in G
    PROVE  \A n \in M .. N : n \in G
<1> DEFINE Bad == {n \in M .. N : n \notin G}
<1>1. SUFFICES ASSUME Bad # {} PROVE FALSE
  OBVIOUS
<1>2. Bad \in SUBSET Nat
  OBVIOUS
<1>3. PICK n \in Bad : \A k \in Bad : n <= k
  BY <1>1, <1>2, Least
<1>4. n \in M .. N /\ n \notin G /\ n # M
  BY <1>3
<1>5. n - 1 \in M .. N /\ n - 1 \notin Bad /\ (n - 1) + 1 = n /\ n - 1 < N
  BY <1>3, <1>4
<1> QED
  BY <1>4, <1>5

LEMMA FlattenTypes == ASSUME NEW S, NEW ss \in Seq(Seq(S)) PROVE FlattenSeq(ss) \in Seq(S)
<1>1. CASE Len(ss) = 0
  <2>1. FlattenSeq(ss) = ss /\ ss = <<>>
    BY <1>1 DEF FlattenSeq
  <2> QED
    BY <2>1
<1>2. CASE Len(ss) # 0
  <2> DEFINE Step(f, i) == IF i = 1 THEN ss[i] ELSE f[i-1] \o ss[i]
             IsFlat(f, n) == f = [i \in 1 .. n |-> Step(f, i)]
             flat == CHOOSE f : IsFlat(f, Len(ss))
             Exists == {n \in Nat : \E f : IsFlat(f, n)}
             Typed == {n \in Nat : flat[n] \in Seq(S)}
  <2>0. Len(ss) \in Nat /\ 1 \in 1 .. Len(ss) /\ Len(ss) \in 1 .. Len(ss)
        /\ \A i \in 1 .. Len(ss) : ss[i] \in Seq(S) /\ i \in Nat /\ i + 1 \in Nat
    BY <1>2
  <2>1. FlattenSeq(ss) = flat[Len(ss)]
    BY <1>2 DEF FlattenSeq
  <2>2. 1 \in Exists
    <3>1. IsFlat([i \in 1 .. 1 |-> ss[1]], 1)
      OBVIOUS
    <3> HIDE DEF IsFlat
    <3> QED
      BY <3>1
  <2>3. ASSUME NEW n \in 1 .. Len(ss), n \in Exists PROVE n + 1 \in Exists
    <3> DEFINE Longer(f) == [i \in 1 .. n + 1 |-> Step(f, i)]
    <3>1. PICK f : IsFlat(f, n)
      BY <2>3
    <3>2. \A i \in 1 .. n : f[i] = Step(f, i)
      BY <3>1
    <3>6. \A i \in 1 .. n : Longer(f)[i] = Step(f, i)
      BY <2>0
    <3>3. \A i \in 1 .. n + 1 : i # 1 => i - 1 \in 1 .. n
      BY <2>0
    <3>4. \A i \in 1 .. n + 1 : Step(f, i) = Step(Longer(f), i)
      BY <3>2, <3>3, <3>6
    <3>5. IsFlat(Longer(f), n + 1)
      BY <3>4
    <3> HIDE DEF IsFlat
    <3> QED
      BY <2>0, <3>5
  <2>4. Len(ss) \in Exists
    <3> HIDE DEF Exists
    <3> QED
      BY <2>0, <2>2, <2>3, UpTo
  <2>5. IsFlat(flat, Len(ss))
    <3>1. \E f : IsFlat(f, Len(ss))
      BY <2>4
    <3> HIDE DEF IsFlat
    <3> QED
      BY <3>1
  <2> HIDE DEF flat
  <2>6. \A i \in 1 .. Len(ss) : flat[i] = Step(flat, i)
    BY <2>5
  <2>7. 1 \in Typed
    BY <2>0, <2>6
  <2>8. ASSUME NEW n \in 1 .. Len(ss), n \in Typed, n < Len(ss) PROVE n + 1 \in Typed
    <3>1. n + 1 \in 1 .. Len(ss) /\ n + 1 # 1 /\ (n + 1) - 1 = n
      BY <2>0, <2>8
    <3>2. flat[n + 1] = flat[n] \o ss[n + 1] /\ flat[n] \in Seq(S) /\ ss[n + 1] \in Seq(S)
      BY <2>0, <2>6, <2>8, <3>1
    <3>3. flat[n + 1] \in Seq(S)
      BY <3>2
    <3> QED
      BY <2>0, <3>3
  <2>9. Len(ss) \in Typed
    <3> HIDE DEF Typed
    <3> QED
      BY <2>0, <2>7, <2>8, UpTo
  <2> QED
    BY <2>1, <2>9
<1> QED
  BY <1>1, <1>2

LEMMA FlattenOne == ASSUME NEW s PROVE FlattenSeq(<<s>>) = s
<1> DEFINE IsFlat(f) == f = [i \in 1 .. 1 |-> IF i = 1 THEN <<s>>[i] ELSE f[i-1] \o <<s>>[i]]
           flat == CHOOSE f : IsFlat(f)
<1>1. FlattenSeq(<<s>>) = flat[1]
  BY DEF FlattenSeq
<1>2. IsFlat([i \in 1 .. 1 |-> s])
  OBVIOUS
<1>3. IsFlat(flat)
  BY <1>2
<1> HIDE DEF flat
<1> QED
  BY <1>1, <1>3

-------------------------------------------------------------------------------
(* The units of a request.                                                 *)
Kinds == {"method", "line", "headers", "cr", "lf", "size", "data"}
UnitsOf(r) == {r.id} \X Kinds \X Nat

LEMMA WireTypes == ASSUME NEW r \in Requests PROVE Wire(r) \in Seq(UnitsOf(r)) /\ Payload(r) \in Seq(UnitsOf(r))
<1>1. \A kind \in Kinds, k \in Nat : Unit(r, kind, k) \in UnitsOf(r)
  BY DEF UnitsOf, Unit
<1>2. HeadOf(r) \in Seq(UnitsOf(r)) /\ EndOfLine(r) \in Seq(UnitsOf(r))
  <2>1. EndOfLine(r) \in Seq(UnitsOf(r))
    BY <1>1 DEF EndOfLine, Kinds
  <2>2. <<Unit(r, "method", 1), Unit(r, "method", 2), Unit(r, "line", 0), Unit(r, "headers", 0)>>
            \in Seq(UnitsOf(r))
    BY <1>1 DEF Kinds
  <2> QED
    BY <2>1, <2>2 DEF HeadOf
<1>3. ASSUME NEW chunk \in Seq(Nat)
      PROVE  BytesOf(r, chunk) \in Seq(UnitsOf(r)) /\ ChunkOf(r, chunk) \in Seq(UnitsOf(r))
  <2>1. BytesOf(r, chunk) \in Seq(UnitsOf(r))
    <3>1. \A k \in 1 .. Len(chunk) : chunk[k] \in Nat
      BY <1>3
    <3>2. \A k \in 1 .. Len(chunk) : Unit(r, "data", chunk[k]) \in UnitsOf(r)
      BY <1>1, <3>1 DEF Kinds
    <3> QED
      BY <3>2 DEF BytesOf
  <2>2. <<Unit(r, "size", Len(chunk))>> \in Seq(UnitsOf(r))
    <3>1. Len(chunk) \in Nat
      BY <1>3
    <3> QED
      BY <1>1, <3>1 DEF Kinds
  <2> QED
    BY <1>2, <2>1, <2>2 DEF ChunkOf
<1>4. r.body \in Seq(Seq(Nat)) /\ r.framing \in {"none", "length", "chunked"}
      /\ (r.framing = "length" => Len(r.body) = 1)
  BY RequestsAssumption
<1>5. /\ [i \in DOMAIN r.body |-> ChunkOf(r, r.body[i])] \in Seq(Seq(UnitsOf(r)))
      /\ [i \in DOMAIN r.body |-> BytesOf(r, r.body[i])] \in Seq(Seq(UnitsOf(r)))
  <2>1. \A i \in 1 .. Len(r.body) : r.body[i] \in Seq(Nat)
    BY <1>4
  <2>2. \A i \in 1 .. Len(r.body) : BytesOf(r, r.body[i]) \in Seq(UnitsOf(r))
                                  /\ ChunkOf(r, r.body[i]) \in Seq(UnitsOf(r))
    BY <1>3, <2>1
  <2>3. r.body \in Seq(Seq(Nat)) /\ DOMAIN r.body = 1 .. Len(r.body) /\ Len(r.body) \in Nat
    BY <1>4
  <2> QED
    BY <2>2, <2>3
<1>6. Payload(r) \in Seq(UnitsOf(r))
  BY <1>5, FlattenTypes DEF Payload
<1>7. CASE r.framing = "none"
  <2>1. Wire(r) = HeadOf(r) \o <<>>
    BY <1>7 DEF Wire
  <2> QED
    BY <1>2, <1>6, <2>1
<1>8. CASE r.framing = "length"
  <2>1. r.body[1] \in Seq(Nat)
    BY <1>4, <1>8
  <2> QED
    <3>1. Wire(r) = HeadOf(r) \o BytesOf(r, r.body[1])
      BY <1>8 DEF Wire
    <3> QED
      BY <1>2, <1>3, <1>6, <2>1, <3>1
<1>9. CASE r.framing = "chunked"
  <2>1. FlattenSeq([i \in DOMAIN r.body |-> ChunkOf(r, r.body[i])]) \in Seq(UnitsOf(r))
    BY <1>5, FlattenTypes
  <2>2. ChunkOf(r, <<>>) \in Seq(UnitsOf(r))
    <3>1. <<>> \in Seq(Nat)
      OBVIOUS
    <3> QED
      BY <1>3, <3>1
  <2> QED
    <3>1. Wire(r) = HeadOf(r) \o (FlattenSeq([i \in DOMAIN r.body |-> ChunkOf(r, r.body[i])])
                                      \o ChunkOf(r, <<>>))
      BY <1>9 DEF Wire
    <3> QED
      BY <1>2, <1>6, <2>1, <2>2, <3>1
<1> QED
  BY <1>4, <1>6, <1>7, <1>8, <1>9

LEMMA UnitsAre ==
    /\ \A r \in Requests : Wire(r) \in Seq(Units)
    /\ \A u \in Units : u[3] \in Nat /\ \E r \in Requests : u[1] = r.id
<1>1. ASSUME NEW r \in Requests PROVE Wire(r) \in Seq(Units)
  <2>1. Wire(r) \in Seq(UnitsOf(r))
    BY WireTypes
  <2>2. \A i \in 1 .. Len(Wire(r)) : Wire(r)[i] \in Units
    BY <2>1 DEF Units, ToSet
  <2> QED
    BY <2>1, <2>2
<1>2. ASSUME NEW u \in Units PROVE u[3] \in Nat /\ \E r \in Requests : u[1] = r.id
  <2>1. PICK r \in Requests : u \in ToSet(Wire(r))
    BY DEF Units
  <2>2. u \in UnitsOf(r)
    <3>1. Wire(r) \in Seq(UnitsOf(r))
      BY WireTypes
    <3> QED
      BY <2>1, <3>1 DEF ToSet
  <2> QED
    BY <2>2 DEF UnitsOf
<1> QED
  BY <1>1, <1>2

-------------------------------------------------------------------------------
Parsers ==
    [step : 1 .. 3, buf : Seq(Units), size : Nat, req : Requests \cup {NoRequest},
     body : Seq(Units), got : Nat, chunk : Nat \cup {Unknown}]

Sound(p) == p \in Parsers /\ (p.step = 1 <=> p.req = NoRequest) /\ Len(p.buf) <= p.size

(* What a step may do to a parser: take bytes from the front.              *)
Becomes(p, q) == Sound(q) /\ q.size = p.size

LEMMA TheOne == ASSUME NEW x PROVE The({x}) = x
  BY DEF The

LEMMA TakeDrop ==
    ASSUME NEW S, NEW s \in Seq(S), NEW n \in Nat, n <= Len(s)
    PROVE  /\ Drop(s, n) \in Seq(S) /\ Len(Drop(s, n)) = Len(s) - n
           /\ \A i \in 1 .. Len(s) - n : Drop(s, n)[i] = s[n + i]
           /\ Take(s, n) \in Seq(S) /\ Len(Take(s, n)) = n
           /\ \A i \in 1 .. n : Take(s, n)[i] = s[i]
  BY DEF Drop, Take

LEMMA UnitsTaken ==
    ASSUME NEW s \in Seq(Units), NEW n \in Nat, n <= Len(s)
    PROVE  /\ Drop(s, n) \in Seq(Units) /\ Len(Drop(s, n)) = Len(s) - n
           /\ Take(s, n) \in Seq(Units) /\ Len(Take(s, n)) = n
  BY TakeDrop

LEMMA RequestLineTypes ==
    ASSUME NEW p, Sound(p), p.step = 1
    PROVE  LET r == RequestLineStep(p)
           IN  /\ r.state \in {"Next", "Again", "Error"} /\ Becomes(p, r.p)
               /\ r.state = "Next" => r.p.step = 2
<1> DEFINE two == Len(p.buf) >= 2 /\ Kind(p.buf[1]) = "method" /\ Kind(p.buf[2]) = "method"
<1>1. p \in Parsers /\ p.buf \in Seq(Units) /\ Len(p.buf) <= p.size /\ p.size \in Nat
      /\ Len(p.buf) \in Nat
  BY DEF Sound, Parsers
<1>2. CASE ~two
  BY <1>2, <1>1 DEF RequestLineStep, Result, Becomes
<1>3. CASE two /\ Len(p.buf) = 2
  BY <1>3, <1>1 DEF RequestLineStep, Result, Becomes
<1>4. CASE two /\ Len(p.buf) # 2 /\ Kind(p.buf[3]) # "line"
  BY <1>4, <1>1 DEF RequestLineStep, Result, Becomes
<1>5. CASE two /\ Len(p.buf) # 2 /\ Kind(p.buf[3]) = "line"
  <2> DEFINE id == p.buf[1][1]
             req == CHOOSE r \in Requests : r.id = id
             q == [p EXCEPT !.step = 2, !.buf = Drop(@, 3), !.req = req]
  <2>1. RequestLineStep(p) = Result(q, "Next")
    BY <1>5 DEF RequestLineStep
  <2>2. req \in Requests
    <3>1. p.buf[1] \in Units
      BY <1>1, <1>5
    <3> QED
      BY <3>1, UnitsAre
  <2>3. req # NoRequest
    BY <2>2, ServerAssumption
  <2> HIDE DEF req
  <2>4. Drop(p.buf, 3) \in Seq(Units) /\ Len(Drop(p.buf, 3)) = Len(p.buf) - 3
    <3>1. \A n \in Nat : n >= 2 /\ n # 2 => 3 <= n
      OBVIOUS
    <3>2. 3 <= Len(p.buf)
      BY <1>1, <1>5, <3>1
    <3> QED
      BY <1>1, <3>2, UnitsTaken
  <2>5. q \in Parsers /\ q.step = 2 /\ q.req = req /\ q.buf = Drop(p.buf, 3) /\ q.size = p.size
    <3>1. 2 \in 1 .. 3
      OBVIOUS
    <3> QED
      BY <1>1, <2>2, <2>4, <3>1 DEF Parsers
  <2> HIDE DEF q
  <2>6. Becomes(p, q)
    BY <1>1, <2>3, <2>4, <2>5 DEF Becomes, Sound
  <2> QED
    BY <2>1, <2>5, <2>6 DEF Result
<1> QED
  BY <1>2, <1>3, <1>4, <1>5

LEMMA HeadersTypes ==
    ASSUME NEW p, Sound(p), p.step = 2
    PROVE  LET r == HeadersStep(p)
           IN  /\ r.state \in {"Next", "Again"} /\ Becomes(p, r.p)
               /\ r.state = "Next" => r.p.step = 3
<1> DEFINE whole == Len(p.buf) >= 3 /\ Kind(p.buf[2]) = "cr" /\ Kind(p.buf[3]) = "lf"
           q == [p EXCEPT !.step = 3, !.buf = Drop(@, 1)]
<1>1. p \in Parsers /\ p.buf \in Seq(Units) /\ Len(p.buf) <= p.size /\ p.size \in Nat
      /\ Len(p.buf) \in Nat
  BY DEF Sound, Parsers
<1>2. CASE ~whole
  BY <1>2 DEF HeadersStep, Result, Becomes
<1>3. CASE whole
  <2>1. HeadersStep(p) = Result(q, "Next")
    BY <1>3 DEF HeadersStep
  <2>2. Drop(p.buf, 1) \in Seq(Units) /\ Len(Drop(p.buf, 1)) = Len(p.buf) - 1
    <3>1. 1 <= Len(p.buf)
      BY <1>1, <1>3
    <3> QED
      BY <1>1, <3>1, UnitsTaken
  <2>3. q \in Parsers /\ q.step = 3 /\ q.req = p.req /\ q.buf = Drop(p.buf, 1) /\ q.size = p.size
    <3>1. 3 \in 1 .. 3
      OBVIOUS
    <3> QED
      BY <1>1, <2>2, <3>1 DEF Parsers
  <2> HIDE DEF q
  <2>4. Becomes(p, q)
    BY <1>1, <2>2, <2>3 DEF Becomes, Sound
  <2> QED
    BY <2>1, <2>3, <2>4 DEF Result
<1> QED
  BY <1>2, <1>3

(* The steps of the body stay at the request.                              *)
Stays(p, q) == Sound(q) /\ q.size = p.size /\ q.step = p.step /\ q.req = p.req

LEMMA SoundFields ==
    ASSUME NEW p, Sound(p)
    PROVE  /\ p \in Parsers /\ p.buf \in Seq(Units) /\ p.body \in Seq(Units)
           /\ Len(p.buf) \in Nat /\ Len(p.buf) <= p.size /\ p.size \in Nat
           /\ p.got \in Nat /\ p.chunk \in Nat \cup {Unknown} /\ p.step \in 1 .. 3
           /\ p.step # 1 => p.req \in Requests
  BY DEF Sound, Parsers

LEMMA StaysIf ==
    ASSUME NEW p, Sound(p), NEW q \in Parsers, q.size = p.size, q.step = p.step, q.req = p.req,
           Len(q.buf) \in Nat, Len(q.buf) <= Len(p.buf)
    PROVE  Stays(p, q)
  BY SoundFields DEF Stays, Sound

LEMMA Concatenated == ASSUME NEW s \in Seq(Units), NEW t \in Seq(Units) PROVE s \o t \in Seq(Units)
  OBVIOUS

LEMMA NoUnits == <<>> \in Seq(Units) /\ Len(<<>>) = 0 /\ 0 \in Nat
  OBVIOUS

LEMMA ContentLengthTypes ==
    ASSUME NEW p, Sound(p), p.step = 3
    PROVE  LET r == ParseContentLength(p)
           IN  r.state \in {"Again", "Done"} /\ Stays(p, r.p)
<1> DEFINE length == Len(Payload(p.req))
           short == length < p.got \/ Len(p.buf) < length - p.got
<1>1. /\ p \in Parsers /\ p.buf \in Seq(Units) /\ p.body \in Seq(Units) /\ Len(p.buf) \in Nat
      /\ p.got \in Nat /\ p.req \in Requests
  BY SoundFields
<1>2. length \in Nat
  <2>1. Payload(p.req) \in Seq(UnitsOf(p.req))
    BY <1>1, WireTypes
  <2> QED
    BY <2>1
<1> HIDE DEF length
<1>3. CASE short
  <2> DEFINE q == [p EXCEPT !.body = @ \o p.buf, !.got = @ + Len(p.buf), !.buf = <<>>]
  <2>1. ParseContentLength(p) = Result(q, "Again")
    BY <1>3 DEF ParseContentLength, length
  <2>2. p.got + Len(p.buf) \in Nat /\ p.body \o p.buf \in Seq(Units)
    BY <1>1, Concatenated
  <2>3. q \in Parsers /\ q.size = p.size /\ q.step = p.step /\ q.req = p.req /\ q.buf = <<>>
    BY <1>1, <2>2, NoUnits DEF Parsers
  <2> HIDE DEF q
  <2>4. Stays(p, q)
    BY <1>1, <2>3, NoUnits, StaysIf
  <2> QED
    BY <2>1, <2>4 DEF Result
<1>4. CASE ~short
  <2> DEFINE n == length - p.got
             q == [p EXCEPT !.body = @ \o Take(p.buf, n), !.got = 0, !.buf = Drop(@, n)]
  <2>1. ParseContentLength(p) = Result(q, "Done")
    BY <1>4 DEF ParseContentLength, length
  <2>2. n \in Nat /\ n <= Len(p.buf)
    BY <1>1, <1>2, <1>4
  <2> HIDE DEF n
  <2>3. /\ Take(p.buf, n) \in Seq(Units) /\ Drop(p.buf, n) \in Seq(Units)
        /\ Len(Drop(p.buf, n)) = Len(p.buf) - n
    BY <1>1, <2>2, UnitsTaken
  <2>4. p.body \o Take(p.buf, n) \in Seq(Units)
    BY <1>1, <2>3, Concatenated
  <2>5. q \in Parsers /\ q.size = p.size /\ q.step = p.step /\ q.req = p.req /\ q.buf = Drop(p.buf, n)
    BY <1>1, <2>3, <2>4, NoUnits DEF Parsers
  <2> HIDE DEF q
  <2>6. Len(q.buf) \in Nat /\ Len(q.buf) <= Len(p.buf)
    BY <1>1, <2>2, <2>3, <2>5
  <2>7. Stays(p, q)
    BY <1>1, <2>5, <2>6, StaysIf
  <2> QED
    BY <2>1, <2>7 DEF Result
<1> QED
  BY <1>3, <1>4

LEMMA SizeLineTypes ==
    ASSUME NEW p, Sound(p), p.step = 3
    PROVE  LET r == SizeLine(p)
           IN  /\ r.state \in {"Incomplete", "Sized", "Error"} /\ Stays(p, r.p)
               /\ r.state = "Sized" => r.p.chunk # Unknown
<1> DEFINE ends == {i \in 1 .. Len(p.buf) - 1 :
                       Kind(p.buf[i]) = "cr" /\ Kind(p.buf[i + 1]) = "lf"}
           i == CHOOSE j \in ends : \A k \in ends : j <= k
<1>1. /\ p \in Parsers /\ p.buf \in Seq(Units) /\ Len(p.buf) \in Nat
  BY SoundFields
<1>2. CASE ends = {}
  <2>1. SizeLine(p) = Result(p, "Incomplete")
    BY <1>2 DEF SizeLine
  <2> QED
    BY <1>1, <2>1 DEF Result, Stays
<1>3. CASE ends # {}
  <2>1. i \in ends
    <3>1. ends \in SUBSET Nat
      OBVIOUS
    <3>2. \E j \in ends : \A k \in ends : j <= k
      BY <1>3, <3>1, Least
    <3> HIDE DEF ends
    <3> QED
      BY <3>2
  <2> DEFINE a == Result([p EXCEPT !.chunk = 0, !.buf = Drop(@, 2)], "Sized")
             b == Result([p EXCEPT !.chunk = p.buf[1][3], !.buf = Drop(@, 3)], "Sized")
             size == Kind(p.buf[1]) = "size"
  <2>0. SizeLine(p) = CASE ends = {} -> Result(p, "Incomplete")
                        [] ends # {} /\ i = 1 -> a
                        [] ends # {} /\ i = 2 /\ size -> b
                        [] OTHER -> Result(p, "Error")
    BY Zenon DEF SizeLine
  <2>2. /\ i = 1 => SizeLine(p) = a
        /\ i = 2 /\ size => SizeLine(p) = b
        /\ i # 1 /\ ~(i = 2 /\ size) => SizeLine(p) = Result(p, "Error")
    <3> HIDE DEF a, b, size, ends, i
    <3> QED
      BY <1>3, <2>0
  <2> HIDE DEF i
  <2>3. i \in 1 .. Len(p.buf) - 1
    BY <2>1
  <2>7. i \in Nat /\ i + 1 <= Len(p.buf)
    BY <1>1, <2>3
  <2>4. CASE i = 1
    <3> DEFINE q == [p EXCEPT !.chunk = 0, !.buf = Drop(@, 2)]
    <3>1. SizeLine(p) = Result(q, "Sized")
      BY <2>2, <2>4
    <3>2. Drop(p.buf, 2) \in Seq(Units) /\ Len(Drop(p.buf, 2)) = Len(p.buf) - 2
      <4>1. 2 <= Len(p.buf)
        BY <1>1, <2>7, <2>4
      <4> QED
        BY <1>1, <4>1, UnitsTaken
    <3>3. q \in Parsers /\ q.size = p.size /\ q.step = p.step /\ q.req = p.req /\ q.buf = Drop(p.buf, 2)
          /\ q.chunk = 0
      BY <1>1, <3>2, NoUnits DEF Parsers
    <3> HIDE DEF q
    <3>4. Len(q.buf) \in Nat /\ Len(q.buf) <= Len(p.buf)
      BY <1>1, <2>7, <2>4, <3>2, <3>3
    <3>5. Stays(p, q)
      BY <3>3, <3>4, StaysIf
    <3> QED
      BY <3>1, <3>3, <3>5 DEF Result, Unknown
  <2>5. CASE i = 2 /\ Kind(p.buf[1]) = "size"
    <3> DEFINE q == [p EXCEPT !.chunk = p.buf[1][3], !.buf = Drop(@, 3)]
    <3>1. SizeLine(p) = Result(q, "Sized")
      BY <2>2, <2>5
    <3>2. Drop(p.buf, 3) \in Seq(Units) /\ Len(Drop(p.buf, 3)) = Len(p.buf) - 3
      <4>1. 3 <= Len(p.buf)
        BY <1>1, <2>7, <2>5
      <4> QED
        BY <1>1, <4>1, UnitsTaken
    <3>3. p.buf[1][3] \in Nat
      <4>1. p.buf[1] \in Units
        BY <1>1, <2>7, <2>5
      <4> QED
        BY <4>1, UnitsAre
    <3>4. q \in Parsers /\ q.size = p.size /\ q.step = p.step /\ q.req = p.req /\ q.buf = Drop(p.buf, 3)
          /\ q.chunk \in Nat
      BY <1>1, <3>2, <3>3 DEF Parsers
    <3> HIDE DEF q
    <3>5. Len(q.buf) \in Nat /\ Len(q.buf) <= Len(p.buf)
      BY <1>1, <2>7, <2>5, <3>2, <3>4
    <3>6. Stays(p, q)
      BY <3>4, <3>5, StaysIf
    <3> QED
      BY <3>1, <3>4, <3>6 DEF Result, Unknown
  <2>6. CASE i # 1 /\ ~(i = 2 /\ Kind(p.buf[1]) = "size")
    <3>1. SizeLine(p) = Result(p, "Error")
      BY <2>2, <2>6
    <3> QED
      BY <1>1, <3>1 DEF Result, Stays
  <2> QED
    BY <2>4, <2>5, <2>6
<1> QED
  BY <1>2, <1>3

LEMMA ChunkDataTypes ==
    ASSUME NEW p, Sound(p), p.step = 3, p.chunk # Unknown
    PROVE  LET r == ChunkData(p)
           IN  r.state \in {"Final", "Incomplete", "Complete"} /\ Stays(p, r.p)
<1>1. /\ p \in Parsers /\ p.buf \in Seq(Units) /\ p.body \in Seq(Units) /\ Len(p.buf) \in Nat
      /\ p.chunk \in Nat
  BY SoundFields
<1>2. CASE p.chunk = 0
  BY <1>2 DEF ChunkData, Result, Stays
<1>3. CASE p.chunk # 0 /\ Len(p.buf) < p.chunk
  <2> DEFINE q == [p EXCEPT !.body = @ \o p.buf, !.buf = <<>>]
  <2>1. ChunkData(p) = Result(q, "Incomplete")
    BY <1>3 DEF ChunkData
  <2>2. p.body \o p.buf \in Seq(Units)
    BY <1>1, Concatenated
  <2>3. q \in Parsers /\ q.size = p.size /\ q.step = p.step /\ q.req = p.req /\ q.buf = <<>>
    BY <1>1, <2>2, NoUnits DEF Parsers
  <2> HIDE DEF q
  <2>4. Stays(p, q)
    BY <1>1, <2>3, NoUnits, StaysIf
  <2> QED
    BY <2>1, <2>4 DEF Result
<1>4. CASE p.chunk # 0 /\ ~(Len(p.buf) < p.chunk) /\ Len(p.buf) < p.chunk + 2
  <2> DEFINE q == [p EXCEPT !.buf = Drop(@, p.chunk)]
  <2>1. ChunkData(p) = Result(q, "Incomplete")
    BY <1>4 DEF ChunkData
  <2>2. p.chunk <= Len(p.buf)
    BY <1>1, <1>4
  <2>3. Drop(p.buf, p.chunk) \in Seq(Units) /\ Len(Drop(p.buf, p.chunk)) = Len(p.buf) - p.chunk
    BY <1>1, <2>2, UnitsTaken
  <2>4. q \in Parsers /\ q.size = p.size /\ q.step = p.step /\ q.req = p.req /\ q.buf = Drop(p.buf, p.chunk)
    BY <1>1, <2>3 DEF Parsers
  <2> HIDE DEF q
  <2>5. Len(q.buf) \in Nat /\ Len(q.buf) <= Len(p.buf)
    BY <1>1, <2>2, <2>3, <2>4
  <2>6. Stays(p, q)
    BY <2>4, <2>5, StaysIf
  <2> QED
    BY <2>1, <2>6 DEF Result
<1>5. CASE p.chunk # 0 /\ ~(Len(p.buf) < p.chunk) /\ ~(Len(p.buf) < p.chunk + 2)
  <2> DEFINE n == p.chunk + 2
             q == [p EXCEPT !.body = @ \o Take(p.buf, p.chunk), !.buf = Drop(@, n), !.chunk = Unknown]
  <2>1. ChunkData(p) = Result(q, "Complete")
    BY <1>5 DEF ChunkData
  <2>2. p.chunk <= Len(p.buf) /\ n \in Nat /\ n <= Len(p.buf)
    BY <1>1, <1>5
  <2> HIDE DEF n
  <2>3. /\ Drop(p.buf, n) \in Seq(Units) /\ Len(Drop(p.buf, n)) = Len(p.buf) - n
        /\ Take(p.buf, p.chunk) \in Seq(Units)
    BY <1>1, <2>2, UnitsTaken
  <2>4. p.body \o Take(p.buf, p.chunk) \in Seq(Units)
    BY <1>1, <2>3, Concatenated
  <2>5. q \in Parsers /\ q.size = p.size /\ q.step = p.step /\ q.req = p.req /\ q.buf = Drop(p.buf, n)
    BY <1>1, <2>3, <2>4 DEF Parsers
  <2> HIDE DEF q
  <2>6. Len(q.buf) \in Nat /\ Len(q.buf) <= Len(p.buf)
    BY <1>1, <2>2, <2>3, <2>5
  <2>7. Stays(p, q)
    BY <2>5, <2>6, StaysIf
  <2> QED
    BY <2>1, <2>7 DEF Result
<1> QED
  BY <1>2, <1>3, <1>4, <1>5

LEMMA StaysTwice ==
    ASSUME NEW p, NEW q, NEW r, Stays(p, q), Stays(q, r) PROVE Stays(p, r)
  BY DEF Stays

ChunkStates == {"Final", "Incomplete", "Complete", "Error"}

LEMMA ChunkTypes ==
    ASSUME NEW p, Sound(p), p.step = 3
    PROVE  Chunk(p).state \in ChunkStates /\ Stays(p, Chunk(p).p)
<1>1. CASE p.chunk # Unknown
  BY <1>1, ChunkDataTypes DEF Chunk, ChunkStates
<1>2. CASE p.chunk = Unknown
  <2> DEFINE s == SizeLine(p)
  <2>1. s.state \in {"Incomplete", "Sized", "Error"} /\ Stays(p, s.p)
    BY SizeLineTypes
  <2>2. Chunk(p) = IF s.state = "Sized" THEN ChunkData(s.p) ELSE s
    <3> DEFINE F(x) == IF x.state = "Sized" THEN ChunkData(x.p) ELSE x
    <3>1. {F(x) : x \in {s}} = {F(s)}
      OBVIOUS
    <3>2. Chunk(p) = The({F(x) : x \in {s}})
      BY <1>2 DEF Chunk
    <3> HIDE DEF F
    <3>3. Chunk(p) = F(s)
      BY <3>1, <3>2, TheOne
    <3> QED
      BY <3>3 DEF F
  <2>3. CASE s.state # "Sized"
    BY <2>1, <2>2, <2>3 DEF ChunkStates
  <2>4. CASE s.state = "Sized"
    <3>1. Sound(s.p) /\ s.p.step = 3
      BY <2>1 DEF Stays
    <3>2. s.p.chunk # Unknown
      BY <2>4, SizeLineTypes
    <3>3. ChunkData(s.p).state \in {"Final", "Incomplete", "Complete"} /\ Stays(s.p, ChunkData(s.p).p)
      BY <3>1, <3>2, ChunkDataTypes
    <3> QED
      BY <2>1, <2>2, <2>4, <3>3, StaysTwice DEF ChunkStates
  <2> QED
    BY <2>3, <2>4
<1> QED
  BY <1>1, <1>2

LEMMA MoreTypes ==
    ASSUME NEW p, NEW c, c.state \in ChunkStates, p.step = 3, Stays(p, c.p)
    PROVE  More(c).state \in ChunkStates /\ Stays(p, More(c).p)
<1>1. CASE c.state = "Complete" /\ c.p.buf # <<>>
  <2>1. Sound(c.p) /\ c.p.step = 3
    BY DEF Stays
  <2>2. Chunk(c.p).state \in ChunkStates /\ Stays(c.p, Chunk(c.p).p)
    BY <2>1, ChunkTypes
  <2>3. Stays(p, Chunk(c.p).p)
    BY <2>2, StaysTwice
  <2> QED
    BY <1>1, <2>2, <2>3 DEF More
<1>2. CASE ~(c.state = "Complete" /\ c.p.buf # <<>>)
  BY <1>2 DEF More
<1> QED
  BY <1>1, <1>2

(* What the last of the chunks makes of the body.                         *)
Verdict(c) ==
    Result(c.p, CASE c.state = "Final" -> "Done"
                  [] c.state = "Error" -> "Error"
                  [] OTHER             -> "Again")

(* A chunked body is read chunk by chunk.                                  *)
ChunkByChunk(p, chunks) ==
    /\ ParseTransferEncoding(p) = Verdict(chunks[Len(p.req.body)])
    /\ chunks[0] = Chunk(p)
    /\ \A n \in 0 .. Len(p.req.body) : n < Len(p.req.body) => chunks[n + 1] = More(chunks[n])

LEMMA ChunksOneByOne ==
    ASSUME NEW p, Len(p.req.body) \in Nat
    PROVE  \E chunks : ChunkByChunk(p, chunks)
<1> DEFINE N == Len(p.req.body)
           Step(f, n) == IF n = 0 THEN Chunk(p) ELSE The({More(c) : c \in {f[n - 1]}})
           IsChunks(f, m) == f = [n \in 0 .. m |-> Step(f, n)]
           chunks == CHOOSE f : IsChunks(f, N)
           Exists == {m \in Nat : \E f : IsChunks(f, m)}
<1>1. N \in Nat
  OBVIOUS
<1>2. ParseTransferEncoding(p) = The({Verdict(c) : c \in {chunks[N]}})
  BY Zenon DEF ParseTransferEncoding, Verdict
<1> HIDE DEF N
<1>3. 0 \in Exists
  <2>1. IsChunks([n \in 0 .. 0 |-> Chunk(p)], 0)
    OBVIOUS
  <2> HIDE DEF IsChunks
  <2> QED
    BY <2>1
<1>4. ASSUME NEW m \in 0 .. N, m \in Exists PROVE m + 1 \in Exists
  <2> DEFINE Longer(f) == [n \in 0 .. m + 1 |-> Step(f, n)]
  <2>1. PICK f : IsChunks(f, m)
    BY <1>4
  <2>2. \A n \in 0 .. m : f[n] = Step(f, n)
    BY <2>1
  <2>3. \A n \in 0 .. m : Longer(f)[n] = Step(f, n)
    BY <1>4
  <2>4. \A n \in 0 .. m + 1 : n # 0 => n - 1 \in 0 .. m
    BY <1>4
  <2>5. \A n \in 0 .. m + 1 : n # 0 => f[n - 1] = Longer(f)[n - 1]
    <3> HIDE DEF Longer, Step
    <3> QED
      BY <2>2, <2>3, <2>4
  <2>6. \A n \in 0 .. m + 1 : Step(f, n) = Step(Longer(f), n)
    <3> HIDE DEF Longer
    <3> QED
      BY <2>5
  <2>7. IsChunks(Longer(f), m + 1)
    BY <2>6
  <2> HIDE DEF IsChunks
  <2>8. m + 1 \in Nat
    BY <1>4
  <2> QED
    BY <2>7, <2>8
<1>5. IsChunks(chunks, N)
  <2>1. N \in 0 .. N /\ 0 \in Nat
    BY <1>1
  <2>2. N \in Exists
    <3> HIDE DEF Exists
    <3> QED
      BY <1>1, <1>3, <1>4, <2>1, UpTo
  <2>3. \E f : IsChunks(f, N)
    BY <2>2
  <2> HIDE DEF IsChunks
  <2> QED
    BY <2>3
<1> HIDE DEF chunks
<1>6. \A n \in 0 .. N : chunks[n] = Step(chunks, n)
  BY <1>5
<1>7. chunks[0] = Chunk(p)
  <2>1. 0 \in 0 .. N
    BY <1>1
  <2> QED
    BY <1>6, <2>1
<1>8. ASSUME NEW n \in 0 .. N, n < N PROVE chunks[n + 1] = More(chunks[n])
  <2>1. n + 1 \in 0 .. N /\ n + 1 # 0 /\ (n + 1) - 1 = n
    BY <1>1, <1>8
  <2>2. chunks[n + 1] = The({More(c) : c \in {chunks[n]}})
    BY <1>6, <2>1
  <2>3. {More(c) : c \in {chunks[n]}} = {More(chunks[n])}
    OBVIOUS
  <2> QED
    BY <2>2, <2>3, TheOne
<1>9. ParseTransferEncoding(p) = Verdict(chunks[N])
  <2>1. {Verdict(c) : c \in {chunks[N]}} = {Verdict(chunks[N])}
    OBVIOUS
  <2> QED
    BY <1>2, <2>1, TheOne
<1>10. ChunkByChunk(p, chunks)
  BY <1>7, <1>8, <1>9 DEF ChunkByChunk, N
<1> QED
  BY <1>10

(* The chunks of a body, one after the other.                              *)
LEMMA TransferEncodingTypes ==
    ASSUME NEW p, Sound(p), p.step = 3
    PROVE  LET r == ParseTransferEncoding(p)
           IN  r.state \in {"Again", "Done", "Error"} /\ Stays(p, r.p)
<1> DEFINE N == Len(p.req.body)
<1>1. N \in Nat
  BY SoundFields, RequestsAssumption
<1>2. PICK chunks : ChunkByChunk(p, chunks)
  BY <1>1, ChunksOneByOne
<1> DEFINE Typed == {n \in Nat : chunks[n].state \in ChunkStates /\ Stays(p, chunks[n].p)}
<1>3. 0 \in Typed
  BY <1>2, ChunkTypes DEF ChunkByChunk
<1>4. ASSUME NEW n \in 0 .. N, n \in Typed, n < N PROVE n + 1 \in Typed
  <2>1. n + 1 \in Nat /\ chunks[n + 1] = More(chunks[n])
    BY <1>2, <1>4 DEF ChunkByChunk
  <2>2. chunks[n].state \in ChunkStates /\ Stays(p, chunks[n].p)
    BY <1>4
  <2> QED
    BY <2>1, <2>2, MoreTypes
<1>5. chunks[N].state \in ChunkStates /\ Stays(p, chunks[N].p)
  <2>1. N \in 0 .. N /\ 0 \in Nat
    BY <1>1
  <2>2. N \in Typed
    <3> HIDE DEF Typed, N
    <3> QED
      BY <1>1, <1>3, <1>4, <2>1, UpTo
  <2> QED
    BY <2>2
<1>6. ParseTransferEncoding(p) = Verdict(chunks[N])
  BY <1>2 DEF ChunkByChunk
<1> QED
  BY <1>5, <1>6 DEF Result, Verdict

BodyStates == {"Again", "Done", "Error"}

LEMMA BodyTypes ==
    ASSUME NEW p, Sound(p), p.step = 3
    PROVE  BodyStep(p).state \in BodyStates /\ Stays(p, BodyStep(p).p)
<1>1. CASE p.body = <<>> /\ Len(p.buf) < 2
  BY <1>1 DEF BodyStep, Result, Stays, BodyStates
<1>2. CASE ~(p.body = <<>> /\ Len(p.buf) < 2)
  <2> DEFINE q == SkipEmptyLine(p)
  <2>1. BodyStep(p) = ReadBody(q)
    <3>1. {ReadBody(x) : x \in {q}} = {ReadBody(q)}
      OBVIOUS
    <3>2. BodyStep(p) = The({ReadBody(x) : x \in {q}})
      BY <1>2, Zenon DEF BodyStep
    <3> QED
      BY <3>1, <3>2, TheOne
  <2>2. Stays(p, q)
    <3>1. CASE p.body # <<>>
      BY <3>1 DEF SkipEmptyLine, Stays
    <3>2. CASE p.body = <<>>
      <4> DEFINE s == [p EXCEPT !.buf = Drop(@, 2)]
      <4>1. q = s
        BY <3>2 DEF SkipEmptyLine
      <4>2. p \in Parsers /\ p.buf \in Seq(Units) /\ Len(p.buf) \in Nat /\ 2 <= Len(p.buf)
        BY <1>2, <3>2, SoundFields
      <4>3. Drop(p.buf, 2) \in Seq(Units) /\ Len(Drop(p.buf, 2)) = Len(p.buf) - 2
        BY <4>2, UnitsTaken
      <4>4. s \in Parsers /\ s.size = p.size /\ s.step = p.step /\ s.req = p.req /\ s.buf = Drop(p.buf, 2)
        BY <4>2, <4>3 DEF Parsers
      <4> HIDE DEF s
      <4>5. Len(s.buf) \in Nat /\ Len(s.buf) <= Len(p.buf)
        BY <4>2, <4>3, <4>4
      <4> QED
        BY <4>1, <4>4, <4>5, StaysIf
    <3> QED
      BY <3>1, <3>2
  <2> HIDE DEF q
  <2>3. Sound(q) /\ q.step = 3 /\ q.req \in Requests
    BY <2>2, SoundFields DEF Stays
  <2>4. ReadBody(q).state \in BodyStates /\ Stays(q, ReadBody(q).p)
    <3>1. CASE q.req.framing = "none"
      BY <2>3, <3>1 DEF ReadBody, Result, Stays, BodyStates
    <3>2. CASE q.req.framing = "length"
      BY <2>3, <3>2, ContentLengthTypes DEF ReadBody, BodyStates
    <3>3. CASE q.req.framing = "chunked"
      BY <2>3, <3>3, TransferEncodingTypes DEF ReadBody, BodyStates
    <3> QED
      BY <2>3, <3>1, <3>2, <3>3, RequestsAssumption
  <2> QED
    BY <2>1, <2>2, <2>4, StaysTwice
<1> QED
  BY <1>1, <1>2

(* Whatever the bytes, a parser stays a parser, and what is done was a     *)
(* request.                                                                *)
LEMMA ParseTypes ==
    ASSUME NEW p, Sound(p)
    PROVE  /\ Parse(p).state \in BodyStates /\ Sound(Parse(p).p) /\ Parse(p).p.size = p.size
           /\ Parse(p).state = "Done" => Parse(p).p.step = 3
<1> DEFINE OK(r) == /\ r.state \in BodyStates \cup {"Next"} /\ Sound(r.p) /\ r.p.size = p.size
                    /\ r.state = "Done" => r.p.step = 3
<1>1. ASSUME NEW q, Sound(q), q.size = p.size
      PROVE  /\ OK(Apply(q))
             /\ q.step = 1 /\ Apply(q).state = "Next" => Apply(q).p.step = 2
             /\ q.step = 2 /\ Apply(q).state = "Next" => Apply(q).p.step = 3
             /\ q.step = 3 => Apply(q).state # "Next"
  <2>1. q.step \in {1, 2, 3}
    BY <1>1, SoundFields
  <2>2. CASE q.step = 1
    BY <1>1, <2>2, RequestLineTypes DEF Apply, Becomes, BodyStates
  <2>3. CASE q.step = 2
    BY <1>1, <2>3, HeadersTypes DEF Apply, Becomes, BodyStates
  <2>4. CASE q.step = 3
    BY <1>1, <2>4, BodyTypes DEF Apply, Stays, BodyStates
  <2> QED
    BY <2>1, <2>2, <2>3, <2>4
<1> DEFINE a == Apply(p)
           b == Proceed(a)
<1>2. Parse(p) = Proceed(b)
  <2>1. {Proceed(l) : l \in {a}} = {b}
    OBVIOUS
  <2>2. {Proceed(r) : r \in {b}} = {Proceed(b)}
    OBVIOUS
  <2>3. Parse(p) = The({Proceed(r) : r \in {Proceed(l) : l \in {a}}})
    BY DEF Parse
  <2> HIDE DEF a, b
  <2> QED
    BY <2>1, <2>2, <2>3, TheOne
<1>3. OK(a) /\ (a.state = "Next" => a.p.step \in {2, 3})
  <2>1. p.step \in {1, 2, 3}
    BY SoundFields
  <2> HIDE DEF OK
  <2> QED
    BY <1>1, <2>1
<1>4. OK(b) /\ (b.state = "Next" => b.p.step = 3)
  <2>1. CASE a.state = "Next"
    <3>1. Sound(a.p) /\ a.p.size = p.size
      BY <1>3
    <3> HIDE DEF OK
    <3> QED
      BY <1>1, <1>3, <2>1, <3>1 DEF Proceed
  <2>2. CASE a.state # "Next"
    BY <1>3, <2>2 DEF Proceed
  <2> QED
    BY <2>1, <2>2
<1>5. OK(Proceed(b)) /\ Proceed(b).state # "Next"
  <2>1. CASE b.state = "Next"
    <3>1. Sound(b.p) /\ b.p.size = p.size
      BY <1>4
    <3> HIDE DEF OK
    <3> QED
      BY <1>1, <1>4, <2>1, <3>1 DEF Proceed
  <2>2. CASE b.state # "Next"
    BY <1>4, <2>2 DEF Proceed
  <2> QED
    BY <2>1, <2>2
<1> QED
  BY <1>2, <1>5

-------------------------------------------------------------------------------
Segments == [bytes : Seq(Units), after : Nat]

(* What the handler of a route gets.                                       *)
Deliveries ==
    {[req |-> r, body |-> b, route |-> Route(r.method, r.path)] : r \in Requests, b \in Seq(Units)}

Parsing ==
    /\ inq \in [Conn -> Seq(Units)] /\ rest \in [Conn -> Seq(Segments)]
    /\ parser \in [Conn -> Parsers]
    /\ \A c \in Conn : Sound(parser[c]) /\ (parser[c].size = 0 \/ parser[c].size < MaxBuffer)
    /\ handled \in [Conn -> Seq(Deliveries)]

LEMMA NewTypes == Sound(NewParser) /\ NewParser.size = 0
<1>1. 1 \in 1 .. 3 /\ 0 \in Nat /\ <<>> \in Seq(Units)
  OBVIOUS
<1>2. NewParser \in Parsers
  BY <1>1 DEF NewParser, Parsers
<1> QED
  BY <1>2, NoUnits DEF NewParser, Sound

LEMMA ResetTypes ==
    ASSUME NEW p \in Parsers
    PROVE  Sound(Reset(p)) /\ Reset(p).size = 0
<1> DEFINE q == Reset(p)
<1>1. 1 \in 1 .. 3 /\ 0 \in Nat /\ <<>> \in Seq(Units) /\ NoRequest \in Requests \cup {NoRequest}
  OBVIOUS
<1>2. q \in Parsers /\ q.step = 1 /\ q.req = NoRequest /\ q.buf = <<>> /\ q.size = 0
  BY <1>1 DEF Reset, Parsers
<1> HIDE DEF q
<1>3. Len(q.buf) = 0 /\ Len(q.buf) <= q.size
  <2>1. Len(q.buf) = 0
    BY <1>2, NoUnits
  <2> QED
    BY <1>2, <2>1
<1>4. Sound(q)
  BY <1>2, <1>3 DEF Sound
<1> QED
  BY <1>2, <1>4 DEF q

LEMMA FeedTypes ==
    ASSUME NEW p, Sound(p), NEW s \in Seq(Units)
    PROVE  Sound(Feed(p, s)) /\ Feed(p, s).size = p.size + Len(s)
<1> DEFINE q == Feed(p, s)
<1>1. /\ p \in Parsers /\ p.buf \in Seq(Units) /\ Len(p.buf) \in Nat /\ Len(p.buf) <= p.size /\ p.size \in Nat
      /\ (p.step = 1 <=> p.req = NoRequest)
  BY SoundFields DEF Sound
<1>2. p.size + Len(s) \in Nat /\ p.buf \o s \in Seq(Units) /\ Len(p.buf \o s) = Len(p.buf) + Len(s)
      /\ Len(p.buf) + Len(s) <= p.size + Len(s)
  BY <1>1
<1>3. q \in Parsers /\ q.step = p.step /\ q.req = p.req /\ q.buf = p.buf \o s /\ q.size = p.size + Len(s)
  BY <1>1, <1>2 DEF Feed, Parsers
<1> HIDE DEF q
<1>4. Sound(q)
  BY <1>1, <1>2, <1>3 DEF Sound
<1> QED
  BY <1>3, <1>4 DEF q

(* A readable event of the batch is still one: only handling it takes the  *)
(* input of its connection.                                                *)
HasInput(c) == inq[c] # <<>> \/ fin[c]
Inputs == \A e \in batch : "read" \in e.flags => HasInput(peers[e.fd])

(* Handling input: the parser of one connection is fed with all that was   *)
(* received, and reset unless it needs more.                               *)
Fed(c) ==
    LET p == Feed(parser[c], inq[c])
        r == Parse(p)
    IN  /\ ~fin[c] /\ Len(inq[c]) < MaxBuffer
        /\ inq' = [inq EXCEPT ![c] = <<>>] /\ UNCHANGED <<rest, fin, fdOf, queue, peers, backlog, got>>
        /\ \/ /\ ~Fits(parser[c], inq[c])
              /\ parser' = [parser EXCEPT ![c] = Reset(parser[c])]
              /\ UNCHANGED handled
              /\ answers' = [answers EXCEPT ![c] = @ + 1]
           \/ /\ Fits(parser[c], inq[c]) /\ r.state = "Again"
              /\ parser' = [parser EXCEPT ![c] = r.p]
              /\ UNCHANGED <<handled, answers>>
           \/ /\ Fits(parser[c], inq[c]) /\ r.state = "Error"
              /\ parser' = [parser EXCEPT ![c] = Reset(r.p)]
              /\ UNCHANGED handled
              /\ answers' = [answers EXCEPT ![c] = @ + 1]
           \/ /\ Fits(parser[c], inq[c]) /\ r.state = "Done"
              /\ parser' = [parser EXCEPT ![c] = Reset(r.p)]
              /\ handled' = [handled EXCEPT ![c] = Append(@, Routed(r.p))]
              /\ answers' = [answers EXCEPT ![c] = @ + 1]

(* Every other step leaves parsers alone; the bytes received are dropped   *)
(* in part, or continued by the next segment.                              *)
Dropped(c) ==
    /\ fin[c] \/ Len(inq[c]) >= MaxBuffer
    /\ inq' = [inq EXCEPT ![c] = <<>>] \/ inq' = [inq EXCEPT ![c] = SubSeq(@, MaxBuffer + 1, Len(@))]
    /\ UNCHANGED <<rest, fin, got>>

Arrived(c) ==
    /\ ~fin[c] /\ rest[c] # <<>> /\ Head(rest[c]).after <= Len(got[c])
    /\ rest' = [rest EXCEPT ![c] = Tail(@)]
    /\ inq' = [inq EXCEPT ![c] = @ \o Head(rest[c]).bytes]
    /\ UNCHANGED <<fin, got>>

Closed == \E c \in Conn : fin' = [fin EXCEPT ![c] = TRUE] /\ UNCHANGED got

LEMMA StepIs ==
    ASSUME Inv, Parsing, [Next]_vars
    PROVE  \/ \E c \in Conn : Fed(c) /\ (Inputs => inq[c] # <<>>)
           \/ /\ UNCHANGED <<parser, handled, answers>>
              /\ \/ \E c \in Conn : Arrived(c) \/ Dropped(c)
                 \/ UNCHANGED <<inq, rest>> /\ (UNCHANGED fin \/ Closed)
<1>1. CASE UNCHANGED vars
  BY <1>1 DEF vars, tvars, clients, kernel
<1>2. ASSUME NEW c \in Conn, Client(c), HttpUnchanged
      PROVE  /\ UNCHANGED <<parser, handled, answers>>
             /\ Arrived(c) \/ (UNCHANGED <<inq, rest>> /\ (UNCHANGED fin \/ Closed))
  BY <1>2 DEF Client, Send, Close, ReadAnswer, HttpUnchanged, kernel, Arrived, Closed
<1>3. CASE Listener /\ HttpUnchanged
  BY <1>3 DEF Listener, Accept, Link, Signal, HttpUnchanged, clients, kernel
<1>4. CASE (Poll \/ PopPeer \/ NoPeer \/ HandlePeer) /\ HttpUnchanged
  BY <1>4 DEF HandlePeer, Poll, PopPeer, NoPeer, HttpUnchanged, clients, kernel
<1>5. ASSUME NEW e \in batch, OnReadable(e) \/ (Retry(e) /\ HttpUnchanged)
      PROVE  \/ \E c \in Conn : Fed(c) /\ (Inputs => inq[c] # <<>>)
             \/ /\ UNCHANGED <<parser, handled, answers>>
                /\ \/ \E c \in Conn : Dropped(c)
                   \/ UNCHANGED <<inq, rest, fin>>
  <2> DEFINE c == peers[e.fd]
  <2>1. c \in Conn
    BY EventFields
  <2>2. CASE Retry(e) /\ HttpUnchanged
    BY <2>2 DEF Retry, Throws, SendWaiting, HttpUnchanged, clients, kernel
  <2>3. CASE IsUnknown(e) /\ Throws /\ HttpUnchanged
    BY <2>3 DEF Throws, HttpUnchanged, clients, kernel
  <2>4. CASE Disconnect(e) /\ HttpUnchanged
    BY <2>1, <2>4 DEF Disconnect, Ends, Dropped, HttpUnchanged, clients
  <2>5. CASE Overflow(e) /\ HttpUnchanged
    BY <2>1, <2>5 DEF Overflow, TooLong, Dropped, HttpUnchanged, clients
  <2>6. CASE OnReadable(e) /\ OnInput(e)
    <3>1. /\ ~fin[c] /\ ~(Len(inq[c]) >= MaxBuffer)
          /\ inq' = [inq EXCEPT ![c] = <<>>] /\ UNCHANGED <<rest, fin, fdOf, queue, peers, backlog, got>>
      BY <2>6 DEF OnInput, Incoming, Ends, TooLong, clients
    <3>2. Len(inq[c]) < MaxBuffer
      <4>1. Len(inq[c]) \in Nat /\ MaxBuffer \in Nat
        BY <2>1, TransportAssumption DEF Parsing
      <4> QED
        BY <3>1, <4>1
    <3>3. \E r \in {Parse(Feed(parser[c], inq[c]))} :
           \/ /\ ~Fits(parser[c], inq[c])
              /\ parser' = [parser EXCEPT ![c] = Reset(parser[c])]
              /\ UNCHANGED handled
              /\ answers' = [answers EXCEPT ![c] = @ + 1]
           \/ /\ Fits(parser[c], inq[c]) /\ r.state = "Again"
              /\ parser' = [parser EXCEPT ![c] = r.p]
              /\ UNCHANGED <<handled, answers>>
           \/ /\ Fits(parser[c], inq[c]) /\ r.state = "Error"
              /\ parser' = [parser EXCEPT ![c] = Reset(r.p)]
              /\ UNCHANGED handled
              /\ answers' = [answers EXCEPT ![c] = @ + 1]
           \/ /\ Fits(parser[c], inq[c]) /\ r.state = "Done"
              /\ parser' = [parser EXCEPT ![c] = Reset(r.p)]
              /\ handled' = [handled EXCEPT ![c] = Append(@, Routed(r.p))]
              /\ answers' = [answers EXCEPT ![c] = @ + 1]
      BY <2>6, Zenon DEF OnInput, Reply, Received
    <3>4. Fed(c)
      BY <3>1, <3>2, <3>3, Zenon DEF Fed
    <3>5. ASSUME Inputs PROVE inq[c] # <<>>
      <4>1. "read" \in e.flags
        BY <2>6 DEF OnReadable, Readable
      <4> QED
        BY <3>1, <3>5, <4>1 DEF Inputs, HasInput
    <3> HIDE DEF c
    <3> QED
      BY <2>1, <3>4, <3>5
  <2> QED
    BY <1>5, <2>2, <2>3, <2>4, <2>5, <2>6 DEF OnReadable
<1> QED
  BY <1>1, <1>2, <1>3, <1>4, <1>5 DEF Next, Worker

LEMMA ParsingInit == Init => Parsing
<1> SUFFICES ASSUME Init PROVE Parsing
  OBVIOUS
<1>1. inq \in [Conn -> Seq(Units)]
  BY NoUnits DEF Init, TransportInit
<1>2. rest \in [Conn -> Seq(Segments)]
  <2>1. \A c \in Conn : rest[c] \in Scripts[c] /\ Scripts[c] \subseteq Seq(Segments)
    BY ScriptsAssumption DEF Init, TransportInit, Segments
  <2>2. rest \in [Conn -> UNION {Scripts[c] : c \in Conn}]
    BY DEF Init, TransportInit
  <2> QED
    BY <2>1, <2>2
<1>3. /\ parser \in [Conn -> Parsers]
      /\ \A c \in Conn : Sound(parser[c]) /\ parser[c].size = 0
  <2>1. NewParser \in Parsers
    BY NewTypes DEF Sound
  <2> QED
    BY <2>1, NewTypes DEF Init
<1>4. handled \in [Conn -> Seq(Deliveries)]
  <2>1. <<>> \in Seq(Deliveries)
    OBVIOUS
  <2> QED
    BY <2>1 DEF Init
<1> QED
  BY <1>1, <1>2, <1>3, <1>4 DEF Parsing

Small(p) == Sound(p) /\ (p.size = 0 \/ p.size < MaxBuffer)

LEMMA FedParsing ==
    ASSUME Parsing, NEW c \in Conn, Fed(c)
    PROVE  Parsing'
<1> DEFINE p == Feed(parser[c], inq[c])
           r == Parse(p)
<1>1. Sound(parser[c]) /\ inq[c] \in Seq(Units) /\ parser[c] \in Parsers
  BY DEF Parsing
<1>2. Sound(p) /\ p.size = parser[c].size + Len(inq[c])
  BY <1>1, FeedTypes
<1>3. Sound(r.p) /\ r.p \in Parsers /\ r.p.size = p.size /\ (r.state = "Done" => r.p.step = 3)
  BY <1>2, ParseTypes DEF Sound
<1>4. Small(Reset(parser[c])) /\ Small(Reset(r.p))
  BY <1>1, <1>3, ResetTypes DEF Small
<1>5. Fits(parser[c], inq[c]) => Small(r.p)
  BY <1>2, <1>3 DEF Fits, Small
<1> HIDE DEF r, p
<1>6. \E q : Small(q) /\ parser' = [parser EXCEPT ![c] = q]
  BY <1>4, <1>5 DEF Fed, r, p
<1>7. /\ parser' \in [Conn -> Parsers]
      /\ \A d \in Conn : Small(parser'[d])
  <2>1. PICK q : Small(q) /\ parser' = [parser EXCEPT ![c] = q]
    BY <1>6
  <2>2. parser \in [Conn -> Parsers] /\ (\A d \in Conn : Small(parser[d])) /\ q \in Parsers
    BY <2>1 DEF Parsing, Small, Sound
  <2> QED
    BY <2>1, <2>2
<1>8. handled' \in [Conn -> Seq(Deliveries)]
  <2>1. handled \in [Conn -> Seq(Deliveries)]
    BY DEF Parsing
  <2>2. CASE UNCHANGED handled
    BY <2>1, <2>2
  <2>3. CASE r.state = "Done" /\ handled' = [handled EXCEPT ![c] = Append(@, Routed(r.p))]
    <3>1. r.p.req \in Requests /\ r.p.body \in Seq(Units)
      BY <1>3, <2>3, SoundFields
    <3>2. Routed(r.p) \in Deliveries
      BY <3>1 DEF Routed, Deliveries
    <3> QED
      BY <2>1, <2>3, <3>2
  <2> QED
    BY <2>2, <2>3 DEF Fed, r, p
<1>9. inq' \in [Conn -> Seq(Units)] /\ rest' \in [Conn -> Seq(Segments)]
  BY NoUnits DEF Fed, Parsing
<1> QED
  BY <1>7, <1>8, <1>9 DEF Parsing, Small

LEMMA ParsingStep ==
    ASSUME Inv, Parsing, [Next]_vars
    PROVE  Parsing'
<1>1. CASE \E c \in Conn : Fed(c)
  BY <1>1, FedParsing
<1>2. CASE /\ UNCHANGED <<parser, handled, answers>>
           /\ \/ \E c \in Conn : Arrived(c) \/ Dropped(c)
              \/ UNCHANGED <<inq, rest>>
  <2>1. inq' \in [Conn -> Seq(Units)] /\ rest' \in [Conn -> Seq(Segments)]
    <3>0. inq \in [Conn -> Seq(Units)] /\ rest \in [Conn -> Seq(Segments)]
      BY DEF Parsing
    <3>1. ASSUME NEW c \in Conn, Arrived(c)
          PROVE  inq' \in [Conn -> Seq(Units)] /\ rest' \in [Conn -> Seq(Segments)]
      <4>1. rest[c] \in Seq(Segments) /\ rest[c] # <<>> /\ inq[c] \in Seq(Units)
        BY <3>0, <3>1 DEF Arrived
      <4>2. Head(rest[c]) \in Segments /\ Tail(rest[c]) \in Seq(Segments)
        BY <4>1
      <4>3. Head(rest[c]).bytes \in Seq(Units)
        BY <4>2 DEF Segments
      <4>4. inq[c] \o Head(rest[c]).bytes \in Seq(Units)
        BY <4>1, <4>3, Concatenated
      <4> QED
        BY <3>0, <3>1, <4>2, <4>4 DEF Arrived
    <3>2. ASSUME NEW c \in Conn, Dropped(c)
          PROVE  inq' \in [Conn -> Seq(Units)] /\ rest' \in [Conn -> Seq(Segments)]
      <4>1. inq[c] \in Seq(Units) /\ MaxBuffer + 1 \in Nat
        BY <3>0, TransportAssumption
      <4>2. SubSeq(inq[c], MaxBuffer + 1, Len(inq[c])) \in Seq(Units)
        <5>1. \A m \in Nat, n \in Nat : \A s \in Seq(Units) : m >= 1 /\ n <= Len(s) => SubSeq(s, m, n) \in Seq(Units)
          OBVIOUS
        <5>2. MaxBuffer + 1 >= 1 /\ Len(inq[c]) \in Nat
          BY <4>1, TransportAssumption
        <5> QED
          BY <4>1, <5>1, <5>2
      <4> QED
        BY <3>0, <3>2, <4>2, NoUnits DEF Dropped
    <3> QED
      BY <1>2, <3>0, <3>1, <3>2
  <2> QED
    BY <1>2, <2>1 DEF Parsing
<1> QED
  BY <1>1, <1>2, StepIs

LEMMA ParsingAlways == Spec => []Parsing
<1>1. Inv /\ Parsing /\ [Next]_vars => Parsing'
  BY ParsingStep
<1> QED
  BY <1>1, ParsingInit, InvAlways, PTL DEF Spec

(* The variables have their types: whatever pieces the clients send, a     *)
(* parser holds a request exactly from its request line to its reset, its  *)
(* cursor stays within the bytes fed, and those are fewer than the buffer  *)
(* of the parser holds (Parser::feed, Parser::parse, onInput).             *)
THEOREM TypeCorrect == Spec => []TypeOK
<1>1. Inv /\ Parsing => TypeOK
  BY DEF Inv, Types, Parsing, Sound, Parsers, TypeOK
<1> QED
  BY <1>1, ParsingAlways, InvAlways, PTL

LEMMA MatchAccepts ==
    ASSUME NEW r \in Requests, NEW k \in DOMAIN Routes[r.method]
    PROVE  Match(Routes[r.method][k], r.path) <=> r.path \in Accepted(Routes[r.method][k])
<1> DEFINE route == Routes[r.method][k]
           path == r.path
<1>1. /\ route \in Seq(Fragment) /\ Len(route) \in Nat /\ DOMAIN route = 1 .. Len(route)
      /\ path \in Seq(ToSet(path)) /\ Len(path) \in Nat /\ DOMAIN path = 1 .. Len(path)
      /\ path = [i \in 1 .. Len(path) |-> path[i]]
  BY RequestsAssumption
<1>2. path \in [1 .. Len(path) -> Texts]
  <2>1. ToSet(path) \subseteq Texts
    BY DEF Texts
  <2> QED
    BY <1>1, <2>1
<1> HIDE DEF route, path
<1>3. ASSUME Match(route, path) PROVE path \in Accepted(route)
  <2>1. Len(path) \in 0 .. Len(route) /\ \A i \in Len(path) + 1 .. Len(route) : route[i].optional
    <3>1. \A i \in Len(path) + 1 .. Len(route) : i \in DOMAIN route /\ i > Len(path)
      BY <1>1
    <3> QED
      BY <1>1, <1>3, <3>1 DEF Match
  <2>2. path \in Spelled(route, Len(path))
    <3>1. \A i \in 1 .. Len(path) : i \in DOMAIN route /\ ~(i > Len(path))
      BY <1>1, <1>3 DEF Match
    <3> QED
      BY <1>2, <1>3, <3>1 DEF Match, Spelled, FragmentMatches
  <2> QED
    BY <2>1, <2>2 DEF Accepted
<1>4. ASSUME path \in Accepted(route) PROVE Match(route, path)
  <2>1. PICK n \in 0 .. Len(route) :
          path \in Spelled(route, n) /\ \A i \in n + 1 .. Len(route) : route[i].optional
    BY <1>4 DEF Accepted
  <2>2. n = Len(path)
    <3>1. n \in Nat
      BY <1>1, <2>1
    <3>2. DOMAIN path = 1 .. n
      BY <2>1 DEF Spelled
    <3>3. 1 .. n = 1 .. Len(path)
      BY <1>1, <3>2
    <3> QED
      BY <1>1, <3>1, <3>3
  <2>3. Len(path) <= Len(route)
    BY <1>1, <2>1, <2>2
  <2>4. ASSUME NEW i \in DOMAIN route, i > Len(path) PROVE route[i].optional
    <3>1. i \in n + 1 .. Len(route)
      BY <1>1, <2>2, <2>4
    <3> QED
      BY <2>1, <3>1
  <2>5. ASSUME NEW i \in DOMAIN route, ~(i > Len(path)) PROVE FragmentMatches(route[i], path[i])
    <3>1. i \in 1 .. n
      BY <1>1, <2>2, <2>5
    <3> QED
      BY <2>1, <3>1 DEF Spelled, FragmentMatches
  <2> QED
    BY <2>3, <2>4, <2>5 DEF Match
<1> QED
  BY <1>3, <1>4 DEF route, path

LEMMA RouteIs ==
    ASSUME NEW r \in Requests
    PROVE  LET routes == Routes[r.method]
               accepting == {k \in DOMAIN routes : r.path \in Accepted(routes[k])}
               route == Route(r.method, r.path)
           IN  IF route = NotFound THEN accepting = {}
               ELSE route \in accepting /\ \A k \in accepting : route <= k
<1> DEFINE routes == Routes[r.method]
           accepting == {k \in DOMAIN routes : r.path \in Accepted(routes[k])}
           found == {i \in DOMAIN routes : Match(routes[i], r.path)}
<1>1. found = accepting
  BY MatchAccepts
<1>2. Route(r.method, r.path) =
          IF found = {} THEN NotFound ELSE CHOOSE i \in found : \A j \in found : i <= j
  BY DEF Route
<1>3. DOMAIN routes \in SUBSET Nat /\ NotFound \notin DOMAIN routes
  BY RequestsAssumption
<1>4. CASE found = {}
  BY <1>1, <1>2, <1>4
<1>5. CASE found # {}
  <2>1. \E j \in found : \A k \in found : j <= k
    <3>1. found \in SUBSET Nat
      BY <1>3
    <3> HIDE DEF found
    <3> QED
      BY <1>5, <3>1, Least
  <2>2. found \subseteq DOMAIN routes
    OBVIOUS
  <2> HIDE DEF found, accepting, routes
  <2> DEFINE i == CHOOSE j \in found : \A k \in found : j <= k
  <2>3. i \in found /\ \A k \in found : i <= k
    BY <2>1
  <2>4. Route(r.method, r.path) = i
    BY <1>2, <1>5
  <2>5. i # NotFound
    BY <1>3, <2>2, <2>3
  <2> HIDE DEF i
  <2> QED
    BY <1>1, <2>3, <2>4, <2>5 DEF routes, accepting
<1> QED
  BY <1>4, <1>5

(* Whatever the routes, a request that is handled goes to the first route  *)
(* of its method that accepts its path, and to none when none does, an     *)
(* optional fragment standing for nothing or for one fragment of the path  *)
(* (Router::route, Route::match).                                          *)
THEOREM RoutesAreRight == Spec => []RoutedRight
<1>1. ASSUME Parsing PROVE RoutedRight
  <2> SUFFICES ASSUME NEW c \in Conn, NEW i \in DOMAIN handled[c]
               PROVE  LET h == handled[c][i]
                          routes == Routes[h.req.method]
                          accepting == {k \in DOMAIN routes : h.req.path \in Accepted(routes[k])}
                      IN  IF h.route = NotFound THEN accepting = {}
                          ELSE h.route \in accepting /\ \A k \in accepting : h.route <= k
    BY DEF RoutedRight
  <2>1. handled[c][i] \in Deliveries
    BY <1>1 DEF Parsing
  <2>2. PICK r \in Requests, b \in Seq(Units) :
          handled[c][i] = [req |-> r, body |-> b, route |-> Route(r.method, r.path)]
    BY <2>1 DEF Deliveries
  <2>3. handled[c][i].req = r /\ handled[c][i].route = Route(r.method, r.path)
    BY <2>2
  <2> QED
    BY <2>3, RouteIs
<1> QED
  BY <1>1, ParsingAlways, PTL

-------------------------------------------------------------------------------
(* The units of F from one place to another.                               *)
Span(F, x, y) == SubSeq(F, x + 1, y)

LEMMA SpanIs ==
    ASSUME NEW X, NEW F \in Seq(X), NEW x \in Nat, NEW y \in Nat, x <= y, y <= Len(F)
    PROVE  /\ Span(F, x, y) \in Seq(X) /\ Len(Span(F, x, y)) = y - x
           /\ \A i \in 1 .. y - x : Span(F, x, y)[i] = F[x + i]
  BY DEF Span

LEMMA SameSeq ==
    ASSUME NEW X, NEW s \in Seq(X), NEW t \in Seq(X), Len(s) = Len(t),
           \A i \in 1 .. Len(s) : s[i] = t[i]
    PROVE  s = t
  OBVIOUS

LEMMA SpanWithin ==
    ASSUME NEW X, NEW F \in Seq(X), NEW x \in Nat, NEW y \in Nat, x <= y, y <= Len(F),
           NEW m \in Nat, NEW n \in Nat, m <= n, n <= y - x
    PROVE  Span(Span(F, x, y), m, n) = Span(F, x + m, x + n)
<1> DEFINE s == Span(F, x, y)
           l == Span(s, m, n)
           r == Span(F, x + m, x + n)
<1>1. s \in Seq(X) /\ Len(s) = y - x /\ \A i \in 1 .. y - x : s[i] = F[x + i]
  BY SpanIs
<1>2. x + m \in Nat /\ x + n \in Nat /\ x + m <= x + n /\ x + n <= Len(F)
      /\ (x + n) - (x + m) = n - m /\ n <= Len(s)
  BY <1>1
<1>3. r \in Seq(X) /\ Len(r) = n - m /\ \A i \in 1 .. n - m : r[i] = F[(x + m) + i]
  <2>1. r \in Seq(X) /\ Len(r) = (x + n) - (x + m) /\ \A i \in 1 .. (x + n) - (x + m) : r[i] = F[(x + m) + i]
    BY <1>2, SpanIs
  <2> HIDE DEF r, s
  <2> QED
    BY <1>2, <2>1
<1> HIDE DEF s
<1>4. l \in Seq(X) /\ Len(l) = n - m /\ \A i \in 1 .. n - m : l[i] = s[m + i]
  BY <1>1, <1>2, SpanIs
<1>5. \A i \in 1 .. n - m : m + i \in 1 .. y - x /\ x + (m + i) = (x + m) + i
  OBVIOUS
<1>6. \A i \in 1 .. n - m : l[i] = r[i]
  BY <1>1, <1>3, <1>4, <1>5
<1> HIDE DEF l, r
<1>7. l = r
  BY <1>3, <1>4, <1>6, SameSeq
<1> QED
  BY <1>7 DEF l, r, s

LEMMA Joined ==
    ASSUME NEW X, NEW s \in Seq(X), NEW t \in Seq(X)
    PROVE  /\ s \o t \in Seq(X) /\ Len(s \o t) = Len(s) + Len(t)
           /\ \A i \in 1 .. Len(s) : (s \o t)[i] = s[i]
           /\ \A i \in 1 .. Len(t) : (s \o t)[Len(s) + i] = t[i]
  OBVIOUS

LEMMA SpanJoin ==
    ASSUME NEW X, NEW F \in Seq(X), NEW x \in Nat, NEW y \in Nat, NEW z \in Nat,
           x <= y, y <= z, z <= Len(F)
    PROVE  Span(F, x, y) \o Span(F, y, z) = Span(F, x, z)
<1> DEFINE s == Span(F, x, y)
           t == Span(F, y, z)
           r == Span(F, x, z)
<1>1. s \in Seq(X) /\ Len(s) = y - x /\ \A i \in 1 .. y - x : s[i] = F[x + i]
  <2>1. y <= Len(F)
    OBVIOUS
  <2> QED
    BY <2>1, SpanIs
<1>2. t \in Seq(X) /\ Len(t) = z - y /\ \A i \in 1 .. z - y : t[i] = F[y + i]
  BY SpanIs
<1>3. r \in Seq(X) /\ Len(r) = z - x /\ \A i \in 1 .. z - x : r[i] = F[x + i]
  <2>1. x <= z
    OBVIOUS
  <2> QED
    BY <2>1, SpanIs
<1> HIDE DEF s, t, r
<1>4. /\ s \o t \in Seq(X) /\ Len(s \o t) = Len(s) + Len(t)
      /\ \A i \in 1 .. Len(s) : (s \o t)[i] = s[i]
      /\ \A i \in 1 .. Len(t) : (s \o t)[Len(s) + i] = t[i]
  <2>1. s \in Seq(X) /\ t \in Seq(X)
    BY <1>1, <1>2
  <2> QED
    BY <2>1, Joined
<1>5. Len(s \o t) = z - x
  BY <1>1, <1>2, <1>4
<1>6. ASSUME NEW i \in 1 .. z - x PROVE (s \o t)[i] = r[i]
  <2>1. CASE i <= y - x
    <3>1. i \in 1 .. y - x
      BY <2>1
    <3> QED
      BY <1>1, <1>3, <1>4, <3>1
  <2>2. CASE i > y - x
    <3> DEFINE k == i - (y - x)
    <3>1. k \in 1 .. z - y /\ i = (y - x) + k /\ y + k = x + i
      BY <2>2
    <3> HIDE DEF k
    <3>2. (s \o t)[i] = t[k]
      BY <1>1, <1>2, <1>4, <3>1
    <3> QED
      BY <1>2, <1>3, <3>1, <3>2
  <2>3. i <= y - x \/ i > y - x
    OBVIOUS
  <2> QED
    BY <2>1, <2>2, <2>3
<1>7. s \o t = r
  BY <1>3, <1>4, <1>5, <1>6, SameSeq
<1> QED
  BY <1>7 DEF s, t, r

(* What the parser takes and drops.                                        *)
LEMMA SpanParts ==
    ASSUME NEW X, NEW F \in Seq(X), NEW x \in Nat, NEW y \in Nat, x <= y, y <= Len(F),
           NEW n \in Nat, n <= y - x
    PROVE  /\ Drop(Span(F, x, y), n) = Span(F, x + n, y)
           /\ Take(Span(F, x, y), n) = Span(F, x, x + n)
<1> DEFINE s == Span(F, x, y)
<1>1. Len(s) = y - x
  BY SpanIs
<1>2. Drop(s, n) = Span(s, n, y - x) /\ Take(s, n) = Span(s, 0, n)
  <2> HIDE DEF s
  <2> QED
    BY <1>1 DEF Drop, Take, Span
<1>3. y - x \in Nat /\ y - x <= y - x /\ 0 <= n /\ x + (y - x) = y /\ x + 0 = x /\ 0 \in Nat
  OBVIOUS
<1>4. Span(s, n, y - x) = Span(F, x + n, x + (y - x))
  BY <1>3, SpanWithin
<1>5. Span(s, 0, n) = Span(F, x + 0, x + n)
  BY <1>3, SpanWithin
<1> HIDE DEF s
<1>6. Drop(s, n) = Span(F, x + n, y) /\ Take(s, n) = Span(F, x, x + n)
  BY <1>2, <1>3, <1>4, <1>5
<1> QED
  BY <1>6 DEF s

LEMMA SpanStart ==
    ASSUME NEW X, NEW F \in Seq(X), NEW y \in Nat, y <= Len(F)
    PROVE  /\ Span(F, 0, y) \in Seq(X) /\ Len(Span(F, 0, y)) = y
           /\ \A i \in 1 .. y : Span(F, 0, y)[i] = F[i]
<1>1. 0 + 1 = 1
  OBVIOUS
<1> QED
  BY <1>1 DEF Span

LEMMA FlattenIs ==
    ASSUME NEW X, NEW ss \in Seq(Seq(X)), Len(ss) # 0
    PROVE  \E f : /\ f[1] = ss[1] /\ f[Len(ss)] = FlattenSeq(ss)
                  /\ \A i \in 1 .. Len(ss) : i # 1 => f[i] = f[i - 1] \o ss[i]
<1> DEFINE Step(f, i) == IF i = 1 THEN ss[i] ELSE f[i-1] \o ss[i]
           IsFlat(f, n) == f = [i \in 1 .. n |-> Step(f, i)]
           flat == CHOOSE f : IsFlat(f, Len(ss))
           Exists == {n \in Nat : \E f : IsFlat(f, n)}
<1>1. Len(ss) \in Nat /\ 1 \in 1 .. Len(ss) /\ Len(ss) \in 1 .. Len(ss)
      /\ \A i \in 1 .. Len(ss) : i \in Nat /\ i + 1 \in Nat
  OBVIOUS
<1>2. FlattenSeq(ss) = flat[Len(ss)]
  BY DEF FlattenSeq
<1>3. 1 \in Exists
  <2>1. IsFlat([i \in 1 .. 1 |-> ss[1]], 1)
    OBVIOUS
  <2> HIDE DEF IsFlat
  <2> QED
    BY <2>1
<1>4. ASSUME NEW n \in 1 .. Len(ss), n \in Exists PROVE n + 1 \in Exists
  <2> DEFINE Longer(f) == [i \in 1 .. n + 1 |-> Step(f, i)]
  <2>1. PICK f : IsFlat(f, n)
    BY <1>4
  <2>2. \A i \in 1 .. n : f[i] = Step(f, i)
    BY <2>1
  <2>3. \A i \in 1 .. n : Longer(f)[i] = Step(f, i)
    BY <1>1
  <2>4. \A i \in 1 .. n + 1 : i # 1 => i - 1 \in 1 .. n
    BY <1>1
  <2>5. \A i \in 1 .. n + 1 : Step(f, i) = Step(Longer(f), i)
    BY <2>2, <2>3, <2>4
  <2>6. IsFlat(Longer(f), n + 1)
    BY <2>5
  <2> HIDE DEF IsFlat
  <2> QED
    BY <1>1, <2>6
<1>5. IsFlat(flat, Len(ss))
  <2>1. Len(ss) \in Exists
    <3> HIDE DEF Exists
    <3> QED
      BY <1>1, <1>3, <1>4, UpTo
  <2>2. \E f : IsFlat(f, Len(ss))
    BY <2>1
  <2> HIDE DEF IsFlat
  <2> QED
    BY <2>2
<1> HIDE DEF flat
<1>6. \A i \in 1 .. Len(ss) : flat[i] = Step(flat, i)
  BY <1>5
<1>7. /\ flat[1] = ss[1]
      /\ \A i \in 1 .. Len(ss) : i # 1 => flat[i] = flat[i - 1] \o ss[i]
  BY <1>1, <1>6
<1> QED
  BY <1>2, <1>7

LEMMA FlattenNone == ASSUME NEW g PROVE FlattenSeq([i \in 1 .. 0 |-> g[i]]) = <<>>
<1>1. [i \in 1 .. 0 |-> g[i]] = <<>>
  OBVIOUS
<1>2. FlattenSeq(<<>>) = <<>>
  BY NoUnits DEF FlattenSeq
<1> QED
  BY <1>1, <1>2

(* One sequence more.                                                      *)
LEMMA FlattenMore ==
    ASSUME NEW X, NEW n \in Nat, NEW g, \A i \in 1 .. n + 1 : g[i] \in Seq(X)
    PROVE  FlattenSeq([i \in 1 .. n + 1 |-> g[i]]) = FlattenSeq([i \in 1 .. n |-> g[i]]) \o g[n + 1]
<1> DEFINE s == [i \in 1 .. n |-> g[i]]
           t == [i \in 1 .. n + 1 |-> g[i]]
<1>1. /\ s \in Seq(Seq(X)) /\ Len(s) = n /\ \A i \in 1 .. n : s[i] = g[i]
      /\ t \in Seq(Seq(X)) /\ Len(t) = n + 1 /\ \A i \in 1 .. n + 1 : t[i] = g[i]
      /\ n + 1 # 0 /\ n + 1 \in 1 .. n + 1 /\ 1 \in 1 .. n + 1
  OBVIOUS
<1>2. CASE n = 0
  <2>1. FlattenSeq(s) = <<>>
    BY <1>2, FlattenNone
  <2>2. t = <<g[1]>>
    BY <1>2
  <2>3. FlattenSeq(t) = g[1] /\ g[n + 1] = g[1] /\ g[1] \in Seq(X)
    BY <1>1, <1>2, <2>2, FlattenOne
  <2>4. <<>> \o g[1] = g[1]
    BY <2>3
  <2> HIDE DEF s, t
  <2>5. FlattenSeq(t) = FlattenSeq(s) \o g[n + 1]
    BY <2>1, <2>3, <2>4
  <2> QED
    BY <2>5 DEF s, t
<1>3. CASE n # 0
  <2> HIDE DEF s, t
  <2>0. Len(s) # 0 /\ Len(t) # 0 /\ s \in Seq(Seq(X)) /\ t \in Seq(Seq(X)) /\ Len(s) = n /\ Len(t) = n + 1
    BY <1>1, <1>3
  <2>1. PICK f : /\ f[1] = s[1] /\ f[n] = FlattenSeq(s)
                 /\ \A i \in 1 .. n : i # 1 => f[i] = f[i - 1] \o s[i]
    <3>1. \E f : /\ f[1] = s[1] /\ f[Len(s)] = FlattenSeq(s)
                 /\ \A i \in 1 .. Len(s) : i # 1 => f[i] = f[i - 1] \o s[i]
      BY <2>0, FlattenIs
    <3> QED
      BY <2>0, <3>1
  <2>2. PICK h : /\ h[1] = t[1] /\ h[n + 1] = FlattenSeq(t)
                 /\ \A i \in 1 .. n + 1 : i # 1 => h[i] = h[i - 1] \o t[i]
    <3>1. \E k : /\ k[1] = t[1] /\ k[Len(t)] = FlattenSeq(t)
                 /\ \A i \in 1 .. Len(t) : i # 1 => k[i] = k[i - 1] \o t[i]
      BY <2>0, FlattenIs
    <3> QED
      BY <2>0, <3>1
  <2> DEFINE Same == {i \in Nat : f[i] = h[i]}
  <2>3. 1 \in Same
    <3>1. 1 \in 1 .. n
      BY <1>3
    <3> QED
      BY <1>1, <2>1, <2>2, <3>1
  <2>4. ASSUME NEW i \in 1 .. n, i \in Same, i < n PROVE i + 1 \in Same
    <3>1. i + 1 \in 1 .. n /\ i + 1 \in 1 .. n + 1 /\ i + 1 # 1 /\ (i + 1) - 1 = i /\ i + 1 \in Nat
      BY <2>4
    <3>2. f[i + 1] = f[i] \o s[i + 1] /\ h[i + 1] = h[i] \o t[i + 1]
      BY <2>1, <2>2, <3>1
    <3>3. s[i + 1] = t[i + 1] /\ f[i] = h[i]
      BY <1>1, <2>4, <3>1
    <3> QED
      BY <3>1, <3>2, <3>3
  <2>5. n \in Same
    <3>1. n \in 1 .. n /\ 1 \in Nat
      BY <1>3
    <3> HIDE DEF Same
    <3> QED
      BY <2>3, <2>4, <3>1, UpTo
  <2>6. n + 1 # 1 /\ (n + 1) - 1 = n
    BY <1>3
  <2>7. h[n + 1] = h[n] \o t[n + 1]
    BY <1>1, <2>2, <2>6
  <2>8. FlattenSeq(t) = FlattenSeq(s) \o g[n + 1]
    BY <1>1, <2>1, <2>2, <2>5, <2>7
  <2> QED
    BY <2>8 DEF s, t
<1> QED
  BY <1>2, <1>3

(* The first n sequences, and where they end, for n up to N.               *)
Firsts(g, n) == FlattenSeq([i \in 1 .. n |-> g[i]])

LEMMA FlattenParts ==
    ASSUME NEW X, NEW N \in Nat, NEW g, \A i \in 1 .. N : g[i] \in Seq(X)
    PROVE  \A n \in 0 .. N :
              /\ Firsts(g, n) \in Seq(X) /\ Len(Firsts(g, n)) <= Len(Firsts(g, N))
              /\ Firsts(g, n) = Span(Firsts(g, N), 0, Len(Firsts(g, n)))
              /\ n < N => Firsts(g, n + 1) = Firsts(g, n) \o g[n + 1]
<1>1. ASSUME NEW n \in 0 .. N PROVE Firsts(g, n) \in Seq(X)
  <2>1. [i \in 1 .. n |-> g[i]] \in Seq(Seq(X))
    OBVIOUS
  <2> QED
    BY <2>1, FlattenTypes DEF Firsts
<1>2. ASSUME NEW n \in 0 .. N, n < N PROVE Firsts(g, n + 1) = Firsts(g, n) \o g[n + 1]
  <2>1. n \in Nat /\ \A i \in 1 .. n + 1 : g[i] \in Seq(X)
    BY <1>2
  <2> QED
    BY <2>1, FlattenMore DEF Firsts
<1> DEFINE Good == {n \in 0 .. N : \A m \in 0 .. n : Len(Firsts(g, m)) <= Len(Firsts(g, n)) /\ Firsts(g, m) = Span(Firsts(g, n), 0, Len(Firsts(g, m)))}
<1>3. ASSUME NEW n \in 0 .. N PROVE Len(Firsts(g, n)) <= Len(Firsts(g, n)) /\ Firsts(g, n) = Span(Firsts(g, n), 0, Len(Firsts(g, n)))
  <2>1. Firsts(g, n) \in Seq(X) /\ Len(Firsts(g, n)) \in Nat
    BY <1>1
  <2>2. \A s \in Seq(X) : SubSeq(s, 0 + 1, Len(s)) = s
    OBVIOUS
  <2> QED
    BY <2>1, <2>2 DEF Span
<1>4. 0 \in Good
  <2>1. \A m \in 0 .. 0 : m = 0
    OBVIOUS
  <2>2. 0 \in 0 .. N
    OBVIOUS
  <2> QED
    BY <1>3, <2>1, <2>2
<1>5. ASSUME NEW n \in 0 .. N, n \in Good, n < N PROVE n + 1 \in Good
  <2>0. n + 1 \in 0 .. N
    BY <1>5
  <2> SUFFICES ASSUME NEW m \in 0 .. n + 1
               PROVE  Len(Firsts(g, m)) <= Len(Firsts(g, n + 1)) /\ Firsts(g, m) = Span(Firsts(g, n + 1), 0, Len(Firsts(g, m)))
    BY <2>0
  <2>1. CASE m = n + 1
    BY <1>3, <2>0, <2>1
  <2>2. CASE m \in 0 .. n
    <3>1. Firsts(g, m) \in Seq(X) /\ Firsts(g, n) \in Seq(X) /\ Firsts(g, n + 1) \in Seq(X) /\ g[n + 1] \in Seq(X)
      <4>1. m \in 0 .. N /\ n + 1 \in 1 .. N
        BY <1>5, <2>2
      <4> QED
        BY <1>1, <2>0, <4>1
    <3>2. /\ Firsts(g, n + 1) = Firsts(g, n) \o g[n + 1] /\ Len(Firsts(g, m)) <= Len(Firsts(g, n))
          /\ Firsts(g, m) = Span(Firsts(g, n), 0, Len(Firsts(g, m)))
      BY <1>2, <1>5, <2>2
    <3>3. ASSUME NEW s \in Seq(X), NEW t \in Seq(X), NEW k \in Nat, k <= Len(s)
          PROVE  k <= Len(s \o t) /\ Span(s, 0, k) = Span(s \o t, 0, k)
      <4> DEFINE l == Span(s, 0, k)
                 r == Span(s \o t, 0, k)
      <4>1. /\ s \o t \in Seq(X) /\ Len(s \o t) = Len(s) + Len(t)
            /\ \A i \in 1 .. Len(s) : (s \o t)[i] = s[i]
        BY Joined
      <4>2. k <= Len(s \o t) /\ \A i \in 1 .. k : i \in 1 .. Len(s)
        BY <3>3, <4>1
      <4>3. l \in Seq(X) /\ Len(l) = k /\ \A i \in 1 .. k : l[i] = s[i]
        BY <3>3, SpanStart
      <4> DEFINE u == s \o t
      <4>4. r \in Seq(X) /\ Len(r) = k /\ \A i \in 1 .. k : r[i] = (s \o t)[i]
        <5>1. u \in Seq(X) /\ k <= Len(u)
          BY <4>1, <4>2
        <5> HIDE DEF u
        <5>2. Span(u, 0, k) \in Seq(X) /\ Len(Span(u, 0, k)) = k /\ \A i \in 1 .. k : Span(u, 0, k)[i] = u[i]
          BY <5>1, SpanStart
        <5> QED
          BY <5>2 DEF u
      <4> HIDE DEF l, r
      <4>5. l = r
        BY <4>1, <4>2, <4>3, <4>4, SameSeq
      <4> QED
        BY <4>2, <4>5 DEF l, r
    <3>4. Len(Firsts(g, m)) \in Nat
      BY <3>1
    <3> DEFINE a == Firsts(g, n)
               b == g[n + 1]
               k == Len(Firsts(g, m))
    <3>5. k <= Len(a \o b) /\ Span(a, 0, k) = Span(a \o b, 0, k)
      <4>1. a \in Seq(X) /\ b \in Seq(X) /\ k \in Nat /\ k <= Len(a)
        BY <3>1, <3>2, <3>4
      <4> HIDE DEF a, b, k
      <4> QED
        BY <3>3, <4>1
    <3> QED
      BY <3>2, <3>5
  <2> QED
    BY <2>1, <2>2
<1>6. N \in Good
  <2>1. N \in 0 .. N /\ 0 \in Nat
    OBVIOUS
  <2> HIDE DEF Good
  <2> QED
    BY <1>4, <1>5, <2>1, UpTo
<1> QED
  BY <1>1, <1>2, <1>6

LEMMA SpanJoined ==
    ASSUME NEW X, NEW s \in Seq(X), NEW t \in Seq(X), NEW x \in Nat, NEW y \in Nat, x <= y
    PROVE  /\ y <= Len(s) => Span(s \o t, x, y) = Span(s, x, y)
           /\ y <= Len(t) => Span(s \o t, Len(s) + x, Len(s) + y) = Span(t, x, y)
<1> DEFINE u == s \o t
<1>1. /\ u \in Seq(X) /\ Len(u) = Len(s) + Len(t)
      /\ \A i \in 1 .. Len(s) : u[i] = s[i]
      /\ \A i \in 1 .. Len(t) : u[Len(s) + i] = t[i]
      /\ Len(s) \in Nat /\ Len(t) \in Nat
  BY Joined
<1> HIDE DEF u
<1>2. ASSUME y <= Len(s) PROVE Span(u, x, y) = Span(s, x, y)
  <2> DEFINE l == Span(u, x, y)
             r == Span(s, x, y)
  <2>1. y <= Len(u)
    BY <1>1, <1>2
  <2>2. l \in Seq(X) /\ Len(l) = y - x /\ \A i \in 1 .. y - x : l[i] = u[x + i]
    <3>1. u \in Seq(X)
      BY <1>1
    <3> QED
      BY <2>1, <3>1, SpanIs
  <2>3. r \in Seq(X) /\ Len(r) = y - x /\ \A i \in 1 .. y - x : r[i] = s[x + i]
    BY <1>2, SpanIs
  <2> HIDE DEF l, r
  <2>4. \A i \in 1 .. y - x : x + i \in 1 .. Len(s)
    BY <1>1, <1>2
  <2>5. \A i \in 1 .. Len(l) : l[i] = r[i]
    BY <1>1, <2>2, <2>3, <2>4
  <2>6. l = r
    BY <2>2, <2>3, <2>5, SameSeq
  <2> QED
    BY <2>6 DEF l, r
<1>3. ASSUME y <= Len(t) PROVE Span(u, Len(s) + x, Len(s) + y) = Span(t, x, y)
  <2> DEFINE n == Len(s)
             l == Span(u, n + x, n + y)
             r == Span(t, x, y)
  <2>1. n + x \in Nat /\ n + y \in Nat /\ n + x <= n + y /\ n + y <= Len(u) /\ (n + y) - (n + x) = y - x
    BY <1>1, <1>3
  <2> HIDE DEF n
  <2>2. l \in Seq(X) /\ Len(l) = y - x /\ \A i \in 1 .. y - x : l[i] = u[(n + x) + i]
    <3>1. l \in Seq(X) /\ Len(l) = (n + y) - (n + x) /\ \A i \in 1 .. (n + y) - (n + x) : l[i] = u[(n + x) + i]
      <4>1. u \in Seq(X)
        BY <1>1
      <4> QED
        BY <2>1, <4>1, SpanIs
    <3> HIDE DEF l
    <3> QED
      BY <2>1, <3>1
  <2>3. r \in Seq(X) /\ Len(r) = y - x /\ \A i \in 1 .. y - x : r[i] = t[x + i]
    BY <1>3, SpanIs
  <2> HIDE DEF l, r
  <2>4. \A i \in 1 .. y - x : x + i \in 1 .. Len(t) /\ (n + x) + i = n + (x + i)
    BY <1>1, <1>3 DEF n
  <2>5. \A i \in 1 .. y - x : u[n + (x + i)] = t[x + i]
    BY <1>1, <2>4 DEF n
  <2>6. \A i \in 1 .. Len(l) : l[i] = r[i]
    BY <2>2, <2>3, <2>4, <2>5
  <2>7. l = r
    BY <2>2, <2>3, <2>6, SameSeq
  <2> QED
    BY <2>7 DEF l, r, n
<1> QED
  BY <1>2, <1>3 DEF u

LEMMA SpanAll == ASSUME NEW X, NEW s \in Seq(X) PROVE Span(s, 0, Len(s)) = s
<1>1. Len(s) \in Nat /\ Len(s) <= Len(s)
  OBVIOUS
<1>2. /\ Span(s, 0, Len(s)) \in Seq(X) /\ Len(Span(s, 0, Len(s))) = Len(s)
      /\ \A i \in 1 .. Len(s) : Span(s, 0, Len(s))[i] = s[i]
  BY <1>1, SpanStart
<1> QED
  BY <1>2, SameSeq

LEMMA SpanSecond ==
    ASSUME NEW X, NEW s \in Seq(X), NEW t \in Seq(X)
    PROVE  Span(s \o t, Len(s), Len(s) + Len(t)) = t
<1>1. Len(t) \in Nat /\ 0 \in Nat /\ 0 <= Len(t) /\ Len(t) <= Len(t) /\ Len(s) + 0 = Len(s)
  OBVIOUS
<1>2. Span(s \o t, Len(s) + 0, Len(s) + Len(t)) = Span(t, 0, Len(t))
  BY <1>1, SpanJoined
<1> QED
  BY <1>1, <1>2, SpanAll

-------------------------------------------------------------------------------
(* The parts of a request.                                                 *)
LEMMA HeadIs ==
    ASSUME NEW r \in Requests
    PROVE  /\ HeadOf(r) \in Seq(UnitsOf(r)) /\ Len(HeadOf(r)) = 6
           /\ HeadOf(r)[1][1] = r.id /\ Kind(HeadOf(r)[1]) = "method"
           /\ Kind(HeadOf(r)[2]) = "method"
           /\ Kind(HeadOf(r)[3]) = "line" /\ Kind(HeadOf(r)[4]) = "headers"
           /\ Kind(HeadOf(r)[5]) = "cr" /\ Kind(HeadOf(r)[6]) = "lf"
<1> DEFINE m1 == Unit(r, "method", 1)
           m2 == Unit(r, "method", 2)
           l == Unit(r, "line", 0)
           h == Unit(r, "headers", 0)
           c == Unit(r, "cr", 0)
           f == Unit(r, "lf", 0)
           start == <<m1, m2, l, h>>
           end == <<c, f>>
<1>1. m1 \in UnitsOf(r) /\ m2 \in UnitsOf(r) /\ l \in UnitsOf(r) /\ h \in UnitsOf(r)
      /\ c \in UnitsOf(r) /\ f \in UnitsOf(r)
  BY DEF Unit, UnitsOf, Kinds
<1>2. /\ m1[1] = r.id /\ Kind(m1) = "method" /\ Kind(m2) = "method" /\ Kind(l) = "line"
      /\ Kind(h) = "headers" /\ Kind(c) = "cr" /\ Kind(f) = "lf"
  BY DEF Unit, Kind
<1>3. HeadOf(r) = start \o end
  BY DEF HeadOf, EndOfLine
<1> HIDE DEF m1, m2, l, h, c, f
<1>4. /\ start \in Seq(UnitsOf(r)) /\ Len(start) = 4
      /\ start[1] = m1 /\ start[2] = m2 /\ start[3] = l /\ start[4] = h
      /\ end \in Seq(UnitsOf(r)) /\ Len(end) = 2 /\ end[1] = c /\ end[2] = f
  BY <1>1
<1> HIDE DEF start, end
<1>5. /\ start \o end \in Seq(UnitsOf(r)) /\ Len(start \o end) = 4 + 2
      /\ \A i \in 1 .. 4 : (start \o end)[i] = start[i]
      /\ \A i \in 1 .. 2 : (start \o end)[4 + i] = end[i]
  <2>1. start \in Seq(UnitsOf(r)) /\ end \in Seq(UnitsOf(r))
    BY <1>4
  <2>2. /\ start \o end \in Seq(UnitsOf(r)) /\ Len(start \o end) = Len(start) + Len(end)
        /\ \A i \in 1 .. Len(start) : (start \o end)[i] = start[i]
        /\ \A i \in 1 .. Len(end) : (start \o end)[Len(start) + i] = end[i]
    BY <2>1, Joined
  <2>3. Len(start) = 4 /\ Len(end) = 2
    BY <1>4
  <2> QED
    BY <2>2, <2>3
<1>6. /\ (start \o end)[1] = m1 /\ (start \o end)[2] = m2 /\ (start \o end)[3] = l
      /\ (start \o end)[4] = h /\ (start \o end)[4 + 1] = c /\ (start \o end)[4 + 2] = f
  BY <1>4, <1>5
<1>7. 4 + 2 = 6 /\ 4 + 1 = 5
  OBVIOUS
<1> QED
  BY <1>2, <1>3, <1>5, <1>6, <1>7

LEMMA BytesAre ==
    ASSUME NEW r \in Requests, NEW chunk \in Seq(Nat)
    PROVE  BytesOf(r, chunk) \in Seq(UnitsOf(r)) /\ Len(BytesOf(r, chunk)) = Len(chunk)
<1>1. \A k \in 1 .. Len(chunk) : Unit(r, "data", chunk[k]) \in UnitsOf(r)
  BY DEF Unit, UnitsOf, Kinds
<1>2. BytesOf(r, chunk) = [k \in 1 .. Len(chunk) |-> Unit(r, "data", chunk[k])] /\ Len(chunk) \in Nat
  BY DEF BytesOf
<1> QED
  BY <1>1, <1>2

LEMMA ChunkIs ==
    ASSUME NEW r \in Requests, NEW chunk \in Seq(Nat)
    PROVE  LET c == ChunkOf(r, chunk)
           IN  /\ c \in Seq(UnitsOf(r)) /\ Len(c) = Len(chunk) + 5
               /\ c[1] = <<r.id, "size", Len(chunk)>> /\ Kind(c[2]) = "cr" /\ Kind(c[3]) = "lf"
               /\ Span(c, 3, Len(chunk) + 3) = BytesOf(r, chunk)
<1> DEFINE size == Unit(r, "size", Len(chunk))
           cr == Unit(r, "cr", 0)
           lf == Unit(r, "lf", 0)
           end == <<cr, lf>>
           line == <<size>> \o end
           bytes == BytesOf(r, chunk)
<1>1. /\ size \in UnitsOf(r) /\ cr \in UnitsOf(r) /\ lf \in UnitsOf(r) /\ Len(chunk) \in Nat
      /\ size = <<r.id, "size", Len(chunk)>> /\ Kind(cr) = "cr" /\ Kind(lf) = "lf"
  BY DEF Unit, UnitsOf, Kinds, Kind
<1>2. ChunkOf(r, chunk) = ((<<size>> \o end) \o bytes) \o end
  BY DEF ChunkOf, EndOfLine
<1>3. bytes \in Seq(UnitsOf(r)) /\ Len(bytes) = Len(chunk)
  BY BytesAre
<1> HIDE DEF size, cr, lf, bytes
<1>4. /\ <<size>> \in Seq(UnitsOf(r)) /\ Len(<<size>>) = 1 /\ <<size>>[1] = size
      /\ end \in Seq(UnitsOf(r)) /\ Len(end) = 2 /\ end[1] = cr /\ end[2] = lf
  BY <1>1
<1> DEFINE first == <<size>>
<1> HIDE DEF end, first
<1>5. /\ line \in Seq(UnitsOf(r)) /\ Len(line) = 3 /\ line[1] = size /\ line[2] = cr /\ line[3] = lf
      /\ end \in Seq(UnitsOf(r)) /\ Len(end) = 2
  <2>1. first \in Seq(UnitsOf(r)) /\ Len(first) = 1 /\ first[1] = size /\ end \in Seq(UnitsOf(r))
    BY <1>4 DEF first
  <2>2. /\ first \o end \in Seq(UnitsOf(r)) /\ Len(first \o end) = Len(first) + Len(end)
        /\ \A i \in 1 .. Len(first) : (first \o end)[i] = first[i]
        /\ \A i \in 1 .. Len(end) : (first \o end)[Len(first) + i] = end[i]
    <3>1. first \in Seq(UnitsOf(r)) /\ end \in Seq(UnitsOf(r))
      BY <2>1
    <3> QED
      BY <3>1, Joined
  <2>3. 1 \in 1 .. 1 /\ 1 \in 1 .. 2 /\ 2 \in 1 .. 2 /\ 1 + 1 = 2 /\ 1 + 2 = 3
    OBVIOUS
  <2>4. Len(first) = 1 /\ Len(end) = 2 /\ end[1] = cr /\ end[2] = lf
    BY <1>4, <2>1
  <2>5. (first \o end)[1 + 1] = cr /\ (first \o end)[1 + 2] = lf /\ (first \o end)[1] = size
    BY <2>1, <2>2, <2>3, <2>4
  <2>6. line = first \o end
    BY DEF first
  <2> QED
    BY <1>4, <2>2, <2>3, <2>4, <2>5, <2>6
<1> HIDE DEF line
<1> DEFINE a == line \o bytes
           c == a \o end
<1>6. /\ a \in Seq(UnitsOf(r)) /\ Len(a) = 3 + Len(chunk)
      /\ \A i \in 1 .. 3 : a[i] = line[i]
  <2>1. line \in Seq(UnitsOf(r)) /\ bytes \in Seq(UnitsOf(r))
    BY <1>3, <1>5
  <2>2. /\ a \in Seq(UnitsOf(r)) /\ Len(a) = Len(line) + Len(bytes)
        /\ \A i \in 1 .. Len(line) : a[i] = line[i]
    BY <2>1, Joined
  <2>3. Len(line) = 3 /\ Len(bytes) = Len(chunk)
    BY <1>3, <1>5
  <2> HIDE DEF a
  <2> QED
    BY <2>2, <2>3
<1>7. Span(a, 3, 3 + Len(chunk)) = bytes
  BY <1>3, <1>5, SpanSecond
<1> HIDE DEF a
<1>8. /\ c \in Seq(UnitsOf(r)) /\ Len(c) = (3 + Len(chunk)) + 2
      /\ \A i \in 1 .. Len(a) : c[i] = a[i]
  <2>1. a \in Seq(UnitsOf(r)) /\ end \in Seq(UnitsOf(r))
    BY <1>5, <1>6
  <2>2. /\ c \in Seq(UnitsOf(r)) /\ Len(c) = Len(a) + Len(end)
        /\ \A i \in 1 .. Len(a) : c[i] = a[i]
    BY <2>1, Joined
  <2>3. Len(a) = 3 + Len(chunk) /\ Len(end) = 2
    BY <1>5, <1>6
  <2> HIDE DEF c
  <2> QED
    BY <2>2, <2>3
<1>9. c[1] = size /\ c[2] = cr /\ c[3] = lf
  <2>1. 1 \in 1 .. Len(a) /\ 2 \in 1 .. Len(a) /\ 3 \in 1 .. Len(a)
    BY <1>1, <1>6
  <2> QED
    BY <1>5, <1>6, <1>8, <2>1
<1>10. Span(c, 3, 3 + Len(chunk)) = bytes
  <2>1. 3 \in Nat /\ 3 + Len(chunk) \in Nat /\ 3 <= 3 + Len(chunk) /\ 3 + Len(chunk) <= Len(a)
    BY <1>1, <1>6
  <2>2. Span(a \o end, 3, 3 + Len(chunk)) = Span(a, 3, 3 + Len(chunk))
    BY <1>5, <1>6, <2>1, SpanJoined
  <2> QED
    BY <1>7, <2>2
<1>11. (3 + Len(chunk)) + 2 = Len(chunk) + 5 /\ 3 + Len(chunk) = Len(chunk) + 3
  BY <1>1
<1>12. ChunkOf(r, chunk) = c
  BY <1>2 DEF a, line
<1> HIDE DEF c
<1> QED
  BY <1>1, <1>8, <1>9, <1>10, <1>11, <1>12 DEF bytes

(* The bytes of the first j chunks.                                        *)
Body(r, j) == FlattenSeq([i \in 1 .. j |-> BytesOf(r, r.body[i])])

LEMMA BodyIs ==
    ASSUME NEW r \in Requests
    PROVE  /\ r.body \in Seq(Seq(Nat)) /\ Len(r.body) \in Nat /\ DOMAIN r.body = 1 .. Len(r.body)
           /\ \A i \in 1 .. Len(r.body) : r.body[i] \in Seq(Nat) /\ Len(r.body[i]) \in Nat
<1>1. r.body \in Seq(Seq(Nat))
  BY RequestsAssumption
<1>2. \A i \in 1 .. Len(r.body) : r.body[i] \in Seq(Nat)
  BY <1>1
<1> QED
  BY <1>1, <1>2

LEMMA ChunksAre ==
    ASSUME NEW r \in Requests, NEW j \in 0 .. Len(r.body)
    PROVE  /\ Chunks(r, j) \in Seq(UnitsOf(r)) /\ Len(Chunks(r, j)) <= Len(Chunks(r, Len(r.body)))
           /\ Chunks(r, j) = Span(Chunks(r, Len(r.body)), 0, Len(Chunks(r, j)))
           /\ j < Len(r.body) => Chunks(r, j + 1) = Chunks(r, j) \o ChunkOf(r, r.body[j + 1])
<1> DEFINE N == Len(r.body)
           g == [i \in 1 .. N |-> ChunkOf(r, r.body[i])]
<1>1. N \in Nat /\ \A i \in 1 .. N : g[i] = ChunkOf(r, r.body[i]) /\ ChunkOf(r, r.body[i]) \in Seq(UnitsOf(r))
  BY BodyIs, ChunkIs
<1>2. \A n \in 0 .. N : \A i \in 1 .. n : i \in 1 .. N
  BY <1>1
<1> HIDE DEF g, N
<1>3. \A n \in 0 .. N : Chunks(r, n) = Firsts(g, n)
  <2> SUFFICES ASSUME NEW n \in 0 .. N PROVE Chunks(r, n) = Firsts(g, n)
    OBVIOUS
  <2>1. [i \in 1 .. n |-> ChunkOf(r, r.body[i])] = [i \in 1 .. n |-> g[i]]
    BY <1>1, <1>2
  <2> QED
    BY <2>1 DEF Chunks, Firsts
<1>4. \A n \in 0 .. N :
              /\ Firsts(g, n) \in Seq(UnitsOf(r)) /\ Len(Firsts(g, n)) <= Len(Firsts(g, N))
              /\ Firsts(g, n) = Span(Firsts(g, N), 0, Len(Firsts(g, n)))
              /\ n < N => Firsts(g, n + 1) = Firsts(g, n) \o g[n + 1]
  <2>1. \A i \in 1 .. N : g[i] \in Seq(UnitsOf(r))
    BY <1>1
  <2> QED
    BY <1>1, <2>1, FlattenParts
<1>5. j \in 0 .. N /\ N \in 0 .. N /\ (j < N => j + 1 \in 0 .. N /\ j + 1 \in 1 .. N)
  BY <1>1 DEF N
<1>6. /\ Chunks(r, j) \in Seq(UnitsOf(r)) /\ Len(Chunks(r, j)) <= Len(Chunks(r, N))
      /\ Chunks(r, j) = Span(Chunks(r, N), 0, Len(Chunks(r, j)))
  BY <1>3, <1>4, <1>5
<1>7. j < N => Chunks(r, j + 1) = Chunks(r, j) \o ChunkOf(r, r.body[j + 1])
  BY <1>1, <1>3, <1>4, <1>5
<1> QED
  BY <1>6, <1>7 DEF N

LEMMA BodiesAre ==
    ASSUME NEW r \in Requests, NEW j \in 0 .. Len(r.body)
    PROVE  /\ Body(r, j) \in Seq(UnitsOf(r))
           /\ j < Len(r.body) => Body(r, j + 1) = Body(r, j) \o BytesOf(r, r.body[j + 1])
           /\ Body(r, Len(r.body)) = Payload(r)
<1> DEFINE N == Len(r.body)
           g == [i \in 1 .. N |-> BytesOf(r, r.body[i])]
<1>1. N \in Nat /\ \A i \in 1 .. N : g[i] = BytesOf(r, r.body[i]) /\ BytesOf(r, r.body[i]) \in Seq(UnitsOf(r))
  BY BodyIs, BytesAre
<1>2. \A n \in 0 .. N : \A i \in 1 .. n : i \in 1 .. N
  BY <1>1
<1>9. Body(r, N) = Payload(r)
  BY BodyIs DEF Body, Payload
<1> HIDE DEF g, N
<1>3. \A n \in 0 .. N : Body(r, n) = Firsts(g, n)
  <2> SUFFICES ASSUME NEW n \in 0 .. N PROVE Body(r, n) = Firsts(g, n)
    OBVIOUS
  <2>1. [i \in 1 .. n |-> BytesOf(r, r.body[i])] = [i \in 1 .. n |-> g[i]]
    BY <1>1, <1>2
  <2> QED
    BY <2>1 DEF Body, Firsts
<1>4. \A n \in 0 .. N :
              /\ Firsts(g, n) \in Seq(UnitsOf(r)) /\ Len(Firsts(g, n)) <= Len(Firsts(g, N))
              /\ Firsts(g, n) = Span(Firsts(g, N), 0, Len(Firsts(g, n)))
              /\ n < N => Firsts(g, n + 1) = Firsts(g, n) \o g[n + 1]
  <2>1. \A i \in 1 .. N : g[i] \in Seq(UnitsOf(r))
    BY <1>1
  <2> QED
    BY <1>1, <2>1, FlattenParts
<1>5. j \in 0 .. N /\ N \in 0 .. N /\ (j < N => j + 1 \in 0 .. N /\ j + 1 \in 1 .. N)
  BY <1>1 DEF N
<1>6. Body(r, j) \in Seq(UnitsOf(r))
  BY <1>3, <1>4, <1>5
<1>7. j < N => Body(r, j + 1) = Body(r, j) \o BytesOf(r, r.body[j + 1])
  BY <1>1, <1>3, <1>4, <1>5
<1> QED
  BY <1>6, <1>7, <1>9 DEF N

LEMMA NoChunks == ASSUME NEW r PROVE Chunks(r, 0) = <<>> /\ Body(r, 0) = <<>>
<1>1. [i \in 1 .. 0 |-> ChunkOf(r, r.body[i])] = <<>> /\ [i \in 1 .. 0 |-> BytesOf(r, r.body[i])] = <<>>
  OBVIOUS
<1>2. FlattenSeq(<<>>) = <<>>
  BY NoUnits DEF FlattenSeq
<1> QED
  BY <1>1, <1>2 DEF Chunks, Body

(* Where a request begins with its head, and what follows.                 *)
LEMMA WireIs ==
    ASSUME NEW r \in Requests
    PROVE  /\ Wire(r) \in Seq(UnitsOf(r)) /\ Len(Wire(r)) \in Nat /\ Len(Wire(r)) >= 6
           /\ \A i \in 1 .. 6 : Wire(r)[i] = HeadOf(r)[i]
           /\ r.framing = "none" => Wire(r) = HeadOf(r) /\ Payload(r) = <<>>
           /\ Sized(r) => Wire(r) = HeadOf(r) \o Payload(r)
           /\ Chunked(r) => Wire(r) = HeadOf(r) \o (Chunks(r, Len(r.body)) \o ChunkOf(r, <<>>))
<1>1. HeadOf(r) \in Seq(UnitsOf(r)) /\ Len(HeadOf(r)) = 6
  BY HeadIs
<1>2. r.framing = "none" => Wire(r) = HeadOf(r) /\ Payload(r) = <<>>
  <2> SUFFICES ASSUME r.framing = "none" PROVE Wire(r) = HeadOf(r) /\ Payload(r) = <<>>
    OBVIOUS
  <2>1. Wire(r) = HeadOf(r) \o <<>>
    BY DEF Wire
  <2>2. HeadOf(r) \o <<>> = HeadOf(r)
    BY <1>1
  <2>3. r.body = <<>> /\ Len(r.body) = 0
    <3>1. r.body = <<>>
      BY RequestsAssumption
    <3> QED
      BY <3>1, NoUnits
  <2>4. 0 \in 0 .. Len(r.body)
    BY <2>3
  <2>5. Payload(r) = Body(r, 0)
    BY <2>3, <2>4, BodiesAre
  <2> QED
    BY <2>1, <2>2, <2>5, NoChunks
<1>3. Sized(r) => Wire(r) = HeadOf(r) \o Payload(r)
  <2> SUFFICES ASSUME Sized(r) PROVE Wire(r) = HeadOf(r) \o Payload(r)
    OBVIOUS
  <2>1. Wire(r) = HeadOf(r) \o BytesOf(r, r.body[1])
    BY DEF Wire, Sized
  <2>2. Len(r.body) = 1 /\ DOMAIN r.body = 1 .. 1
    BY BodyIs, RequestsAssumption DEF Sized
  <2>3. [i \in DOMAIN r.body |-> BytesOf(r, r.body[i])] = <<BytesOf(r, r.body[1])>>
    BY <2>2
  <2>4. Payload(r) = BytesOf(r, r.body[1])
    BY <2>3, FlattenOne DEF Payload
  <2> QED
    BY <2>1, <2>4
<1>4. Chunked(r) => Wire(r) = HeadOf(r) \o (Chunks(r, Len(r.body)) \o ChunkOf(r, <<>>))
  <2> SUFFICES ASSUME Chunked(r) PROVE Wire(r) = HeadOf(r) \o (Chunks(r, Len(r.body)) \o ChunkOf(r, <<>>))
    OBVIOUS
  <2>1. Wire(r) = HeadOf(r) \o (FlattenSeq([i \in DOMAIN r.body |-> ChunkOf(r, r.body[i])])
                                      \o ChunkOf(r, <<>>))
    BY DEF Wire, Chunked
  <2> QED
    BY <2>1, BodyIs DEF Chunks
<1>5. Wire(r) \in Seq(UnitsOf(r)) /\ Payload(r) \in Seq(UnitsOf(r))
  BY WireTypes
<1>6. \E t \in Seq(UnitsOf(r)) : Wire(r) = HeadOf(r) \o t
  <2>1. r.framing \in {"none", "length", "chunked"}
    BY RequestsAssumption
  <2>2. CASE r.framing = "none"
    <3>1. <<>> \in Seq(UnitsOf(r)) /\ HeadOf(r) \o <<>> = HeadOf(r)
      BY <1>1
    <3> QED
      BY <1>2, <2>2, <3>1
  <2>3. CASE Sized(r)
    BY <1>3, <1>5, <2>3
  <2>4. CASE Chunked(r)
    <3>1. Chunks(r, Len(r.body)) \in Seq(UnitsOf(r))
      <4>1. Len(r.body) \in 0 .. Len(r.body)
        BY BodyIs
      <4> QED
        BY <4>1, ChunksAre
    <3>2. ChunkOf(r, <<>>) \in Seq(UnitsOf(r))
      <4>1. <<>> \in Seq(Nat)
        OBVIOUS
      <4> QED
        BY <4>1, ChunkIs
    <3>3. Chunks(r, Len(r.body)) \o ChunkOf(r, <<>>) \in Seq(UnitsOf(r))
      BY <3>1, <3>2
    <3> QED
      BY <1>4, <2>4, <3>3
  <2> QED
    BY <2>1, <2>2, <2>3, <2>4 DEF Sized, Chunked
<1>7. PICK t \in Seq(UnitsOf(r)) : Wire(r) = HeadOf(r) \o t
  BY <1>6
<1>8. /\ Len(Wire(r)) = Len(HeadOf(r)) + Len(t)
      /\ \A i \in 1 .. Len(HeadOf(r)) : Wire(r)[i] = HeadOf(r)[i]
  <2>1. HeadOf(r) \in Seq(UnitsOf(r))
    BY <1>1
  <2>2. /\ Len(HeadOf(r) \o t) = Len(HeadOf(r)) + Len(t)
        /\ \A i \in 1 .. Len(HeadOf(r)) : (HeadOf(r) \o t)[i] = HeadOf(r)[i]
    BY <2>1, Joined
  <2> QED
    BY <1>7, <2>2
<1>9. Len(Wire(r)) \in Nat /\ Len(Wire(r)) >= 6 /\ \A i \in 1 .. 6 : Wire(r)[i] = HeadOf(r)[i]
  BY <1>1, <1>8
<1> QED
  BY <1>2, <1>3, <1>4, <1>5, <1>9

(* ... and where it is in what the client sends.                           *)
LEMMA PartOf ==
    ASSUME NEW F \in Seq(Units), NEW r \in Requests, NEW s \in Nat, At(F, r, s),
           NEW x \in Nat, NEW y \in Nat, x <= y, y <= Len(Wire(r))
    PROVE  Span(F, s + x, s + y) = Span(Wire(r), x, y)
<1> DEFINE L == Len(Wire(r))
<1>1. L \in Nat /\ s + L <= Len(F) /\ Span(F, s, s + L) = Wire(r)
  BY WireIs DEF At, Span
<1>2. s + L \in Nat /\ s <= s + L /\ y <= (s + L) - s
  BY <1>1
<1>3. Span(Span(F, s, s + L), x, y) = Span(F, s + x, s + y)
  <2> HIDE DEF L
  <2> QED
    BY <1>1, <1>2, SpanWithin
<1> QED
  BY <1>1, <1>3

LEMMA UnitAt ==
    ASSUME NEW F \in Seq(Units), NEW r \in Requests, NEW s \in Nat, At(F, r, s)
    PROVE  /\ s + Len(Wire(r)) <= Len(F)
           /\ \A i \in 1 .. Len(Wire(r)) : F[s + i] = Wire(r)[i]
           /\ F[s + 1][1] = r.id /\ Kind(F[s + 1]) = "method" /\ Kind(F[s + 2]) = "method"
           /\ Kind(F[s + 3]) = "line" /\ Kind(F[s + 4]) = "headers"
           /\ Kind(F[s + 5]) = "cr" /\ Kind(F[s + 6]) = "lf"
<1> DEFINE w == Wire(r)
           L == Len(w)
<1>1. L \in Nat /\ L >= 6 /\ s + L <= Len(F) /\ Span(F, s, s + L) = w /\ \A i \in 1 .. 6 : w[i] = HeadOf(r)[i]
  BY WireIs DEF At, Span
<1> HIDE DEF w
<1>2. s + L \in Nat /\ s <= s + L /\ (s + L) - s = L
  BY <1>1
<1> HIDE DEF L
<1>3. \A i \in 1 .. L : Span(F, s, s + L)[i] = F[s + i]
  <2>0. s + L \in Nat /\ s <= s + L /\ s + L <= Len(F)
    BY <1>1, <1>2
  <2>1. \A i \in 1 .. (s + L) - s : Span(F, s, s + L)[i] = F[s + i]
    BY <2>0, SpanIs
  <2> QED
    BY <1>2, <2>1
<1>4. \A i \in 1 .. L : F[s + i] = w[i]
  BY <1>1, <1>3
<1>5. 1 \in 1 .. L /\ 2 \in 1 .. L /\ 3 \in 1 .. L /\ 4 \in 1 .. L /\ 5 \in 1 .. L /\ 6 \in 1 .. L
      /\ 1 \in 1 .. 6 /\ 2 \in 1 .. 6 /\ 3 \in 1 .. 6 /\ 4 \in 1 .. 6 /\ 5 \in 1 .. 6 /\ 6 \in 1 .. 6
  BY <1>1
<1>6. /\ F[s + 1] = HeadOf(r)[1] /\ F[s + 2] = HeadOf(r)[2] /\ F[s + 3] = HeadOf(r)[3]
      /\ F[s + 4] = HeadOf(r)[4] /\ F[s + 5] = HeadOf(r)[5] /\ F[s + 6] = HeadOf(r)[6]
  BY <1>1, <1>4, <1>5
<1>7. /\ HeadOf(r)[1][1] = r.id /\ Kind(HeadOf(r)[1]) = "method" /\ Kind(HeadOf(r)[2]) = "method"
      /\ Kind(HeadOf(r)[3]) = "line" /\ Kind(HeadOf(r)[4]) = "headers"
      /\ Kind(HeadOf(r)[5]) = "cr" /\ Kind(HeadOf(r)[6]) = "lf"
  BY HeadIs
<1> QED
  BY <1>1, <1>4, <1>6, <1>7 DEF w, L

(* Where the chunks after the first j begin.                               *)
Pos(r, j) == Len(HeadOf(r) \o Chunks(r, j))

LEMMA ChunkFound ==
    ASSUME NEW F \in Seq(Units), NEW r \in Requests, NEW chunk \in Seq(Nat), NEW P \in Nat,
           P + (Len(chunk) + 5) <= Len(F), Span(F, P, P + (Len(chunk) + 5)) = ChunkOf(r, chunk)
    PROVE  /\ F[P + 1] = <<r.id, "size", Len(chunk)>>
           /\ Kind(F[P + 2]) = "cr" /\ Kind(F[P + 3]) = "lf"
           /\ Span(F, P + 3, P + (Len(chunk) + 3)) = BytesOf(r, chunk)
<1> DEFINE n == Len(chunk)
           c == ChunkOf(r, chunk)
<1>1. /\ n \in Nat /\ Len(c) = n + 5 /\ c[1] = <<r.id, "size", n>> /\ Kind(c[2]) = "cr" /\ Kind(c[3]) = "lf"
      /\ Span(c, 3, n + 3) = BytesOf(r, chunk) /\ c = Span(F, P, P + (n + 5)) /\ P + (n + 5) <= Len(F)
  BY ChunkIs
<1> HIDE DEF n, c
<1>2. /\ P + (n + 5) \in Nat /\ P <= P + (n + 5) /\ (P + (n + 5)) - P = n + 5
      /\ 1 \in 1 .. n + 5 /\ 2 \in 1 .. n + 5 /\ 3 \in 1 .. n + 5
      /\ 3 \in Nat /\ n + 3 \in Nat /\ 3 <= n + 3 /\ n + 3 <= n + 5
  BY <1>1
<1>3. \A i \in 1 .. n + 5 : c[i] = F[P + i]
  <2>1. \A i \in 1 .. (P + (n + 5)) - P : Span(F, P, P + (n + 5))[i] = F[P + i]
    <3>1. P + (n + 5) \in Nat /\ P <= P + (n + 5) /\ P + (n + 5) <= Len(F)
      BY <1>1, <1>2
    <3> QED
      BY <3>1, SpanIs
  <2> QED
    BY <1>1, <1>2, <2>1
<1>4. Span(Span(F, P, P + (n + 5)), 3, n + 3) = Span(F, P + 3, P + (n + 3))
  <2>1. /\ P + (n + 5) \in Nat /\ P <= P + (n + 5) /\ P + (n + 5) <= Len(F)
        /\ 3 \in Nat /\ n + 3 \in Nat /\ 3 <= n + 3 /\ n + 3 <= (P + (n + 5)) - P
    BY <1>1, <1>2
  <2> QED
    BY <2>1, SpanWithin
<1>5. c[1] = F[P + 1] /\ c[2] = F[P + 2] /\ c[3] = F[P + 3]
  BY <1>2, <1>3
<1>6. /\ F[P + 1] = <<r.id, "size", n>> /\ Kind(F[P + 2]) = "cr" /\ Kind(F[P + 3]) = "lf"
      /\ Span(F, P + 3, P + (n + 3)) = BytesOf(r, chunk)
  BY <1>1, <1>4, <1>5
<1> QED
  BY <1>6 DEF n

LEMMA PosIs ==
    ASSUME NEW r \in Requests
    PROVE  /\ \A j \in 0 .. Len(r.body) : Pos(r, j) = 6 + Len(Chunks(r, j)) /\ Pos(r, j) \in Nat
           /\ Pos(r, 0) = 6
<1>1. HeadOf(r) \in Seq(UnitsOf(r)) /\ Len(HeadOf(r)) = 6
  BY HeadIs
<1>2. ASSUME NEW j \in 0 .. Len(r.body) PROVE Pos(r, j) = 6 + Len(Chunks(r, j)) /\ Pos(r, j) \in Nat
  <2>1. Chunks(r, j) \in Seq(UnitsOf(r))
    BY ChunksAre
  <2>2. Len(HeadOf(r) \o Chunks(r, j)) = Len(HeadOf(r)) + Len(Chunks(r, j)) /\ Len(Chunks(r, j)) \in Nat
    <3>1. HeadOf(r) \in Seq(UnitsOf(r))
      BY <1>1
    <3> QED
      BY <2>1, <3>1, Joined
  <2> QED
    BY <1>1, <2>2 DEF Pos
<1>3. Pos(r, 0) = 6
  <2>1. 0 \in 0 .. Len(r.body) /\ Len(<<>>) = 0
    BY BodyIs
  <2>2. Pos(r, 0) = 6 + 0
    BY <1>2, <2>1, NoChunks
  <2> QED
    BY <2>2
<1> QED
  BY <1>2, <1>3

LEMMA ChunkAt ==
    ASSUME NEW F \in Seq(Units), NEW r \in Requests, NEW s \in Nat, At(F, r, s), Chunked(r),
           NEW j \in 0 .. Len(r.body), j < Len(r.body)
    PROVE  LET n == Len(r.body[j + 1])
               P == s + Pos(r, j)
           IN  /\ n \in Nat /\ Pos(r, j + 1) = Pos(r, j) + (n + 5) /\ Pos(r, j + 1) + 5 <= Len(Wire(r))
               /\ F[P + 1] = <<r.id, "size", n>> /\ Kind(F[P + 2]) = "cr" /\ Kind(F[P + 3]) = "lf"
               /\ Body(r, j + 1) = Body(r, j) \o Span(F, P + 3, P + (n + 3))
<1> DEFINE N == Len(r.body)
           D == Chunks(r, N)
           E == ChunkOf(r, <<>>)
           A == Chunks(r, j)
           B == Chunks(r, j + 1)
           a == Len(A)
           b == Len(B)
           c == ChunkOf(r, r.body[j + 1])
           n == Len(r.body[j + 1])
           P == s + Pos(r, j)
           w == Wire(r)
           X == UnitsOf(r)
           H == HeadOf(r)
<1>1. /\ N \in Nat /\ j \in Nat /\ j + 1 \in 0 .. N /\ j + 1 \in 1 .. N /\ j \in 0 .. N /\ N \in 0 .. N
      /\ r.body[j + 1] \in Seq(Nat) /\ n \in Nat /\ <<>> \in Seq(Nat)
  <2>1. N \in Nat /\ \A i \in 1 .. N : r.body[i] \in Seq(Nat) /\ Len(r.body[i]) \in Nat
    BY BodyIs
  <2>2. j \in Nat /\ j + 1 \in 1 .. N /\ j + 1 \in 0 .. N /\ N \in 0 .. N
    BY <2>1
  <2> QED
    BY <2>1, <2>2
<1>2. /\ D \in Seq(X) /\ A \in Seq(X) /\ B \in Seq(X) /\ B = A \o c
      /\ B = Span(D, 0, b) /\ b <= Len(D)
  <2>1. A \in Seq(X) /\ B = A \o c
    BY <1>1, ChunksAre
  <2>2. B \in Seq(X) /\ B = Span(D, 0, b) /\ b <= Len(D)
    BY <1>1, ChunksAre
  <2>3. D \in Seq(X)
    BY <1>1, ChunksAre
  <2> QED
    BY <2>1, <2>2, <2>3
<1>3. c \in Seq(X) /\ Len(c) = n + 5 /\ E \in Seq(X) /\ Len(E) = 5
  <2>1. c \in Seq(X) /\ Len(c) = n + 5
    BY <1>1, ChunkIs
  <2>2. E \in Seq(X) /\ Len(E) = Len(<<>>) + 5
    BY <1>1, ChunkIs
  <2>3. Len(<<>>) + 5 = 5
    BY NoUnits
  <2> QED
    BY <2>1, <2>2, <2>3
<1>4. H \in Seq(X) /\ Len(H) = 6 /\ w = H \o (D \o E) /\ w \in Seq(X)
  BY HeadIs, WireIs
<1>5. Pos(r, j) = 6 + a /\ Pos(r, j + 1) = 6 + b
  BY <1>1, PosIs
<1>6. s + Len(w) <= Len(F)
  BY DEF At
<1>7. /\ \A x \in Nat, y \in Nat : x <= y /\ y <= Len(w) => Span(F, s + x, s + y) = Span(w, x, y)
  BY PartOf
<1> HIDE DEF N, D, E, A, B, c, n, w, X, H
<1>8. b = a + (n + 5) /\ a \in Nat /\ b \in Nat /\ Len(D) \in Nat
  <2>1. Len(A \o c) = Len(A) + Len(c)
    <3>1. A \in Seq(X) /\ c \in Seq(X)
      BY <1>2, <1>3
    <3> QED
      BY <3>1, Joined
  <2>2. Len(A) \in Nat /\ Len(D) \in Nat
    BY <1>2
  <2> QED
    BY <1>1, <1>2, <1>3, <2>1, <2>2
<1>9. Len(D \o E) = Len(D) + 5 /\ D \o E \in Seq(X) /\ Len(w) = 6 + (Len(D) + 5)
  <2>1. Len(D \o E) = Len(D) + Len(E) /\ D \o E \in Seq(X)
    <3>1. D \in Seq(X) /\ E \in Seq(X)
      BY <1>2, <1>3
    <3> QED
      BY <3>1, Joined
  <2> DEFINE de == D \o E
  <2>2. Len(H \o de) = Len(H) + Len(de)
    <3> HIDE DEF de
    <3>1. de \in Seq(X) /\ H \in Seq(X)
      BY <1>4, <2>1 DEF de
    <3> QED
      BY <3>1
  <2> QED
    BY <1>3, <1>4, <2>1, <2>2
<1>10. Span(w, 6 + a, 6 + b) = c
  <2> DEFINE de == D \o E
  <2>1. a <= b /\ b <= Len(D) /\ b <= Len(de) /\ a <= Len(D)
    BY <1>1, <1>2, <1>8, <1>9
  <2>2. Span(H \o de, 6 + a, 6 + b) = Span(de, a, b)
    <3>1. de \in Seq(X) /\ H \in Seq(X) /\ Len(H) = 6
      BY <1>4, <1>9
    <3> HIDE DEF de
    <3>2. Span(H \o de, Len(H) + a, Len(H) + b) = Span(de, a, b)
      <4>1. a \in Nat /\ b \in Nat /\ a <= b /\ b <= Len(de)
        BY <1>8, <2>1 DEF de
      <4>2. de \in Seq(X) /\ H \in Seq(X)
        BY <3>1
      <4> HIDE DEF a, b
      <4> QED
        BY <4>1, <4>2, SpanJoined
    <3> QED
      BY <3>1, <3>2 DEF de
  <2>3. Span(D \o E, a, b) = Span(D, a, b)
    BY <1>2, <1>3, <1>8, <2>1, SpanJoined
  <2>4. Span(Span(D, 0, b), a, b) = Span(D, a, b)
    <3>1. 0 \in Nat /\ 0 <= b /\ b <= b - 0 /\ 0 + a = a /\ 0 + b = b
      BY <1>8
    <3>2. Span(Span(D, 0, b), a, b) = Span(D, 0 + a, 0 + b)
      BY <1>2, <1>8, <2>1, <3>1, SpanWithin
    <3> QED
      BY <3>1, <3>2
  <2>5. Span(A \o c, a, a + (n + 5)) = c
    <3>1. Span(A \o c, Len(A), Len(A) + Len(c)) = c
      BY <1>2, <1>3, SpanSecond
    <3> QED
      BY <1>3, <3>1
  <2>6. Span(B, a, b) = c
    BY <1>2, <1>8, <2>5
  <2> QED
    BY <1>2, <1>4, <2>2, <2>3, <2>4, <2>6
<1>11. Span(F, P, P + (n + 5)) = c /\ P + (n + 5) <= Len(F) /\ P \in Nat
       /\ Pos(r, j + 1) = Pos(r, j) + (n + 5) /\ Pos(r, j + 1) + 5 <= Len(w)
  <2>1. 6 + a \in Nat /\ 6 + b \in Nat /\ 6 + a <= 6 + b /\ 6 + b + 5 <= Len(w) /\ 6 + b <= Len(w)
        /\ s + (6 + a) = P /\ s + (6 + b) = P + (n + 5) /\ P \in Nat
    <3>1. /\ a \in Nat /\ b \in Nat /\ n \in Nat /\ b = a + (n + 5) /\ Pos(r, j) = 6 + a
          /\ b <= Len(D) /\ Len(D) \in Nat /\ Len(w) = 6 + (Len(D) + 5) /\ P = s + Pos(r, j)
      BY <1>1, <1>2, <1>5, <1>8, <1>9
    <3> DEFINE d == Len(D)
               l == Len(w)
    <3> HIDE DEF a, b, d, l, P
    <3>2. d \in Nat /\ b <= d /\ l = 6 + (d + 5)
      BY <3>1 DEF d, l
    <3>3. 6 + a \in Nat /\ 6 + b \in Nat /\ 6 + a <= 6 + b /\ 6 + b + 5 <= l /\ 6 + b <= l
          /\ s + (6 + a) = P /\ s + (6 + b) = P + (n + 5) /\ P \in Nat
      BY <3>1, <3>2
    <3> QED
      BY <3>3 DEF l
  <2>2. Span(F, s + (6 + a), s + (6 + b)) = c
    BY <1>7, <1>10, <2>1
  <2>3. P + (n + 5) <= Len(F)
    <3>1. Len(F) \in Nat /\ Len(w) \in Nat
      BY <1>4
    <3> QED
      BY <1>1, <1>6, <1>8, <2>1, <3>1
  <2>4. Pos(r, j + 1) = Pos(r, j) + (n + 5) /\ Pos(r, j + 1) + 5 <= Len(w)
    BY <1>1, <1>5, <1>8, <2>1
  <2> QED
    BY <2>1, <2>2, <2>3, <2>4
<1>12. /\ F[P + 1] = <<r.id, "size", n>> /\ Kind(F[P + 2]) = "cr" /\ Kind(F[P + 3]) = "lf"
       /\ Span(F, P + 3, P + (n + 3)) = BytesOf(r, r.body[j + 1])
  BY <1>1, <1>11, ChunkFound DEF n, c
<1>13. Body(r, j + 1) = Body(r, j) \o BytesOf(r, r.body[j + 1])
  BY <1>1, BodiesAre DEF N
<1> QED
  BY <1>1, <1>11, <1>12, <1>13 DEF n, w

LEMMA LastChunk ==
    ASSUME NEW F \in Seq(Units), NEW r \in Requests, NEW s \in Nat, At(F, r, s), Chunked(r)
    PROVE  LET P == s + Pos(r, Len(r.body))
           IN  /\ Len(Wire(r)) = Pos(r, Len(r.body)) + 5
               /\ F[P + 1] = <<r.id, "size", 0>> /\ Kind(F[P + 2]) = "cr" /\ Kind(F[P + 3]) = "lf"
               /\ Body(r, Len(r.body)) = Payload(r)
<1> DEFINE N == Len(r.body)
           D == Chunks(r, N)
           E == ChunkOf(r, <<>>)
           P == s + Pos(r, N)
           w == Wire(r)
           X == UnitsOf(r)
           H == HeadOf(r)
<1>1. N \in Nat /\ N \in 0 .. N /\ <<>> \in Seq(Nat)
  BY BodyIs
<1>2. D \in Seq(X) /\ Body(r, N) = Payload(r) /\ Pos(r, N) = 6 + Len(D)
  <2>1. D \in Seq(X)
    BY <1>1, ChunksAre
  <2>2. Body(r, N) = Payload(r)
    BY <1>1, BodiesAre
  <2>3. Pos(r, N) = 6 + Len(D)
    BY <1>1, PosIs
  <2> QED
    BY <2>1, <2>2, <2>3
<1>3. E \in Seq(X) /\ Len(E) = 5 /\ Len(<<>>) + 5 = 5 /\ Len(<<>>) = 0
  <2>1. E \in Seq(X) /\ Len(E) = Len(<<>>) + 5
    BY <1>1, ChunkIs
  <2>2. Len(<<>>) + 5 = 5 /\ Len(<<>>) = 0
    BY NoUnits
  <2> QED
    BY <2>1, <2>2
<1>4. H \in Seq(X) /\ Len(H) = 6 /\ w = H \o (D \o E) /\ w \in Seq(X)
  BY HeadIs, WireIs
<1>5. s + Len(w) <= Len(F)
  BY DEF At
<1>6. \A x \in Nat, y \in Nat : x <= y /\ y <= Len(w) => Span(F, s + x, s + y) = Span(w, x, y)
  BY PartOf
<1> DEFINE d == Len(D)
           de == D \o E
<1>7. d \in Nat /\ Len(de) = d + 5 /\ de \in Seq(X) /\ Span(de, d, d + 5) = E
  <2>1. Len(D \o E) = Len(D) + Len(E) /\ D \o E \in Seq(X) /\ Len(D) \in Nat
    <3>1. D \in Seq(X) /\ E \in Seq(X)
      BY <1>2, <1>3
    <3> HIDE DEF D, E, X
    <3> QED
      BY <3>1, Joined
  <2>2. Span(D \o E, Len(D), Len(D) + Len(E)) = E
    BY <1>2, <1>3, SpanSecond
  <2> HIDE DEF D, E, X
  <2> QED
    BY <1>3, <2>1, <2>2
<1> HIDE DEF N, E, w, X, H, d, de
<1>8. Len(w) = 6 + (d + 5) /\ Span(w, 6 + d, 6 + (d + 5)) = E
  <2>0. H \in Seq(X) /\ de \in Seq(X)
    BY <1>4, <1>7
  <2>1. Len(H \o de) = Len(H) + Len(de)
    BY <2>0, Joined
  <2>2. Span(H \o de, Len(H) + d, Len(H) + (d + 5)) = Span(de, d, d + 5)
    <3>1. d \in Nat /\ d <= d + 5 /\ d + 5 \in Nat /\ d + 5 <= Len(de)
      BY <1>7
    <3> QED
      BY <2>0, <3>1, SpanJoined
  <2>3. w = H \o de /\ Len(H) = 6
    BY <1>4 DEF de
  <2> QED
    BY <1>7, <2>1, <2>2, <2>3
<1>9. Pos(r, N) = 6 + d
  BY <1>2 DEF d
<1> HIDE DEF D
<1>10. /\ P \in Nat /\ P + 5 <= Len(F) /\ Span(F, P, P + 5) = E
       /\ Len(w) = Pos(r, N) + 5
  <2>1. 6 + d \in Nat /\ 6 + (d + 5) \in Nat /\ 6 + d <= 6 + (d + 5) /\ 6 + (d + 5) <= Len(w)
        /\ s + (6 + d) = P /\ s + (6 + (d + 5)) = P + 5 /\ P \in Nat /\ s + Len(w) = P + 5
    BY <1>7, <1>8, <1>9
  <2>2. Span(F, s + (6 + d), s + (6 + (d + 5))) = E
    BY <1>6, <1>8, <2>1
  <2> QED
    BY <1>5, <1>7, <1>8, <1>9, <2>1, <2>2
<1> HIDE DEF P
<1>11. /\ F[P + 1] = <<r.id, "size", Len(<<>>)>> /\ Kind(F[P + 2]) = "cr" /\ Kind(F[P + 3]) = "lf"
  <2>1. P + (Len(<<>>) + 5) <= Len(F) /\ Span(F, P, P + (Len(<<>>) + 5)) = ChunkOf(r, <<>>)
    BY <1>3, <1>10 DEF E
  <2> QED
    BY <1>1, <1>10, <2>1, ChunkFound
<1>12. F[P + 1] = <<r.id, "size", 0>>
  BY <1>3, <1>11
<1> QED
  BY <1>2, <1>10, <1>11, <1>12 DEF P, N, w

-------------------------------------------------------------------------------
(* The steps of the parser, reading the request r that begins after the    *)
(* first s units of F, of which b have arrived.                            *)
LineRead(p, l, F, r, s, b) ==
    /\ b = s + 1 => l = Result(p, "Error")
    /\ b = s + 2 => l = Result(p, "Again")
    /\ b >= s + 3 =>
          l = Result([p EXCEPT !.step = 2, !.buf = Span(F, s + 3, b), !.req = r], "Next")

LEMMA ReadsRequestLine ==
    ASSUME NEW F \in Seq(Units), NEW r \in Requests, NEW s \in Nat, At(F, r, s),
           NEW b \in Nat, s < b, b <= Len(F),
           NEW p, Sound(p), p.step = 1, p.buf = Span(F, s, b)
    PROVE  LineRead(p, RequestLineStep(p), F, r, s, b)
<1>1. /\ F[s + 1][1] = r.id /\ Kind(F[s + 1]) = "method" /\ Kind(F[s + 2]) = "method"
      /\ Kind(F[s + 3]) = "line"
  BY UnitAt
<1>2. /\ p.buf \in Seq(Units) /\ Len(p.buf) = b - s /\ \A i \in 1 .. b - s : p.buf[i] = F[s + i]
  <2>1. s <= b
    OBVIOUS
  <2>2. /\ Span(F, s, b) \in Seq(Units) /\ Len(Span(F, s, b)) = b - s
        /\ \A i \in 1 .. b - s : Span(F, s, b)[i] = F[s + i]
    BY <2>1, SpanIs
  <2> QED
    BY <2>2
<1>3. CASE b = s + 1
  <2>1. Len(p.buf) = 1
    BY <1>2, <1>3
  <2>2. ~(Len(p.buf) >= 2)
    BY <2>1
  <2>3. RequestLineStep(p) = Result(p, "Error")
    BY <2>2 DEF RequestLineStep
  <2> QED
    BY <1>3, <2>3 DEF LineRead
<1>4. CASE b = s + 2
  <2>1. Len(p.buf) = 2 /\ 1 \in 1 .. b - s /\ 2 \in 1 .. b - s
    BY <1>2, <1>4
  <2>2. Len(p.buf) >= 2 /\ Kind(p.buf[1]) = "method" /\ Kind(p.buf[2]) = "method"
    BY <1>1, <1>2, <2>1
  <2>3. RequestLineStep(p) = Result(p, "Again")
    BY <2>1, <2>2 DEF RequestLineStep
  <2> QED
    BY <1>4, <2>3 DEF LineRead
<1>5. CASE b >= s + 3
  <2>1. Len(p.buf) >= 2 /\ Len(p.buf) # 2 /\ 1 \in 1 .. b - s /\ 2 \in 1 .. b - s /\ 3 \in 1 .. b - s
    BY <1>2, <1>5
  <2>2. Kind(p.buf[1]) = "method" /\ Kind(p.buf[2]) = "method" /\ Kind(p.buf[3]) = "line"
        /\ p.buf[1][1] = r.id
    BY <1>1, <1>2, <2>1
  <2>3. (CHOOSE q \in Requests : q.id = p.buf[1][1]) = r
    <3>1. \A q \in Requests : q.id = r.id <=> q = r
      BY RequestsAssumption
    <3> QED
      BY <2>2, <3>1
  <2>4. Drop(p.buf, 3) = Span(F, s + 3, b)
    <3>1. 3 \in Nat /\ 3 <= b - s /\ s <= b
      BY <1>5
    <3> QED
      BY <3>1, SpanParts
  <2>5. RequestLineStep(p) =
            Result([p EXCEPT !.step = 2, !.buf = Drop(@, 3),
                             !.req = CHOOSE q \in Requests : q.id = p.buf[1][1]], "Next")
    BY <2>1, <2>2 DEF RequestLineStep
  <2>6. RequestLineStep(p) = Result([p EXCEPT !.step = 2, !.buf = Span(F, s + 3, b), !.req = r], "Next")
    BY <2>3, <2>4, <2>5
  <2> QED
    BY <1>5, <2>6 DEF LineRead
<1> QED
  BY <1>3, <1>4, <1>5 DEF LineRead

HeadersRead(p, h, F, r, s, b) ==
    /\ b < s + 6 => h = Result(p, "Again")
    /\ b >= s + 6 => h = Result([p EXCEPT !.step = 3, !.buf = Span(F, s + 4, b)], "Next")

LEMMA ReadsHeaders ==
    ASSUME NEW F \in Seq(Units), NEW r \in Requests, NEW s \in Nat, At(F, r, s),
           NEW b \in Nat, s + 3 <= b, b <= Len(F),
           NEW p, Sound(p), p.step = 2, p.buf = Span(F, s + 3, b)
    PROVE  HeadersRead(p, HeadersStep(p), F, r, s, b)
<1>1. Kind(F[s + 5]) = "cr" /\ Kind(F[s + 6]) = "lf"
  BY UnitAt
<1>2. /\ Len(p.buf) = b - (s + 3) /\ \A i \in 1 .. b - (s + 3) : p.buf[i] = F[(s + 3) + i]
  <2>1. s + 3 \in Nat
    OBVIOUS
  <2>2. /\ Len(Span(F, s + 3, b)) = b - (s + 3)
        /\ \A i \in 1 .. b - (s + 3) : Span(F, s + 3, b)[i] = F[(s + 3) + i]
    BY <2>1, SpanIs
  <2> QED
    BY <2>2
<1>3. CASE b < s + 6
  <2>1. ~(Len(p.buf) >= 3)
    BY <1>2, <1>3
  <2>2. HeadersStep(p) = Result(p, "Again")
    BY <2>1 DEF HeadersStep
  <2> QED
    BY <1>3, <2>2 DEF HeadersRead
<1>4. CASE b >= s + 6
  <2>1. Len(p.buf) >= 3 /\ 2 \in 1 .. b - (s + 3) /\ 3 \in 1 .. b - (s + 3)
        /\ (s + 3) + 2 = s + 5 /\ (s + 3) + 3 = s + 6
    BY <1>2, <1>4
  <2>2. p.buf[2] = F[s + 5] /\ p.buf[3] = F[s + 6]
    BY <1>2, <2>1
  <2>3. Drop(p.buf, 1) = Span(F, s + 4, b)
    <3>1. 1 \in Nat /\ 1 <= b - (s + 3) /\ s + 3 \in Nat /\ (s + 3) + 1 = s + 4
      BY <1>4
    <3>2. Drop(Span(F, s + 3, b), 1) = Span(F, (s + 3) + 1, b)
      BY <3>1, SpanParts
    <3> QED
      BY <3>1, <3>2
  <2>4. HeadersStep(p) = Result([p EXCEPT !.step = 3, !.buf = Drop(@, 1)], "Next")
    BY <1>1, <2>1, <2>2 DEF HeadersStep
  <2>5. HeadersStep(p) = Result([p EXCEPT !.step = 3, !.buf = Span(F, s + 4, b)], "Next")
    BY <2>3, <2>4
  <2> QED
    BY <1>4, <2>5 DEF HeadersRead
<1> QED
  BY <1>3, <1>4 DEF HeadersRead

(* The body is read after the line end that ends the head.                 *)
LEMMA ReadsFirst ==
    ASSUME NEW F \in Seq(Units), NEW s \in Nat, NEW b \in Nat, s + 6 <= b, b <= Len(F),
           NEW p, Sound(p), p.body = <<>>, p.buf = Span(F, s + 4, b)
    PROVE  BodyStep(p) = ReadBody([p EXCEPT !.buf = Span(F, s + 6, b)])
<1>1. s + 4 \in Nat /\ s + 4 <= b /\ 2 <= b - (s + 4) /\ 2 \in Nat /\ (s + 4) + 2 = s + 6
  OBVIOUS
<1>2. Len(p.buf) = b - (s + 4)
  BY <1>1, SpanIs
<1>3. ~(Len(p.buf) < 2)
  BY <1>1, <1>2
<1>4. Drop(p.buf, 2) = Span(F, s + 6, b)
  <2>1. Drop(Span(F, s + 4, b), 2) = Span(F, (s + 4) + 2, b)
    BY <1>1, SpanParts
  <2> QED
    BY <1>1, <2>1
<1> DEFINE q == [p EXCEPT !.buf = Span(F, s + 6, b)]
<1>5. SkipEmptyLine(p) = q
  BY <1>4 DEF SkipEmptyLine
<1>6. BodyStep(p) = The({ReadBody(x) : x \in {q}})
  BY <1>3, <1>5 DEF BodyStep
<1> HIDE DEF q
<1>7. {ReadBody(x) : x \in {q}} = {ReadBody(q)}
  OBVIOUS
<1>8. BodyStep(p) = ReadBody(q)
  BY <1>6, <1>7, TheOne
<1> QED
  BY <1>8 DEF q

LEMMA ReadsOn ==
    ASSUME NEW p, p.body # <<>>
    PROVE  BodyStep(p) = ReadBody(p)
<1>1. SkipEmptyLine(p) = p
  BY DEF SkipEmptyLine
<1>2. BodyStep(p) = The({ReadBody(x) : x \in {p}})
  BY <1>1 DEF BodyStep
<1>3. {ReadBody(x) : x \in {p}} = {ReadBody(p)}
  OBVIOUS
<1> QED
  BY <1>2, <1>3, TheOne

LEMMA PayloadAt ==
    ASSUME NEW F \in Seq(Units), NEW r \in Requests, NEW s \in Nat, At(F, r, s), Sized(r)
    PROVE  /\ Len(Payload(r)) \in Nat /\ Len(Wire(r)) = 6 + Len(Payload(r))
           /\ Span(F, s + 6, s + (6 + Len(Payload(r)))) = Payload(r)
<1> DEFINE n == Len(Payload(r))
           w == Wire(r)
           X == UnitsOf(r)
<1>1. /\ w = HeadOf(r) \o Payload(r) /\ HeadOf(r) \in Seq(X) /\ Payload(r) \in Seq(X)
      /\ Len(HeadOf(r)) = 6 /\ n \in Nat
  <2>1. w = HeadOf(r) \o Payload(r)
    BY WireIs
  <2>2. HeadOf(r) \in Seq(X) /\ Len(HeadOf(r)) = 6
    BY HeadIs
  <2>3. Payload(r) \in Seq(X)
    BY WireTypes
  <2>4. n \in Nat
    BY <2>3
  <2> QED
    BY <2>1, <2>2, <2>3, <2>4
<1>2. Len(w) = 6 + n /\ Span(w, 6, 6 + n) = Payload(r)
  <2>1. HeadOf(r) \in Seq(X) /\ Payload(r) \in Seq(X)
    BY <1>1
  <2>2. Len(HeadOf(r) \o Payload(r)) = Len(HeadOf(r)) + Len(Payload(r))
    BY <2>1, Joined
  <2>3. Span(HeadOf(r) \o Payload(r), Len(HeadOf(r)), Len(HeadOf(r)) + Len(Payload(r))) = Payload(r)
    BY <2>1, SpanSecond
  <2> QED
    BY <1>1, <2>2, <2>3
<1>3. Span(F, s + 6, s + (6 + n)) = Span(w, 6, 6 + n)
  <2>1. 6 \in Nat /\ 6 + n \in Nat /\ 6 <= 6 + n /\ 6 + n <= Len(w)
    BY <1>1, <1>2
  <2> QED
    BY <2>1, PartOf
<1> QED
  BY <1>1, <1>2, <1>3

(* Where the parser is in a body of a known length.                        *)
InLength(p, F, r, s, b) ==
    /\ p.got <= Len(Payload(r)) /\ s + (6 + p.got) <= b
    /\ p.body = Span(F, s + 6, s + (6 + p.got)) /\ p.buf = Span(F, s + (6 + p.got), b)

LengthRead(p, c, F, r, s, b) ==
    /\ b < s + Len(Wire(r)) =>
          c = Result([p EXCEPT !.body = Span(F, s + 6, b), !.got = b - (s + 6),
                               !.buf = Span(F, b, b)], "Again")
    /\ b >= s + Len(Wire(r)) =>
          /\ c.state = "Done" /\ c.p.req = r /\ c.p.body = Payload(r) /\ c.p.got = 0
          /\ c.p.chunk = p.chunk

LEMMA ReadsLength ==
    ASSUME NEW F \in Seq(Units), NEW r \in Requests, NEW s \in Nat, At(F, r, s), Sized(r),
           NEW b \in Nat, b <= Len(F),
           NEW p, Sound(p), p.req = r, InLength(p, F, r, s, b)
    PROVE  LengthRead(p, ParseContentLength(p), F, r, s, b)
<1> DEFINE g == p.got
<1>9. /\ g \in Nat /\ g <= Len(Payload(r)) /\ s + (6 + g) <= b
      /\ p.body = Span(F, s + 6, s + (6 + g)) /\ p.buf = Span(F, s + (6 + g), b)
      /\ p.got = g
  BY SoundFields DEF InLength
<1> HIDE DEF g
<1> DEFINE n == Len(Payload(r))
           x == s + 6
           y == s + (6 + g)
<1>1. n \in Nat /\ Len(Wire(r)) = 6 + n /\ Span(F, x, s + (6 + n)) = Payload(r)
      /\ s + (6 + n) <= Len(F)
  BY PayloadAt, UnitAt
<1>2. p \in Parsers
  BY SoundFields
<1> HIDE DEF n
<1>3. /\ x \in Nat /\ y \in Nat /\ x <= y /\ y <= b /\ g <= n
      /\ y = x + g /\ s + (6 + n) = x + n /\ s + (6 + n) = y + (n - g) /\ n - g \in Nat
      /\ x + n \in Nat
  BY <1>1, <1>9 DEF n
<1> HIDE DEF x, y
<1>7. p.body = Span(F, x, y) /\ p.buf = Span(F, y, b)
  BY <1>9 DEF x, y
<1>8. y \in Nat /\ y <= b
  BY <1>3
<1>4. Len(p.buf) = b - y
  <2>1. Len(Span(F, y, b)) = b - y
    BY <1>8, SpanIs
  <2> QED
    BY <2>1, <1>7
<1>5. CASE b < s + Len(Wire(r))
  <2>1. b < y + (n - g) /\ Len(p.buf) < n - p.got
    BY <1>1, <1>3, <1>4, <1>5, <1>9
  <2>2. p.body \o p.buf = Span(F, x, b)
    <3>1. x \in Nat /\ x <= y
      BY <1>3
    <3>2. Span(F, x, y) \o Span(F, y, b) = Span(F, x, b)
      BY <1>8, <3>1, SpanJoin
    <3> QED
      BY <3>2, <1>7
  <2>3. p.got + Len(p.buf) = b - x
    <3>1. x \in Nat /\ y = x + g /\ g \in Nat
      BY <1>3, <1>9
    <3>2. g + (b - y) = b - x
      BY <3>1
    <3> QED
      BY <1>4, <1>9, <3>2
  <2>4. Span(F, b, b) = <<>>
    <3>1. Span(F, b, b) \in Seq(Units) /\ Len(Span(F, b, b)) = b - b
      <4>1. b <= b
        OBVIOUS
      <4> QED
        BY <4>1, SpanIs
    <3>2. \A z \in Seq(Units) : Len(z) = 0 => z = <<>>
      OBVIOUS
    <3> QED
      BY <3>1, <3>2
  <2>5. ParseContentLength(p) =
            Result([p EXCEPT !.body = @ \o p.buf, !.got = @ + Len(p.buf), !.buf = <<>>], "Again")
    BY <2>1 DEF ParseContentLength, n
  <2>6. ParseContentLength(p) =
            Result([p EXCEPT !.body = Span(F, x, b), !.got = b - x, !.buf = Span(F, b, b)], "Again")
    BY <1>2, <2>2, <2>3, <2>4, <2>5 DEF Parsers
  <2> QED
    BY <1>1, <1>5, <2>6 DEF x, LengthRead
<1>6. CASE b >= s + Len(Wire(r))
  <2> DEFINE q == [p EXCEPT !.body = @ \o Take(p.buf, n - p.got), !.got = 0, !.buf = Drop(@, n - p.got)]
  <2>1. b >= y + (n - g) /\ ~(n < p.got \/ Len(p.buf) < n - p.got)
    BY <1>1, <1>3, <1>4, <1>6, <1>9
  <2>2. p.body \o Take(p.buf, n - g) = Payload(r)
    <3>1. Take(Span(F, y, b), n - g) = Span(F, y, y + (n - g))
      <4>1. n - g <= b - y /\ n - g \in Nat
        BY <1>3, <2>1
      <4> QED
        BY <1>8, <4>1, SpanParts
    <3>2. Span(F, x, y) \o Span(F, y, x + n) = Span(F, x, x + n)
      <4> DEFINE z == x + n
      <4>1. y <= z /\ z <= Len(F) /\ z \in Nat /\ x \in Nat /\ x <= y /\ y \in Nat
        BY <1>1, <1>3
      <4> HIDE DEF z, q
      <4>2. Span(F, x, y) \o Span(F, y, z) = Span(F, x, z)
        BY <4>1, SpanJoin, SMTT(30)
      <4> QED
        BY <4>2 DEF z
    <3>3. Span(F, x, x + n) = Payload(r) /\ y + (n - g) = x + n
      BY <1>1, <1>3
    <3> QED
      BY <3>1, <3>2, <3>3, <1>7
  <2>3. ParseContentLength(p) = Result(q, "Done")
    BY <2>1 DEF ParseContentLength, n
  <2>4. q.req = r /\ q.got = 0 /\ q.chunk = p.chunk /\ q.body = Payload(r)
    BY <1>2, <1>9, <2>2 DEF Parsers
  <2> HIDE DEF q
  <2> QED
    BY <1>1, <1>6, <2>3, <2>4 DEF Result, LengthRead
<1> QED
  BY <1>1, <1>5, <1>6

(* The line of a chunk's size, which begins after P units.                 *)
SizeRead(p, F, P, b, n) ==
    /\ b < P + 3 => SizeLine(p) = Result(p, "Incomplete")
    /\ b >= P + 3 =>
          SizeLine(p) = Result([p EXCEPT !.chunk = n, !.buf = Span(F, P + 3, b)], "Sized")

LEMMA ReadsSizeLine ==
    ASSUME NEW F \in Seq(Units), NEW P \in Nat, NEW b \in Nat, P <= b, b <= Len(F),
           NEW i, NEW n \in Nat, F[P + 1] = <<i, "size", n>>,
           Kind(F[P + 2]) = "cr", Kind(F[P + 3]) = "lf",
           NEW p, p.buf = Span(F, P, b)
    PROVE  SizeRead(p, F, P, b, n)
<1> DEFINE ends == {k \in 1 .. Len(p.buf) - 1 : Kind(p.buf[k]) = "cr" /\ Kind(p.buf[k + 1]) = "lf"}
           e == CHOOSE j \in ends : \A k \in ends : j <= k
<1>1. /\ Len(p.buf) = b - P /\ \A k \in 1 .. b - P : p.buf[k] = F[P + k]
  <2>1. /\ Len(Span(F, P, b)) = b - P /\ \A k \in 1 .. b - P : Span(F, P, b)[k] = F[P + k]
    BY SpanIs
  <2> QED
    BY <2>1
<1>2. SizeLine(p) =
          CASE ends = {} -> Result(p, "Incomplete")
            [] ends # {} /\ e = 1 -> Result([p EXCEPT !.chunk = 0, !.buf = Drop(@, 2)], "Sized")
            [] ends # {} /\ e = 2 /\ Kind(p.buf[1]) = "size" ->
                  Result([p EXCEPT !.chunk = p.buf[1][3], !.buf = Drop(@, 3)], "Sized")
            [] OTHER -> Result(p, "Error")
  BY DEF SizeLine
<1>3. Kind(F[P + 1]) = "size" /\ F[P + 1][3] = n
  BY DEF Kind
<1>4. CASE b < P + 3
  <2>1. \A k \in 1 .. Len(p.buf) - 1 : k = 1 /\ 1 \in 1 .. b - P
    BY <1>1, <1>4
  <2>2. ends = {}
    BY <1>1, <1>3, <2>1
  <2> HIDE DEF ends, e
  <2>3. SizeLine(p) = Result(p, "Incomplete")
    BY <1>2, <2>2
  <2> QED
    BY <1>4, <2>3 DEF SizeRead
<1>5. CASE b >= P + 3
  <2>1. 1 \in 1 .. b - P /\ 2 \in 1 .. b - P /\ 3 \in 1 .. b - P /\ 2 \in 1 .. (b - P) - 1
    BY <1>5
  <2>2. Kind(p.buf[1]) = "size" /\ p.buf[1][3] = n /\ Kind(p.buf[2]) = "cr" /\ Kind(p.buf[3]) = "lf"
    BY <1>1, <1>3, <2>1
  <2>3. 2 \in ends
    BY <1>1, <2>1, <2>2
  <2>4. \A k \in ends : k \in Nat /\ 2 <= k
    <3>1. \A k \in 1 .. Len(p.buf) - 1 : k \in Nat /\ (2 <= k \/ k = 1)
      BY <1>1
    <3>2. 1 \notin ends
      BY <2>2
    <3> QED
      BY <3>1, <3>2
  <2> HIDE DEF ends
  <2>5. e = 2
    <3>1. \E j \in ends : \A k \in ends : j <= k
      BY <2>3, <2>4
    <3>2. e \in ends /\ \A k \in ends : e <= k
      BY <3>1
    <3> QED
      BY <2>3, <2>4, <3>2
  <2> HIDE DEF e
  <2>6. SizeLine(p) = Result([p EXCEPT !.chunk = p.buf[1][3], !.buf = Drop(@, 3)], "Sized")
    <3>1. ends # {} /\ ~(e = 1)
      BY <2>3, <2>5
    <3> QED
      BY <1>2, <2>2, <2>5, <3>1
  <2>7. Drop(p.buf, 3) = Span(F, P + 3, b)
    <3>1. 3 \in Nat /\ 3 <= b - P
      BY <1>5
    <3>2. Drop(Span(F, P, b), 3) = Span(F, P + 3, b)
      BY <3>1, SpanParts
    <3> QED
      BY <3>2
  <2>8. SizeLine(p) = Result([p EXCEPT !.chunk = n, !.buf = Span(F, P + 3, b)], "Sized")
    BY <2>2, <2>6, <2>7
  <2> QED
    BY <1>5, <2>8 DEF SizeRead
<1> QED
  BY <1>4, <1>5 DEF SizeRead

(* The data of a chunk, which begin after Q units.                         *)
DataRead(p, F, Q, b, n) ==
    /\ b = Q => ChunkData(p) = Result(p, "Incomplete")
    /\ b >= Q + (n + 2) =>
          ChunkData(p) =
              Result([p EXCEPT !.body = @ \o Span(F, Q, Q + n), !.buf = Span(F, Q + (n + 2), b),
                               !.chunk = Unknown], "Complete")

LEMMA ReadsChunkData ==
    ASSUME NEW F \in Seq(Units), NEW Q \in Nat, NEW b \in Nat, Q <= b, b <= Len(F),
           NEW n \in Nat, n # 0, NEW p \in Parsers, p.chunk = n, p.buf = Span(F, Q, b),
           b = Q \/ b >= Q + (n + 2)
    PROVE  DataRead(p, F, Q, b, n)
<1>1. Len(p.buf) = b - Q /\ p.buf \in Seq(Units)
  <2>1. Len(Span(F, Q, b)) = b - Q /\ Span(F, Q, b) \in Seq(Units)
    BY SpanIs
  <2> QED
    BY <2>1
<1>2. CASE b = Q
  <2>1. Len(p.buf) = 0 /\ p.buf = <<>> /\ Len(p.buf) < p.chunk
    BY <1>1, <1>2
  <2>2. p.body \o p.buf = p.body
    <3>1. p.body \in Seq(Units)
      BY DEF Parsers
    <3>2. \A t \in Seq(Units) : t \o <<>> = t
      OBVIOUS
    <3> QED
      BY <2>1, <3>1, <3>2
  <2>3. ChunkData(p) = Result([p EXCEPT !.body = @ \o p.buf, !.buf = <<>>], "Incomplete")
    BY <2>1 DEF ChunkData
  <2>4. ChunkData(p) = Result([p EXCEPT !.body = p.body, !.buf = p.buf], "Incomplete")
    BY <2>1, <2>2, <2>3
  <2>5. [p EXCEPT !.body = p.body, !.buf = p.buf] = p
    BY DEF Parsers
  <2>6. ~(b >= Q + (n + 2))
    BY <1>2
  <2> QED
    BY <1>2, <2>4, <2>5, <2>6 DEF DataRead
<1>3. CASE b >= Q + (n + 2)
  <2>1. ~(Len(p.buf) < p.chunk) /\ ~(Len(p.buf) < p.chunk + 2) /\ p.chunk # 0 /\ b # Q
    BY <1>1, <1>3
  <2>2. ChunkData(p) = Result([p EXCEPT !.body = @ \o Take(p.buf, p.chunk),
                                        !.buf = Drop(@, p.chunk + 2), !.chunk = Unknown], "Complete")
    BY <2>1 DEF ChunkData
  <2>3. Take(p.buf, n) = Span(F, Q, Q + n)
    <3>1. n <= b - Q
      BY <1>3
    <3>2. Take(Span(F, Q, b), n) = Span(F, Q, Q + n)
      BY <3>1, SpanParts
    <3> QED
      BY <3>2
  <2>4. Drop(p.buf, n + 2) = Span(F, Q + (n + 2), b)
    <3> DEFINE m == n + 2
    <3>1. m \in Nat /\ m <= b - Q
      BY <1>3
    <3> HIDE DEF m
    <3>2. Drop(Span(F, Q, b), m) = Span(F, Q + m, b)
      BY <3>1, SpanParts
    <3> QED
      BY <3>2 DEF m
  <2> QED
    BY <1>3, <2>1, <2>2, <2>3, <2>4 DEF DataRead
<1> QED
  BY <1>2, <1>3

(* Where the parser is in a chunked body: before the line of the size of   *)
(* chunk j + 1, or after it.                                               *)
AtChunk(p, F, r, s, b, j) ==
    /\ p.chunk = Unknown /\ p.body = Body(r, j)
    /\ s + Pos(r, j) <= b /\ p.buf = Span(F, s + Pos(r, j), b)

InChunk(p, F, r, s, b, j) ==
    /\ j < Len(r.body) /\ p.chunk = Len(r.body[j + 1]) /\ p.body = Body(r, j)
    /\ s + Pos(r, j) + 3 <= b /\ p.buf = Span(F, s + Pos(r, j) + 3, b)

(* No chunk of r is empty.                                                 *)
HasData(r) == \A i \in DOMAIN r.body : r.body[i] # <<>>

(* The chunks follow each other.                                           *)
LEMMA PosGrows ==
    ASSUME NEW F \in Seq(Units), NEW r \in Requests, NEW s \in Nat, At(F, r, s), Chunked(r)
    PROVE  \A i, j \in 0 .. Len(r.body) :
              /\ Pos(r, i) \in Nat /\ Pos(r, i) >= 6 /\ Pos(r, i) + 5 <= Len(Wire(r))
              /\ i < j => Pos(r, i) + 5 <= Pos(r, j)
<1> DEFINE N == Len(r.body)
<1>1. N \in Nat /\ N \in 0 .. N
  BY BodyIs
<1>2. \A j \in 0 .. N : Pos(r, j) \in Nat
  BY PosIs
<1>3. \A j \in 0 .. N : j < N => Pos(r, j + 1) >= Pos(r, j) + 5
  <2>1. ASSUME NEW j \in 0 .. N, j < N PROVE Pos(r, j + 1) >= Pos(r, j) + 5
    <3> DEFINE n == Len(r.body[j + 1])
    <3>1. n \in Nat /\ Pos(r, j + 1) = Pos(r, j) + (n + 5)
      BY <2>1, ChunkAt
    <3>2. Pos(r, j) \in Nat
      BY <1>2
    <3> HIDE DEF n
    <3> QED
      BY <3>1, <3>2
  <2> QED
    BY <2>1
<1>4. Len(Wire(r)) = Pos(r, N) + 5 /\ Pos(r, 0) = 6
  BY LastChunk, PosIs
<1> HIDE DEF N
<1> DEFINE Up == {j \in Nat : \A i \in 0 .. N : i < j => Pos(r, i) + 5 <= Pos(r, j)}
<1>5. \A j \in 0 .. N : j \in Up
  <2>1. 0 \in Up
    OBVIOUS
  <2>2. ASSUME NEW j \in 0 .. N, j \in Up, j < N PROVE j + 1 \in Up
    <3>1. j + 1 \in Nat /\ Pos(r, j + 1) >= Pos(r, j) + 5 /\ j + 1 \in 0 .. N
      BY <1>1, <1>3, <2>2
    <3>2. ASSUME NEW i \in 0 .. N, i < j + 1 PROVE Pos(r, i) + 5 <= Pos(r, j + 1)
      <4>1. CASE i = j
        BY <3>1, <4>1
      <4>2. CASE i < j
        <5>1. Pos(r, i) + 5 <= Pos(r, j) /\ Pos(r, i) \in Nat /\ Pos(r, j) \in Nat /\ Pos(r, j + 1) \in Nat
          BY <1>2, <2>2, <3>1, <4>2
        <5> QED
          BY <3>1, <5>1
      <4> QED
        BY <3>2, <4>1, <4>2
    <3> QED
      BY <3>1, <3>2
  <2> HIDE DEF Up
  <2> QED
    BY <1>1, <2>1, <2>2, UpTo
<1>6. \A i, j \in 0 .. N : i < j => Pos(r, i) + 5 <= Pos(r, j)
  BY <1>5
<1>7. ASSUME NEW i \in 0 .. N PROVE Pos(r, i) >= 6 /\ Pos(r, i) + 5 <= Len(Wire(r))
  <2>1. 0 \in 0 .. N /\ N \in 0 .. N /\ (i = 0 \/ 0 < i) /\ (i = N \/ i < N)
    BY <1>1
  <2>2. Pos(r, 0) <= Pos(r, i)
    <3>1. CASE i = 0
      BY <1>4, <3>1
    <3>2. CASE 0 < i
      BY <1>2, <1>6, <2>1, <3>2
    <3> QED
      BY <2>1, <3>1, <3>2
  <2>3. Pos(r, i) <= Pos(r, N)
    <3>1. CASE i = N
      BY <1>2, <2>1, <3>1
    <3>2. CASE i < N
      BY <1>2, <1>6, <2>1, <3>2
    <3> QED
      BY <2>1, <3>1, <3>2
  <2> QED
    BY <1>2, <1>4, <2>1, <2>2, <2>3
<1> QED
  BY <1>2, <1>6, <1>7 DEF N

(* What of the body of r can be read when the bytes are cut after K units. *)
AtEnd(r, K) == K >= Pos(r, Len(r.body)) + 3
CutAt(r, K, j) ==
    /\ Pos(r, j) <= K /\ K <= Pos(r, j) + 3
    /\ K = Pos(r, j) + 3 => j < Len(r.body)

LEMMA CutIs ==
    ASSUME NEW F \in Seq(Units), NEW r \in Requests, NEW s \in Nat, At(F, r, s), Chunked(r),
           NEW K \in Nat, K >= 6, K >= Len(Wire(r)) \/ BodyBegins(r, K)
    PROVE  AtEnd(r, K) \/ \E j \in 1 .. Len(r.body) : CutAt(r, K, j)
<1>1. Len(Wire(r)) = Pos(r, Len(r.body)) + 5 /\ Len(HeadOf(r)) = 6
      /\ Len(r.body) \in Nat /\ Len(r.body) \in 0 .. Len(r.body)
  <2>1. Len(Wire(r)) = Pos(r, Len(r.body)) + 5
    BY LastChunk
  <2>2. Len(HeadOf(r)) = 6
    BY HeadIs
  <2>3. Len(r.body) \in Nat
    BY BodyIs
  <2>4. Len(r.body) \in 0 .. Len(r.body)
    BY <2>3
  <2> QED
    BY <2>1, <2>2, <2>3, <2>4
<1>2. Pos(r, Len(r.body)) \in Nat
  BY <1>1, PosGrows
<1>3. CASE K >= Len(Wire(r)) - 2 \/ K >= Len(Wire(r))
  BY <1>1, <1>2, <1>3 DEF AtEnd
<1>4. CASE ~(K >= Len(Wire(r)) - 2) /\ ~(K >= Len(Wire(r)))
  <2>1. \E j \in 1 .. Len(r.body) : K - Pos(r, j) \in 0 .. 3
    BY <1>1, <1>4 DEF BodyBegins, Pos
  <2>2. PICK j \in 1 .. Len(r.body) : K - Pos(r, j) \in 0 .. 3
    BY <2>1
  <2>3. Pos(r, j) \in Nat /\ (j = Len(r.body) \/ j < Len(r.body))
    <3>1. j \in 0 .. Len(r.body)
      BY <1>1
    <3>2. Pos(r, j) \in Nat
      BY <3>1, PosGrows
    <3> QED
      BY <1>1, <3>2
  <2>4. CutAt(r, K, j)
    BY <1>1, <1>2, <1>4, <2>2, <2>3 DEF CutAt
  <2> QED
    BY <2>4
<1> QED
  BY <1>3, <1>4

LEMMA BeforeCut ==
    ASSUME NEW F \in Seq(Units), NEW r \in Requests, NEW s \in Nat, At(F, r, s), Chunked(r),
           NEW K \in Nat, NEW j \in 0 .. Len(r.body), Pos(r, j) <= K
    PROVE  /\ AtEnd(r, K) /\ j < Len(r.body) => Pos(r, j + 1) <= K
           /\ \A i \in 1 .. Len(r.body) : CutAt(r, K, i) =>
                 i >= j /\ (j < i => j < Len(r.body) /\ Pos(r, j + 1) <= K)
<1> DEFINE N == Len(r.body)
<1>1. N \in Nat /\ N \in 0 .. N
  BY BodyIs
<1>2. \A x, y \in 0 .. N : Pos(r, x) \in Nat /\ (x < y => Pos(r, x) + 5 <= Pos(r, y))
  BY PosGrows
<1>3. \A x \in 0 .. N : Pos(r, x) \in Nat
  BY <1>2
<1> HIDE DEF N
<1>4. ASSUME NEW i \in 0 .. N, j < i PROVE j < N /\ j + 1 \in 0 .. N /\ Pos(r, j + 1) <= Pos(r, i)
  <2>1. j < N /\ j + 1 \in 0 .. N /\ (j + 1 = i \/ j + 1 < i)
    BY <1>1, <1>4 DEF N
  <2>2. CASE j + 1 = i
    BY <1>3, <2>1, <2>2
  <2>3. CASE j + 1 < i
    <3>1. Pos(r, j + 1) + 5 <= Pos(r, i) /\ Pos(r, j + 1) \in Nat /\ Pos(r, i) \in Nat
      BY <1>2, <2>1, <2>3
    <3> QED
      BY <2>1, <3>1
  <2> QED
    BY <2>1, <2>2, <2>3
<1>5. ASSUME AtEnd(r, K), j < N PROVE Pos(r, j + 1) <= K
  <2>1. Pos(r, j + 1) <= Pos(r, N) /\ j + 1 \in 0 .. N
    BY <1>1, <1>4, <1>5
  <2>2. Pos(r, N) + 3 <= K
    BY <1>5 DEF AtEnd, N
  <2>3. Pos(r, j + 1) \in Nat /\ Pos(r, N) \in Nat
    BY <1>1, <1>3, <2>1
  <2> QED
    BY <2>1, <2>2, <2>3
<1>6. ASSUME NEW i \in 1 .. N, CutAt(r, K, i)
      PROVE  i >= j /\ (j < i => j < N /\ Pos(r, j + 1) <= K)
  <2>1. i \in 0 .. N /\ Pos(r, i) <= K /\ K <= Pos(r, i) + 3
    BY <1>1, <1>6 DEF CutAt
  <2>2. i >= j
    <3>1. ASSUME i < j PROVE FALSE
      <4>1. Pos(r, i) + 5 <= Pos(r, j) /\ Pos(r, i) \in Nat /\ Pos(r, j) \in Nat
        <5>1. j \in 0 .. N
          BY DEF N
        <5> QED
          BY <1>2, <2>1, <3>1, <5>1
      <4> QED
        BY <2>1, <4>1
    <3>2. i \in Nat /\ j \in Nat
      BY <2>1
    <3> QED
      BY <3>1, <3>2
  <2>3. ASSUME j < i PROVE j < N /\ Pos(r, j + 1) <= K
    <3>1. j < N /\ j + 1 \in 0 .. N /\ Pos(r, j + 1) <= Pos(r, i)
      BY <1>4, <2>1, <2>3
    <3>2. Pos(r, j + 1) \in Nat /\ Pos(r, i) \in Nat
      BY <1>3, <2>1, <3>1
    <3> QED
      BY <2>1, <3>1, <3>2
  <2> QED
    BY <2>2, <2>3
<1> QED
  BY <1>5, <1>6 DEF N

(* The parser goes on in its body.                                         *)
Onward(p, q) == Stays(p, q) /\ q.got = p.got

(* Sums of a start, the length of the size line and of the chunk's data.   *)
LEMMA SizeAndData ==
    ASSUME NEW s \in Nat, NEW m \in Nat, NEW n \in Nat
    PROVE  /\ s + m \in Nat /\ (s + m) + 3 \in Nat
           /\ s + (m + (n + 5)) = (s + m) + (n + 5)
           /\ ((s + m) + 3) + n = (s + m) + (n + 3)
           /\ ((s + m) + 3) + (n + 2) = (s + m) + (n + 5)
  OBVIOUS

(* One chunk, from before its size or after it.                            *)
LEMMA ReadsChunk ==
    ASSUME NEW F \in Seq(Units), NEW r \in Requests, NEW s \in Nat, At(F, r, s), Chunked(r),
           HasData(r), NEW b \in Nat, b <= Len(F), NEW j \in 0 .. Len(r.body), j < Len(r.body),
           NEW p, Sound(p), p.step = 3,
           AtChunk(p, F, r, s, b, j) \/ InChunk(p, F, r, s, b, j)
    PROVE  LET c == Chunk(p)
           IN  /\ s + Pos(r, j + 1) <= b =>
                     c.state = "Complete" /\ Onward(p, c.p) /\ AtChunk(c.p, F, r, s, b, j + 1)
               /\ b < s + Pos(r, j) + 3 => c = Result(p, "Incomplete")
               /\ b = s + Pos(r, j) + 3 =>
                     c.state = "Incomplete" /\ Onward(p, c.p) /\ InChunk(c.p, F, r, s, b, j)
<1> DEFINE n == Len(r.body[j + 1])
           P == s + Pos(r, j)
           body == Body(r, j)
<1>1. /\ n \in Nat /\ n # 0 /\ Pos(r, j + 1) = Pos(r, j) + (n + 5)
      /\ F[P + 1] = <<r.id, "size", n>> /\ Kind(F[P + 2]) = "cr" /\ Kind(F[P + 3]) = "lf"
      /\ Body(r, j + 1) = Body(r, j) \o Span(F, P + 3, P + (n + 3))
  <2>1. n # 0
    <3>1. j + 1 \in 1 .. Len(r.body) /\ r.body[j + 1] \in Seq(Nat)
      BY BodyIs
    <3>2. r.body[j + 1] # <<>>
      BY <3>1, BodyIs DEF HasData
    <3>3. \A t \in Seq(Nat) : Len(t) = 0 => t = <<>>
      OBVIOUS
    <3> QED
      BY <3>1, <3>2, <3>3
  <2> QED
    BY <2>1, ChunkAt
<1>2. P \in Nat /\ Pos(r, j) \in Nat
  BY PosGrows
<1>3. Chunk(p).state \in ChunkStates /\ Stays(p, Chunk(p).p) /\ p \in Parsers
  BY ChunkTypes DEF Sound
<1>7. /\ n \in Nat /\ P \in Nat /\ s + Pos(r, j + 1) = P + (n + 5) /\ n # 0
      /\ P + 3 \in Nat /\ (P + 3) + n = P + (n + 3) /\ (P + 3) + (n + 2) = s + Pos(r, j + 1)
  <2>1. n \in Nat /\ Pos(r, j + 1) = Pos(r, j) + (n + 5) /\ n # 0 /\ Pos(r, j) \in Nat
    BY <1>1, <1>2
  <2> DEFINE m == Pos(r, j)
  <2>2. m \in Nat /\ n \in Nat /\ P = s + m /\ Pos(r, j + 1) = m + (n + 5) /\ n # 0
    BY <2>1
  <2> HIDE DEF n, m, P
  <2>3. /\ s + m \in Nat /\ (s + m) + 3 \in Nat
        /\ s + (m + (n + 5)) = (s + m) + (n + 5)
        /\ ((s + m) + 3) + n = (s + m) + (n + 3)
        /\ ((s + m) + 3) + (n + 2) = (s + m) + (n + 5)
    BY <2>2, SizeAndData
  <2> QED
    BY <2>2, <2>3, Zenon
<1>8. F[P + 1] = <<r.id, "size", n>> /\ Kind(F[P + 2]) = "cr" /\ Kind(F[P + 3]) = "lf"
  BY <1>1
(* From after the size.                                                    *)
<1>4. ASSUME NEW q \in Parsers, q.chunk = n, q.body = body, P + 3 <= b, q.buf = Span(F, P + 3, b)
      PROVE  /\ b = P + 3 => ChunkData(q) = Result(q, "Incomplete")
             /\ s + Pos(r, j + 1) <= b =>
                   /\ ChunkData(q).state = "Complete" /\ AtChunk(ChunkData(q).p, F, r, s, b, j + 1)
                   /\ ChunkData(q).p.got = q.got
  <2> DEFINE Q == P + 3
  <2>1. Q \in Nat /\ Q <= b /\ Q + n = P + (n + 3) /\ Q + (n + 2) = s + Pos(r, j + 1)
    BY <1>4, <1>7
  <2> HIDE DEF n, P
  <2>2. q.buf = Span(F, Q, b) /\ q.chunk = n /\ n \in Nat /\ n # 0 /\ Q \in Nat /\ Q <= b
    BY <1>4, <1>7, <2>1
  <2> HIDE DEF Q
  <2>5. b = Q \/ b >= Q + (n + 2) => DataRead(q, F, Q, b, n)
    BY <2>2, ReadsChunkData
  <2>3. /\ b = Q => ChunkData(q) = Result(q, "Incomplete")
        /\ b >= Q + (n + 2) =>
              ChunkData(q) =
                  Result([q EXCEPT !.body = @ \o Span(F, Q, Q + n), !.buf = Span(F, Q + (n + 2), b),
                                   !.chunk = Unknown], "Complete")
    BY <2>5 DEF DataRead
  <2>4. ASSUME s + Pos(r, j + 1) <= b
        PROVE  /\ ChunkData(q).state = "Complete" /\ AtChunk(ChunkData(q).p, F, r, s, b, j + 1)
               /\ ChunkData(q).p.got = q.got
    <3> DEFINE R == s + Pos(r, j + 1)
               body2 == body \o Span(F, Q, Q + n)
    <3>1. b >= Q + (n + 2)
      BY <2>1, <2>4
    <3>2. ChunkData(q) = Result([q EXCEPT !.body = body2, !.buf = Span(F, R, b), !.chunk = Unknown],
                                "Complete")
      BY <1>4, <2>1, <2>3, <3>1
    <3>3. body2 = Body(r, j + 1)
      BY <1>1, <2>1 DEF Q
    <3> HIDE DEF body2, R
    <3>4. /\ ChunkData(q).state = "Complete" /\ ChunkData(q).p.body = body2
          /\ ChunkData(q).p.buf = Span(F, R, b) /\ ChunkData(q).p.chunk = Unknown
          /\ ChunkData(q).p.got = q.got
      <4> DEFINE z == [q EXCEPT !.body = body2, !.buf = Span(F, R, b), !.chunk = Unknown]
      <4>1. z.body = body2 /\ z.buf = Span(F, R, b) /\ z.chunk = Unknown /\ z.got = q.got
        BY DEF Parsers
      <4> HIDE DEF z
      <4>2. ChunkData(q) = Result(z, "Complete")
        BY <3>2 DEF z
      <4> QED
        BY <4>1, <4>2 DEF Result
    <3> QED
      BY <2>4, <3>3, <3>4 DEF AtChunk, R
  <2> QED
    BY <2>3, <2>4 DEF Q
<1>5. CASE InChunk(p, F, r, s, b, j)
  <2>1. p.chunk = n /\ p.body = body /\ P + 3 <= b /\ p.buf = Span(F, P + 3, b)
    BY <1>5 DEF InChunk
  <2>2. Chunk(p) = ChunkData(p)
    BY <1>1, <2>1 DEF Chunk, Unknown
  <2>3. ~(b < P + 3)
    BY <1>2, <2>1
  <2>4. ASSUME s + Pos(r, j + 1) <= b
        PROVE  Chunk(p).state = "Complete" /\ Onward(p, Chunk(p).p) /\ AtChunk(Chunk(p).p, F, r, s, b, j + 1)
    BY <1>3, <1>4, <2>1, <2>2, <2>4 DEF Onward
  <2>5. ASSUME b = P + 3
        PROVE  Chunk(p).state = "Incomplete" /\ Onward(p, Chunk(p).p) /\ InChunk(Chunk(p).p, F, r, s, b, j)
    <3>1. Chunk(p) = Result(p, "Incomplete")
      BY <1>3, <1>4, <2>1, <2>2, <2>5
    <3>2. Chunk(p).state = "Incomplete" /\ Chunk(p).p = p
      BY <3>1 DEF Result
    <3> QED
      BY <1>3, <1>5, <3>2 DEF Onward
  <2> QED
    BY <2>3, <2>4, <2>5
<1>6. CASE AtChunk(p, F, r, s, b, j)
  <2>1. p.chunk = Unknown /\ p.body = body /\ P <= b /\ p.buf = Span(F, P, b)
    BY <1>6 DEF AtChunk
  <2> DEFINE q == [p EXCEPT !.chunk = n, !.buf = Span(F, P + 3, b)]
             G(x) == IF x.state = "Sized" THEN ChunkData(x.p) ELSE x
  <2>2. /\ b < P + 3 => SizeLine(p) = Result(p, "Incomplete")
        /\ b >= P + 3 => SizeLine(p) = Result(q, "Sized")
    <3> HIDE DEF n, P, G
    <3>1. n \in Nat /\ P \in Nat /\ P <= b /\ p.buf = Span(F, P, b)
      BY <1>7, <2>1
    <3> QED
      <4>1. SizeRead(p, F, P, b, n)
        BY <1>8, <3>1, ReadsSizeLine
      <4> QED
        BY <4>1 DEF SizeRead
  <2>3. Chunk(p) = G(SizeLine(p))
    <3>1. {G(x) : x \in {SizeLine(p)}} = {G(SizeLine(p))}
      OBVIOUS
    <3>2. Chunk(p) = The({G(x) : x \in {SizeLine(p)}})
      BY <2>1 DEF Chunk
    <3> HIDE DEF G
    <3> QED
      BY <3>1, <3>2, TheOne
  <2>4. CASE b < P + 3
    <3>1. SizeLine(p) = Result(p, "Incomplete")
      BY <2>2, <2>4
    <3>2. Chunk(p) = Result(p, "Incomplete")
      BY <2>3, <3>1 DEF Result
    <3>3. ~(s + Pos(r, j + 1) <= b) /\ ~(b = P + 3)
      <4> HIDE DEF n, P
      <4> QED
        BY <1>7, <2>4
    <3> QED
      BY <3>2, <3>3
  <2>5. CASE b >= P + 3
    <3>1. SizeLine(p) = Result(q, "Sized")
      BY <2>2, <2>5
    <3>2. Chunk(p) = ChunkData(q)
      <4> HIDE DEF q
      <4> QED
        BY <2>3, <3>1 DEF Result
    <3>3. q \in Parsers /\ q.chunk = n /\ q.body = body /\ P + 3 <= b /\ q.buf = Span(F, P + 3, b)
          /\ q.got = p.got
      <4>1. Span(F, P + 3, b) \in Seq(Units)
        <5> DEFINE Q == P + 3
        <5>1. Q \in Nat /\ Q <= b
          BY <1>2, <2>5
        <5> HIDE DEF Q
        <5>2. Span(F, Q, b) \in Seq(Units)
          BY <5>1, SpanIs
        <5> QED
          BY <5>2 DEF Q
      <4> DEFINE buf == Span(F, P + 3, b)
      <4>2. buf \in Seq(Units) /\ n \in Nat
        BY <4>1, <1>1
      <4>3. P + 3 <= b
        BY <2>5, <1>2
      <4> HIDE DEF buf, n
      <4>4. q = [p EXCEPT !.chunk = n, !.buf = buf]
        BY DEF buf
      <4> HIDE DEF q
      <4> QED
        BY <1>3, <2>1, <4>2, <4>3, <4>4 DEF Parsers, buf
    <3> HIDE DEF q
    <3>4. ASSUME s + Pos(r, j + 1) <= b
          PROVE  Chunk(p).state = "Complete" /\ Onward(p, Chunk(p).p)
                 /\ AtChunk(Chunk(p).p, F, r, s, b, j + 1)
      BY <1>3, <1>4, <3>2, <3>3, <3>4 DEF Onward
    <3>5. ASSUME b = P + 3
          PROVE  Chunk(p).state = "Incomplete" /\ Onward(p, Chunk(p).p)
                 /\ InChunk(Chunk(p).p, F, r, s, b, j)
      <4>1. Chunk(p) = Result(q, "Incomplete")
        BY <1>4, <3>2, <3>3, <3>5
      <4>2. Chunk(p).state = "Incomplete" /\ Chunk(p).p = q
        BY <4>1 DEF Result
      <4> QED
        BY <1>3, <3>3, <4>2 DEF Onward, InChunk
    <3>6. ~(b < P + 3)
      BY <1>2, <2>5
    <3> QED
      BY <3>4, <3>5, <3>6
  <2> QED
    BY <1>2, <2>4, <2>5
<1> QED
  BY <1>5, <1>6

LEMMA ReadsLastChunk ==
    ASSUME NEW F \in Seq(Units), NEW r \in Requests, NEW s \in Nat, At(F, r, s), Chunked(r),
           NEW b \in Nat, b <= Len(F),
           NEW p, Sound(p), p.step = 3, AtChunk(p, F, r, s, b, Len(r.body))
    PROVE  LET c == Chunk(p)
           IN  /\ b < s + Pos(r, Len(r.body)) + 3 => c = Result(p, "Incomplete")
               /\ b >= s + Pos(r, Len(r.body)) + 3 =>
                     c.state = "Final" /\ Onward(p, c.p) /\ c.p.body = Payload(r)
<1> DEFINE P == s + Pos(r, Len(r.body))
           q == [p EXCEPT !.chunk = 0, !.buf = Span(F, P + 3, b)]
           G(x) == IF x.state = "Sized" THEN ChunkData(x.p) ELSE x
<1>1. /\ F[P + 1] = <<r.id, "size", 0>> /\ Kind(F[P + 2]) = "cr" /\ Kind(F[P + 3]) = "lf"
      /\ Body(r, Len(r.body)) = Payload(r)
  BY LastChunk
<1>2. P \in Nat
  <2>1. Len(r.body) \in 0 .. Len(r.body)
    BY BodyIs
  <2>2. Pos(r, Len(r.body)) \in Nat
    BY <2>1, PosGrows
  <2> QED
    BY <2>2
<1>3. p.chunk = Unknown /\ p.body = Payload(r) /\ P <= b /\ p.buf = Span(F, P, b)
      /\ Stays(p, Chunk(p).p) /\ p \in Parsers
  BY <1>1, ChunkTypes DEF AtChunk, Sound
<1>4. /\ b < P + 3 => SizeLine(p) = Result(p, "Incomplete")
      /\ b >= P + 3 => SizeLine(p) = Result(q, "Sized")
  <2>1. F[P + 1] = <<r.id, "size", 0>> /\ Kind(F[P + 2]) = "cr" /\ Kind(F[P + 3]) = "lf"
        /\ p.buf = Span(F, P, b)
    BY <1>1, <1>3
  <2>2. 0 \in Nat /\ P \in Nat /\ P <= b
    BY <1>2, <1>3
  <2> HIDE DEF P, G
  <2> QED
    <3>1. SizeRead(p, F, P, b, 0)
      BY <2>1, <2>2, ReadsSizeLine
    <3> QED
      BY <3>1 DEF SizeRead
<1>5. Chunk(p) = G(SizeLine(p))
  <2>1. {G(x) : x \in {SizeLine(p)}} = {G(SizeLine(p))}
    OBVIOUS
  <2>2. Chunk(p) = The({G(x) : x \in {SizeLine(p)}})
    BY <1>3 DEF Chunk
  <2> HIDE DEF G
  <2> QED
    BY <2>1, <2>2, TheOne
<1>6. ASSUME b < P + 3 PROVE Chunk(p) = Result(p, "Incomplete")
  <2>1. SizeLine(p) = Result(p, "Incomplete")
    BY <1>4, <1>6
  <2> QED
    BY <1>5, <2>1 DEF Result
<1>7. ASSUME b >= P + 3 PROVE Chunk(p).state = "Final" /\ Onward(p, Chunk(p).p) /\ Chunk(p).p.body = Payload(r)
  <2>1. SizeLine(p) = Result(q, "Sized")
    BY <1>4, <1>7
  <2>2. q.chunk = 0 /\ q.body = p.body /\ q.got = p.got
    BY <1>3 DEF Parsers
  <2> HIDE DEF q
  <2>3. Chunk(p) = ChunkData(q)
    BY <1>5, <2>1 DEF Result
  <2>4. ChunkData(q) = Result(q, "Final")
    BY <2>2 DEF ChunkData
  <2>5. Chunk(p).state = "Final" /\ Chunk(p).p = q
    BY <2>3, <2>4 DEF Result
  <2> QED
    BY <1>3, <2>2, <2>5 DEF Onward
<1> QED
  BY <1>6, <1>7

(* Where the chunks end, or where the bytes that are here do.              *)
Ended(p, c, F, r, s, b) ==
    /\ Onward(p, c.p)
    /\ \/ AtEnd(r, b - s) /\ c.state = "Final" /\ c.p.body = Payload(r)
       \/ /\ ~AtEnd(r, b - s)
          /\ \E j \in 1 .. Len(r.body) :
                \/ c.state = "Incomplete" /\ (AtChunk(c.p, F, r, s, b, j) \/ InChunk(c.p, F, r, s, b, j))
                \/ c.state = "Complete" /\ AtChunk(c.p, F, r, s, b, j) /\ c.p.buf = <<>>

(* ... or one chunk was read, and there is another.                        *)
Passed(p, c, F, r, s, b, j) ==
    Onward(p, c.p) /\ c.state = "Complete" /\ j <= Len(r.body) /\ AtChunk(c.p, F, r, s, b, j)

LEMMA OnwardTwice == ASSUME NEW p, NEW q, NEW t, Onward(p, q), Onward(q, t) PROVE Onward(p, t)
  BY DEF Onward, Stays

LEMMA OneChunk ==
    ASSUME NEW F \in Seq(Units), NEW r \in Requests, NEW s \in Nat, At(F, r, s), Chunked(r),
           HasData(r), NEW b \in Nat, b <= Len(F), s + 6 <= b,
           b - s >= Len(Wire(r)) \/ BodyBegins(r, b - s),
           NEW j \in 0 .. Len(r.body), NEW p, Sound(p), p.step = 3,
           AtChunk(p, F, r, s, b, j) \/ InChunk(p, F, r, s, b, j)
    PROVE  Ended(p, Chunk(p), F, r, s, b) \/ Passed(p, Chunk(p), F, r, s, b, j + 1)
<1> DEFINE N == Len(r.body)
           K == b - s
<1>1. N \in Nat /\ N \in 0 .. N
  BY BodyIs
<1>2. \A x \in 0 .. N : Pos(r, x) \in Nat
  BY PosIs
<1>3. K \in Nat /\ K >= 6 /\ b = s + K
  OBVIOUS
<1>4. Pos(r, j) \in Nat /\ Pos(r, j) <= K
  <2>1. s + Pos(r, j) <= b
    BY <1>2 DEF AtChunk, InChunk
  <2> QED
    BY <1>2, <1>3, <2>1
<1>5. Onward(p, p)
  BY SoundFields DEF Onward, Stays
<1>6. ASSUME j < N, Pos(r, j + 1) <= K PROVE Passed(p, Chunk(p), F, r, s, b, j + 1)
  <2>1. s + Pos(r, j + 1) <= b /\ j + 1 <= N
    <3>1. j + 1 \in 0 .. N
      BY <1>1, <1>6
    <3>2. Pos(r, j + 1) \in Nat
      BY <1>2, <3>1
    <3> QED
      BY <1>1, <1>3, <1>6, <3>2
  <2>2. Chunk(p).state = "Complete" /\ Onward(p, Chunk(p).p) /\ AtChunk(Chunk(p).p, F, r, s, b, j + 1)
    BY <1>6, <2>1, ReadsChunk
  <2> QED
    BY <2>1, <2>2 DEF Passed
<1>7. CASE AtEnd(r, K)
  <2>1. CASE j < N
    <3>1. Pos(r, j + 1) <= K
      BY <1>3, <1>4, <1>7, <2>1, BeforeCut
    <3> QED
      BY <1>6, <2>1, <3>1
  <2>2. CASE j = N
    <3>1. AtChunk(p, F, r, s, b, Len(r.body)) /\ b >= s + Pos(r, Len(r.body)) + 3
      <4>1. ~InChunk(p, F, r, s, b, j)
        BY <1>1, <2>2 DEF InChunk
      <4>2. Pos(r, N) + 3 <= K
        BY <1>7 DEF AtEnd
      <4> QED
        BY <1>1, <1>2, <1>3, <2>2, <4>1, <4>2
    <3>2. Chunk(p).state = "Final" /\ Onward(p, Chunk(p).p) /\ Chunk(p).p.body = Payload(r)
      BY <3>1, ReadsLastChunk
    <3> QED
      BY <1>7, <3>2 DEF Ended
  <2> QED
    BY <1>1, <2>1, <2>2
<1>8. CASE ~AtEnd(r, K)
  <2>1. PICK i \in 1 .. N : CutAt(r, K, i)
    BY <1>3, <1>8, CutIs
  <2>2. i >= j /\ (j < i => j < N /\ Pos(r, j + 1) <= K)
    BY <1>4, <2>1, BeforeCut
  <2>3. CASE j < i
    BY <1>6, <2>2, <2>3
  <2>4. CASE j = i
    <3>1. K <= Pos(r, j) + 3 /\ (K = Pos(r, j) + 3 => j < N)
      BY <2>1, <2>4 DEF CutAt
    <3>2. CASE K < Pos(r, j) + 3
      <4>1. b < s + Pos(r, j) + 3
        BY <1>3, <1>4, <3>2
      <4>2. Chunk(p) = Result(p, "Incomplete")
        <5>1. CASE j < N
          BY <4>1, <5>1, ReadsChunk
        <5>2. CASE j = N
          <6>1. AtChunk(p, F, r, s, b, Len(r.body))
            BY <1>1, <5>2 DEF InChunk
          <6> QED
            BY <4>1, <5>2, <6>1, ReadsLastChunk
        <5> QED
          BY <1>1, <5>1, <5>2
      <4>3. Chunk(p).state = "Incomplete" /\ Chunk(p).p = p
        BY <4>2 DEF Result
      <4> QED
        BY <1>5, <1>8, <2>1, <2>4, <4>3 DEF Ended
    <3>3. CASE K = Pos(r, j) + 3
      <4>1. j < N /\ b = s + Pos(r, j) + 3
        BY <1>3, <1>4, <3>1, <3>3
      <4>2. Chunk(p).state = "Incomplete" /\ Onward(p, Chunk(p).p) /\ InChunk(Chunk(p).p, F, r, s, b, j)
        BY <4>1, ReadsChunk
      <4> QED
        BY <1>8, <2>1, <2>4, <4>2 DEF Ended
    <3> QED
      BY <1>3, <1>4, <3>1, <3>2, <3>3
  <2> QED
    BY <2>1, <2>2, <2>3, <2>4
<1> QED
  BY <1>7, <1>8

(* What of a chunked body is here, and where it stops.                     *)
ChunksRead(p, c, F, r, s, b) ==
    /\ Onward(p, c.p)
    /\ \/ c.state = "Done" /\ c.p.body = Payload(r)
       \/ /\ c.state = "Again" /\ b - s < Len(Wire(r))
          /\ \E j \in 1 .. Len(r.body) : AtChunk(c.p, F, r, s, b, j) \/ InChunk(c.p, F, r, s, b, j)

LEMMA ReadsChunks ==
    ASSUME NEW F \in Seq(Units), NEW r \in Requests, NEW s \in Nat, At(F, r, s), Chunked(r),
           HasData(r), NEW b \in Nat, b <= Len(F), s + 6 <= b,
           b - s >= Len(Wire(r)) \/ BodyBegins(r, b - s),
           NEW j \in 0 .. Len(r.body), NEW p, Sound(p), p.step = 3, p.req = r,
           AtChunk(p, F, r, s, b, j) \/ InChunk(p, F, r, s, b, j)
    PROVE  ChunksRead(p, ParseTransferEncoding(p), F, r, s, b)
<1> DEFINE N == Len(r.body)
<1>1. N \in Nat /\ N \in 0 .. N /\ 0 \in Nat
  BY BodyIs
<1>2. PICK chunks : ChunkByChunk(p, chunks)
  BY <1>1, ChunksOneByOne
<1>3. /\ ParseTransferEncoding(p) = Verdict(chunks[N]) /\ chunks[0] = Chunk(p)
      /\ \A n \in 0 .. N : n < N => chunks[n + 1] = More(chunks[n])
  BY <1>2 DEF ChunkByChunk
<1> DEFINE Fine == {n \in Nat : \/ Ended(p, chunks[n], F, r, s, b)
                               \/ Passed(p, chunks[n], F, r, s, b, (j + 1) + n)}
<1>4. 0 \in Fine
  <2>1. Ended(p, Chunk(p), F, r, s, b) \/ Passed(p, Chunk(p), F, r, s, b, j + 1)
    BY OneChunk
  <2>2. (j + 1) + 0 = j + 1
    OBVIOUS
  <2> QED
    BY <1>1, <1>3, <2>1, <2>2
<1>5. ASSUME NEW n \in 0 .. N, n \in Fine, n < N PROVE n + 1 \in Fine
  <2> DEFINE c == chunks[n]
  <2>1. chunks[n + 1] = More(c) /\ n + 1 \in Nat
    BY <1>3, <1>5
  <2>2. ASSUME Ended(p, c, F, r, s, b) PROVE More(c) = c
    <3>1. c.state = "Final" \/ c.state = "Incomplete" \/ c.p.buf = <<>>
      BY <2>2 DEF Ended
    <3> QED
      BY <3>1 DEF More
  <2>3. CASE Ended(p, c, F, r, s, b)
    BY <2>1, <2>2, <2>3
  <2>4. CASE Passed(p, c, F, r, s, b, (j + 1) + n)
    <3> DEFINE i == (j + 1) + n
    <3>1. i \in 1 .. N /\ i \in 0 .. N /\ i + 1 = (j + 1) + (n + 1)
          /\ Onward(p, c.p) /\ c.state = "Complete" /\ AtChunk(c.p, F, r, s, b, i)
      BY <1>1, <1>5, <2>4 DEF Passed
    <3> HIDE DEF i
    <3>2. CASE c.p.buf = <<>>
      <4>1. ~AtEnd(r, b - s)
        <5>1. s + Pos(r, i) <= b /\ c.p.buf = Span(F, s + Pos(r, i), b)
          BY <3>1 DEF AtChunk
        <5>2. Pos(r, i) \in Nat /\ Pos(r, N) \in Nat /\ (i < N => Pos(r, i) + 5 <= Pos(r, N))
          BY <1>1, <3>1, PosGrows
        <5> DEFINE P == s + Pos(r, i)
        <5>3. P \in Nat /\ P <= b
          BY <5>1, <5>2
        <5> HIDE DEF P
        <5>4. Len(Span(F, P, b)) = b - P
          BY <5>3, SpanIs
        <5>5. Len(<<>>) = b - P
          BY <3>2, <5>1, <5>4 DEF P
        <5>6. b = s + Pos(r, i)
          BY <5>2, <5>3, <5>5, NoUnits DEF P
        <5>7. Pos(r, i) <= Pos(r, N)
          BY <1>1, <3>1, <5>2
        <5> QED
          BY <5>2, <5>6, <5>7 DEF AtEnd
      <4>2. Ended(p, c, F, r, s, b)
        BY <3>1, <3>2, <4>1 DEF Ended
      <4> QED
        BY <2>3, <4>2
    <3>3. CASE c.p.buf # <<>>
      <4>1. More(c) = Chunk(c.p)
        BY <3>1, <3>3 DEF More
      <4>2. Sound(c.p) /\ c.p.step = 3
        BY <3>1 DEF Onward, Stays
      <4> DEFINE d == Chunk(c.p)
      <4>3. Ended(c.p, d, F, r, s, b) \/ Passed(c.p, d, F, r, s, b, i + 1)
        BY <3>1, <4>2, OneChunk
      <4>4. Onward(c.p, d.p) => Onward(p, d.p)
        BY <3>1, OnwardTwice
      <4>5. Ended(p, d, F, r, s, b) \/ Passed(p, d, F, r, s, b, i + 1)
        BY <4>3, <4>4 DEF Ended, Passed
      <4> QED
        BY <2>1, <3>1, <4>1, <4>5
    <3> QED
      BY <3>2, <3>3
  <2> QED
    BY <1>5, <2>3, <2>4
<1>6. N \in Fine
  <2> HIDE DEF Fine
  <2> QED
    BY <1>1, <1>4, <1>5, UpTo
<1> DEFINE c == chunks[N]
<1>7. Ended(p, c, F, r, s, b)
  <2>1. ~((j + 1) + N <= Len(r.body))
    <3>1. j \in Nat /\ N \in Nat
      BY <1>1
    <3> HIDE DEF Fine, N, c
    <3>2. ~((j + 1) + N <= N)
      BY <3>1
    <3> QED
      BY <3>2 DEF N
  <2> QED
    BY <1>6, <2>1 DEF Passed
<1>8. ParseTransferEncoding(p) = Verdict(c)
  BY <1>3
<1> HIDE DEF c
<1>9. ASSUME ~AtEnd(r, b - s) PROVE b - s < Len(Wire(r))
  <2>1. Len(Wire(r)) = Pos(r, N) + 5
    BY LastChunk
  <2>2. Pos(r, N) \in Nat
    BY <1>1, PosIs
  <2> QED
    BY <1>9, <2>1, <2>2 DEF AtEnd
<1>10. ParseTransferEncoding(p).p = c.p
  BY <1>8 DEF Verdict, Result
<1>11. /\ c.state = "Final" => ParseTransferEncoding(p).state = "Done"
       /\ c.state \in {"Incomplete", "Complete"} => ParseTransferEncoding(p).state = "Again"
  BY <1>8 DEF Verdict, Result
<1> QED
  BY <1>7, <1>9, <1>10, <1>11 DEF Ended, ChunksRead

(* Where the parser is in a body of chunks.                                *)
InChunks(p, F, r, s, b, j) == AtChunk(p, F, r, s, b, j) \/ InChunk(p, F, r, s, b, j)

(* A part of the body was read, and the rest is awaited.                   *)
InBody(p, F, r, s, b) ==
    \/ Sized(r) /\ p.got # 0 /\ InLength(p, F, r, s, b)
    \/ Chunked(r) /\ \E j \in 1 .. Len(r.body) : InChunks(p, F, r, s, b, j)

(* ... or all of it, whatever else has arrived.                            *)
BodyRead(p, l, F, r, s, b) ==
    /\ Stays(p, l.p)
    /\ \/ l.state = "Done" /\ l.p.body = Payload(r)
       \/ l.state = "Again" /\ b - s < Len(Wire(r)) /\ InBody(l.p, F, r, s, b)
    /\ IF Sized(r) THEN l.state = "Done" => l.p.got = 0 ELSE l.p.got = p.got
    /\ ~Chunked(r) => l.p.chunk = p.chunk

LEMMA ReadsBody ==
    ASSUME NEW F \in Seq(Units), NEW r \in Requests, NEW s \in Nat, At(F, r, s),
           Chunked(r) => HasData(r), NEW b \in Nat, b <= Len(F), s + 6 <= b,
           b - s >= Len(Wire(r)) \/ BodyBegins(r, b - s),
           NEW p, Sound(p), p.step = 3, p.req = r,
           r.framing = "none" => p.body = <<>>,
           Sized(r) => InLength(p, F, r, s, b),
           Chunked(r) => \E j \in 0 .. Len(r.body) : InChunks(p, F, r, s, b, j)
    PROVE  BodyRead(p, ReadBody(p), F, r, s, b)
<1>1. r.framing \in {"none", "length", "chunked"}
  BY RequestsAssumption
<1>2. p \in Parsers /\ p.got \in Nat /\ Stays(p, p)
  BY SoundFields DEF Stays
<1>3. CASE r.framing = "none"
  <2>1. ReadBody(p) = Result(p, "Done")
    BY <1>3 DEF ReadBody
  <2>2. Payload(r) = <<>>
    BY <1>3, WireIs
  <2> QED
    BY <1>2, <1>3, <2>1, <2>2 DEF BodyRead, Result, Sized
<1>4. CASE Sized(r)
  <2> DEFINE g == p.got
             c == ParseContentLength(p)
             n == Len(Payload(r))
  <2>1. /\ g \in Nat /\ g <= n /\ s + (6 + g) <= b
        /\ p.body = Span(F, s + 6, s + (6 + g)) /\ p.buf = Span(F, s + (6 + g), b)
    BY <1>2, <1>4 DEF InLength
  <2>2. /\ b < s + Len(Wire(r)) =>
              c = Result([p EXCEPT !.body = Span(F, s + 6, b), !.got = b - (s + 6),
                                   !.buf = Span(F, b, b)], "Again")
        /\ b >= s + Len(Wire(r)) =>
              c.state = "Done" /\ c.p.req = r /\ c.p.body = Payload(r) /\ c.p.got = 0 /\ c.p.chunk = p.chunk
    <3>1. LengthRead(p, c, F, r, s, b)
      BY <1>4, ReadsLength
    <3> HIDE DEF c
    <3> QED
      BY <3>1 DEF LengthRead
  <2>3. ReadBody(p) = c
    BY <1>4 DEF ReadBody, Sized
  <2>4. Stays(p, c.p)
    BY ContentLengthTypes
  <2>5. n \in Nat /\ Len(Wire(r)) = 6 + n
    BY <1>4, PayloadAt
  <2>6. ~Chunked(r)
    BY <1>4 DEF Sized, Chunked
  <2>7. CASE b >= s + Len(Wire(r))
    BY <1>4, <2>2, <2>3, <2>4, <2>7 DEF BodyRead
  <2>8. CASE b < s + Len(Wire(r))
    <3> DEFINE q == [p EXCEPT !.body = Span(F, s + 6, b), !.got = b - (s + 6), !.buf = Span(F, b, b)]
    <3>1. b - s < Len(Wire(r)) /\ b - s # 6
      <4>1. b - s < Len(Wire(r)) /\ ~(b - s >= Len(Wire(r)))
        BY <2>5, <2>8
      <4>2. Len(HeadOf(r)) = 6
        BY HeadIs
      <4> QED
        BY <1>4, <4>1, <4>2 DEF BodyBegins
    <3>2. c = Result(q, "Again")
      BY <2>2, <2>8
    <3>3. /\ q.body = Span(F, s + 6, b) /\ q.got = b - (s + 6) /\ q.buf = Span(F, b, b)
          /\ q.chunk = p.chunk
      BY <1>2 DEF Parsers
    <3> HIDE DEF q
    <3>4. q.got # 0 /\ q.got <= n /\ s + (6 + q.got) = b
      BY <2>5, <2>8, <3>1, <3>3
    <3>5. InLength(q, F, r, s, b)
      <4>1. b <= b
        OBVIOUS
      <4> QED
        BY <3>3, <3>4, <4>1 DEF InLength
    <3>6. InBody(q, F, r, s, b)
      BY <1>4, <3>4, <3>5 DEF InBody
    <3>7. c.state = "Again" /\ c.p = q
      BY <3>2 DEF Result
    <3> HIDE DEF c
    <3> QED
      BY <1>4, <2>3, <2>4, <3>1, <3>3, <3>6, <3>7 DEF BodyRead
  <2> QED
    BY <2>5, <2>7, <2>8
<1>5. CASE Chunked(r)
  <2> DEFINE c == ParseTransferEncoding(p)
  <2>1. PICK j \in 0 .. Len(r.body) : InChunks(p, F, r, s, b, j)
    BY <1>5
  <2>2. ChunksRead(p, c, F, r, s, b)
    BY <1>5, <2>1, ReadsChunks DEF InChunks
  <2>3. ReadBody(p) = c
    BY <1>5 DEF ReadBody, Chunked
  <2>4. ~Sized(r)
    BY <1>5 DEF Sized, Chunked
  <2> HIDE DEF c
  <2> QED
    BY <1>5, <2>2, <2>3, <2>4 DEF BodyRead, ChunksRead, Onward, InBody, InChunks
<1> QED
  BY <1>1, <1>3, <1>4, <1>5 DEF Sized, Chunked

(* From after the headers, and from where the body was left.               *)
LEMMA BodyFirst ==
    ASSUME NEW F \in Seq(Units), NEW r \in Requests, NEW s \in Nat, At(F, r, s),
           Chunked(r) => HasData(r), NEW b \in Nat, b <= Len(F), s + 6 <= b,
           b - s >= Len(Wire(r)) \/ BodyBegins(r, b - s),
           NEW p, Sound(p), p.step = 3, p.req = r, p.body = <<>>, p.buf = Span(F, s + 4, b),
           Sized(r) => p.got = 0, Chunked(r) => p.chunk = Unknown
    PROVE  BodyRead(p, BodyStep(p), F, r, s, b)
<1> DEFINE q == [p EXCEPT !.buf = Span(F, s + 6, b)]
           x == s + 6
           y == s + 4
<1>1. x \in Nat /\ x <= b /\ y \in Nat /\ y <= b /\ b - x <= b - y /\ s + 6 = x /\ s + 4 = y
  OBVIOUS
<1>2. Len(Span(F, x, b)) = b - x /\ Span(F, x, b) \in Seq(Units) /\ Len(Span(F, y, b)) = b - y
      /\ Span(F, x, x) = <<>>
  <2> HIDE DEF x, y
  <2>1. Len(Span(F, x, b)) = b - x /\ Span(F, x, b) \in Seq(Units)
    BY <1>1, SpanIs
  <2>2. Len(Span(F, y, b)) = b - y
    BY <1>1, SpanIs
  <2>3. Span(F, x, x) = <<>>
    <3>1. x <= x /\ x <= Len(F)
      BY <1>1
    <3>2. Len(Span(F, x, x)) = x - x /\ Span(F, x, x) \in Seq(Units)
      BY <1>1, <3>1, SpanIs
    <3>3. \A t \in Seq(Units) : Len(t) = 0 => t = <<>>
      OBVIOUS
    <3> QED
      BY <1>1, <3>2, <3>3
  <2> QED
    BY <2>1, <2>2, <2>3
<1>3. BodyStep(p) = ReadBody(q)
  BY ReadsFirst
<1>4. /\ q.step = 3 /\ q.req = r /\ q.body = <<>> /\ q.buf = Span(F, x, b) /\ q.got = p.got
      /\ q.chunk = p.chunk /\ q.size = p.size /\ q \in Parsers
  BY <1>2, SoundFields DEF Parsers
<1>5. Stays(p, q)
  <2>1. Len(q.buf) \in Nat /\ Len(q.buf) <= Len(p.buf)
    BY <1>1, <1>2, <1>4
  <2> HIDE DEF q
  <2> QED
    BY <1>4, <2>1, StaysIf
<1> HIDE DEF q
<1>6. Sized(r) => InLength(q, F, r, s, b)
  <2>1. ASSUME Sized(r) PROVE InLength(q, F, r, s, b)
    <3>1. q.got = 0 /\ s + (6 + q.got) = x /\ x <= b
      BY <1>1, <1>4, <2>1
    <3>2. Len(Payload(r)) \in Nat
      BY <2>1, PayloadAt
    <3>3. q.got <= Len(Payload(r))
      BY <3>1, <3>2
    <3> QED
      BY <1>2, <1>4, <3>1, <3>3 DEF InLength
  <2> QED
    BY <2>1
<1>7. Chunked(r) => \E j \in 0 .. Len(r.body) : InChunks(q, F, r, s, b, j)
  <2>1. ASSUME Chunked(r) PROVE InChunks(q, F, r, s, b, 0) /\ 0 \in 0 .. Len(r.body)
    <3>1. Body(r, 0) = <<>> /\ Pos(r, 0) = 6 /\ Len(r.body) \in Nat
      BY NoChunks, PosIs, BodyIs
    <3>2. q.chunk = Unknown
      BY <1>4, <2>1
    <3>3. s + Pos(r, 0) = x
      BY <3>1
    <3>4. AtChunk(q, F, r, s, b, 0)
      BY <1>1, <1>4, <3>1, <3>2, <3>3 DEF AtChunk
    <3> QED
      BY <3>1, <3>4 DEF InChunks
  <2> QED
    BY <2>1
<1>8. BodyRead(q, ReadBody(q), F, r, s, b)
  <2>1. Sound(q)
    BY <1>5 DEF Stays
  <2> QED
    BY <1>4, <1>6, <1>7, <2>1, ReadsBody
<1> QED
  BY <1>3, <1>4, <1>5, <1>8, StaysTwice DEF BodyRead

LEMMA BodyOn ==
    ASSUME NEW F \in Seq(Units), NEW r \in Requests, NEW s \in Nat, At(F, r, s),
           Chunked(r) => HasData(r), NEW b \in Nat, b <= Len(F), s + 6 <= b,
           b - s >= Len(Wire(r)) \/ BodyBegins(r, b - s),
           NEW p, Sound(p), p.step = 3, p.req = r, InBody(p, F, r, s, b)
    PROVE  BodyRead(p, BodyStep(p), F, r, s, b)
<1>1. p.body # <<>>
  <2>1. CASE Sized(r) /\ p.got # 0 /\ InLength(p, F, r, s, b)
    <3> DEFINE x == s + 6
               y == s + (6 + p.got)
    <3>1. x \in Nat /\ y \in Nat /\ x <= y /\ y <= Len(F) /\ y - x = p.got
      <4>1. p.got \in Nat /\ y <= b
        BY <2>1, SoundFields DEF InLength
      <4> DEFINE g == p.got
      <4> HIDE DEF g
      <4>2. g \in Nat /\ y <= b /\ y = s + (6 + g)
        BY <4>1 DEF g
      <4>3. x \in Nat /\ y \in Nat /\ x <= y /\ y <= Len(F) /\ y - x = g
        <5> HIDE DEF y
        <5> QED
          BY <4>2
      <4> QED
        BY <4>3 DEF g
    <3> HIDE DEF x, y
    <3>2. Len(Span(F, x, y)) = y - x
      BY <3>1, SpanIs
    <3>3. Len(p.body) = p.got
      BY <2>1, <3>1, <3>2 DEF InLength, x, y
    <3> QED
      BY <2>1, <3>3, NoUnits
  <2>2. CASE Chunked(r) /\ \E j \in 1 .. Len(r.body) : InChunks(p, F, r, s, b, j)
    <3>1. PICK j \in 1 .. Len(r.body) : InChunks(p, F, r, s, b, j)
      BY <2>2
    <3>2. p.body = Body(r, j)
      BY <3>1 DEF InChunks, AtChunk, InChunk
    <3> DEFINE i == j - 1
    <3>3. i \in 0 .. Len(r.body) /\ i < Len(r.body) /\ i + 1 = j
      <4>1. Len(r.body) \in Nat
        BY BodyIs
      <4> QED
        BY <4>1
    <3> HIDE DEF i
    <3>4. Body(r, j) = Body(r, i) \o BytesOf(r, r.body[j]) /\ Body(r, i) \in Seq(UnitsOf(r))
      BY <3>3, BodiesAre
    <3>5. r.body[j] \in Seq(Nat) /\ r.body[j] # <<>>
      BY <2>2, BodyIs DEF HasData
    <3>6. BytesOf(r, r.body[j]) \in Seq(UnitsOf(r)) /\ Len(BytesOf(r, r.body[j])) # 0
      <4>1. BytesOf(r, r.body[j]) \in Seq(UnitsOf(r)) /\ Len(BytesOf(r, r.body[j])) = Len(r.body[j])
        BY <3>5, BytesAre
      <4>2. \A t \in Seq(Nat) : Len(t) = 0 => t = <<>>
        OBVIOUS
      <4> QED
        BY <3>5, <4>1, <4>2
    <3> DEFINE u == Body(r, i)
               v == BytesOf(r, r.body[j])
    <3>7. u \in Seq(UnitsOf(r)) /\ v \in Seq(UnitsOf(r)) /\ Len(v) # 0 /\ p.body = u \o v
      BY <3>2, <3>4, <3>6
    <3> HIDE DEF u, v
    <3>8. Len(u \o v) = Len(u) + Len(v) /\ Len(u) \in Nat /\ Len(v) \in Nat
      BY <3>7
    <3> QED
      BY <3>7, <3>8, NoUnits
  <2> QED
    BY <2>1, <2>2 DEF InBody
<1>2. BodyStep(p) = ReadBody(p)
  BY <1>1, ReadsOn
<1>3. Sized(r) => InLength(p, F, r, s, b)
  BY DEF InBody, Sized, Chunked
<1>4. Chunked(r) => \E j \in 0 .. Len(r.body) : InChunks(p, F, r, s, b, j)
  <2>1. 1 .. Len(r.body) \subseteq 0 .. Len(r.body)
    BY BodyIs
  <2> QED
    BY <2>1 DEF InBody, Sized, Chunked
<1>5. ~(r.framing = "none")
  BY DEF InBody, Sized, Chunked
<1>6. BodyRead(p, ReadBody(p), F, r, s, b)
  BY <1>3, <1>4, <1>5, ReadsBody
<1> QED
  BY <1>2, <1>6

-------------------------------------------------------------------------------
(* What an earlier request left in got and in chunk concerns no request of *)
(* F from z on.                                                            *)
GotFree(p, F, z) ==
    p.got = 0 \/ \A q \in Requests : \A t \in 0 .. Len(F) : At(F, q, t) /\ Sized(q) => t < z

SizeFree(p, F, z) ==
    p.chunk = Unknown \/ \A q \in Requests : \A t \in 0 .. Len(F) : At(F, q, t) /\ Chunked(q) => t < z

(* The parser has the request r, which begins after s units of F and of    *)
(* which the units up to b were fed: those in buf are still to be read.    *)
Reading(p, F, r, s, b) ==
    /\ p.size = b - s
    /\ \/ p.step = 1 /\ p.body = <<>> /\ p.buf = Span(F, s, b)
       \/ p.step = 2 /\ p.req = r /\ p.body = <<>> /\ s + 3 <= b /\ p.buf = Span(F, s + 3, b)
       \/ p.step = 3 /\ p.req = r /\ s + 6 <= b /\ InBody(p, F, r, s, b)
    /\ (p.step = 3 /\ Sized(r)) \/ GotFree(p, F, s)
    /\ (p.step = 3 /\ Chunked(r)) \/ SizeFree(p, F, s)

(* A parse of units of r, which begin where r does: its body is r's when   *)
(* it is done, and otherwise it goes on.                                   *)
ParseRead(p, l, F, r, s, b) ==
    \/ l.state = "Error" /\ b = s + 1 /\ l.p = p
    \/ l.state = "Again" /\ s + 2 <= b /\ b - s < Len(Wire(r)) /\ Reading(l.p, F, r, s, b)
    \/ /\ l.state = "Done" /\ l.p.req = r /\ l.p.body = Payload(r)
       /\ GotFree(l.p, F, s + 1) /\ SizeFree(l.p, F, s + 1)

LEMMA FreeFrom ==
    ASSUME NEW p, NEW q, NEW F, NEW s \in Nat, NEW z \in Nat, s <= z
    PROVE  /\ GotFree(p, F, s) /\ q.got = p.got => GotFree(q, F, z)
           /\ SizeFree(p, F, s) /\ q.chunk = p.chunk => SizeFree(q, F, z)
<1>1. \A t \in 0 .. Len(F) : t < s => t < z
  OBVIOUS
<1> QED
  BY <1>1 DEF GotFree, SizeFree

LEMMA NoneLeft ==
    ASSUME NEW p, NEW F, NEW r \in Requests, NEW s \in Nat, At(F, r, s), s <= Len(F)
    PROVE  /\ Sized(r) /\ GotFree(p, F, s) => p.got = 0
           /\ Chunked(r) /\ SizeFree(p, F, s) => p.chunk = Unknown
<1>1. s \in 0 .. Len(F) /\ ~(s < s)
  OBVIOUS
<1> QED
  BY <1>1 DEF GotFree, SizeFree

LEMMA BodyDone ==
    ASSUME NEW F \in Seq(Units), NEW r \in Requests, NEW s \in Nat, At(F, r, s), ChunkedOnce(F),
           NEW b \in Nat, b <= Len(F), s + 6 <= b, NEW p, Sound(p), p.step = 3, p.req = r, p.size = b - s,
           Sized(r) \/ GotFree(p, F, s), Chunked(r) \/ SizeFree(p, F, s),
           NEW l, BodyRead(p, l, F, r, s, b)
    PROVE  ParseRead(p, l, F, r, s, b)
<1>1. s + 1 \in Nat /\ s <= s + 1 /\ s < s + 1 /\ s + 2 <= b
  OBVIOUS
<1>2. l.p.step = 3 /\ l.p.req = r /\ l.p.size = b - s
  BY DEF BodyRead, Stays
<1>3. Sized(r) \/ (l.p.got = p.got /\ GotFree(p, F, s))
  BY DEF BodyRead
<1>4. Chunked(r) \/ (l.p.chunk = p.chunk /\ SizeFree(p, F, s))
  BY DEF BodyRead
<1>5. CASE l.state = "Done"
  <2>1. GotFree(l.p, F, s + 1)
    <3>1. CASE Sized(r)
      BY <1>5, <3>1 DEF BodyRead, GotFree
    <3>2. CASE ~Sized(r)
      BY <1>1, <1>3, <3>2, FreeFrom
    <3> QED
      BY <3>1, <3>2
  <2>2. SizeFree(l.p, F, s + 1)
    <3>1. CASE Chunked(r)
      <4>1. s \in 0 .. Len(F)
        OBVIOUS
      <4>2. \A q \in Requests : \A t \in 0 .. Len(F) : At(F, q, t) /\ Chunked(q) => t = s
        BY <3>1, <4>1 DEF ChunkedOnce
      <4> QED
        BY <1>1, <4>2 DEF SizeFree
    <3>2. CASE ~Chunked(r)
      BY <1>1, <1>4, <3>2, FreeFrom
    <3> QED
      BY <3>1, <3>2
  <2>3. l.p.body = Payload(r)
    BY <1>5 DEF BodyRead
  <2> QED
    BY <1>2, <1>5, <2>1, <2>2, <2>3 DEF ParseRead
<1>6. CASE l.state = "Again" /\ b - s < Len(Wire(r)) /\ InBody(l.p, F, r, s, b)
  <2>1. Sized(r) \/ GotFree(l.p, F, s)
    <3>1. s <= s
      OBVIOUS
    <3> QED
      BY <1>3, <3>1, FreeFrom
  <2>2. Chunked(r) \/ SizeFree(l.p, F, s)
    <3>1. s <= s
      OBVIOUS
    <3> QED
      BY <1>4, <3>1, FreeFrom
  <2>3. Reading(l.p, F, r, s, b)
    BY <1>2, <1>6, <2>1, <2>2 DEF Reading
  <2> QED
    BY <1>1, <1>6, <2>3 DEF ParseRead
<1>7. (l.state = "Done") \/ (l.state = "Again" /\ b - s < Len(Wire(r)) /\ InBody(l.p, F, r, s, b))
  BY DEF BodyRead
<1> QED
  BY <1>5, <1>6, <1>7

LEMMA FromHeaders ==
    ASSUME NEW F \in Seq(Units), NEW r \in Requests, NEW s \in Nat, At(F, r, s), ChunkedOnce(F),
           NEW b \in Nat, b <= Len(F), s + 3 <= b,
           b - s >= Len(Wire(r)) \/ BodyBegins(r, b - s),
           NEW p, Sound(p), p.step = 2, p.req = r, p.body = <<>>, p.size = b - s,
           p.buf = Span(F, s + 3, b), GotFree(p, F, s), SizeFree(p, F, s)
    PROVE  /\ ParseRead(p, Proceed(HeadersStep(p)), F, r, s, b)
           /\ Proceed(HeadersStep(p)).state # "Next"
<1> DEFINE h == HeadersStep(p)
<1>1. /\ b < s + 6 => h = Result(p, "Again")
      /\ b >= s + 6 => h = Result([p EXCEPT !.step = 3, !.buf = Span(F, s + 4, b)], "Next")
  <2>1. HeadersRead(p, h, F, r, s, b)
    BY ReadsHeaders
  <2> HIDE DEF h
  <2> QED
    BY <2>1 DEF HeadersRead
<1>2. Becomes(p, h.p)
  BY HeadersTypes
<1>3. p \in Parsers
  BY SoundFields
<1>4. CASE b < s + 6
  <2>1. h.state = "Again" /\ h.p = p
    BY <1>1, <1>4 DEF Result
  <2>2. Proceed(h) = h
    BY <2>1 DEF Proceed
  <2>3. Reading(p, F, r, s, b)
    BY DEF Reading
  <2>4. s + 2 <= b /\ b - s < Len(Wire(r))
    <3>1. Len(Wire(r)) \in Nat /\ Len(Wire(r)) >= 6
      BY WireIs
    <3> QED
      BY <1>4, <3>1
  <2> QED
    BY <2>1, <2>2, <2>3, <2>4 DEF ParseRead
<1>5. CASE b >= s + 6
  <2> DEFINE q == [p EXCEPT !.step = 3, !.buf = Span(F, s + 4, b)]
  <2>1. h = Result(q, "Next")
    BY <1>1, <1>5
  <2>2. /\ q.step = 3 /\ q.req = r /\ q.body = <<>> /\ q.buf = Span(F, s + 4, b)
        /\ q.size = b - s /\ q.got = p.got /\ q.chunk = p.chunk
    BY <1>3 DEF Parsers
  <2> HIDE DEF q
  <2>3. h.state = "Next" /\ h.p = q
    BY <2>1 DEF Result
  <2>4. Sound(q)
    BY <1>2, <2>3 DEF Becomes
  <2>5. Proceed(h) = BodyStep(q)
    BY <2>2, <2>3 DEF Proceed, Apply
  <2>6. GotFree(q, F, s) /\ SizeFree(q, F, s)
    <3>1. s <= s
      OBVIOUS
    <3> QED
      BY <2>2, <3>1, FreeFrom
  <2>7. s <= Len(F)
    OBVIOUS
  <2>8. (Sized(r) => q.got = 0) /\ (Chunked(r) => q.chunk = Unknown)
    BY <2>6, <2>7, NoneLeft
  <2>9. Chunked(r) => HasData(r)
    <3>1. s \in 0 .. Len(F)
      OBVIOUS
    <3> QED
      BY <3>1 DEF ChunkedOnce, HasData
  <2>10. s + 6 <= b
    BY <1>5
  <2>11. BodyRead(q, BodyStep(q), F, r, s, b)
    BY <2>2, <2>4, <2>8, <2>9, <2>10, BodyFirst
  <2> DEFINE l == BodyStep(q)
  <2> HIDE DEF l
  <2>12. ParseRead(q, l, F, r, s, b)
    BY <2>2, <2>4, <2>6, <2>10, <2>11, BodyDone DEF l
  <2>13. l.state = "Done" \/ l.state = "Again"
    BY <2>11 DEF BodyRead, l
  <2> QED
    BY <2>5, <2>12, <2>13 DEF ParseRead, l
<1> QED
  BY <1>4, <1>5

LEMMA ParseIs == ASSUME NEW p PROVE Parse(p) = Proceed(Proceed(Apply(p)))
<1> DEFINE a == Apply(p)
           b == Proceed(a)
<1>1. {Proceed(l) : l \in {a}} = {b}
  OBVIOUS
<1>2. {Proceed(r) : r \in {b}} = {Proceed(b)}
  OBVIOUS
<1>3. Parse(p) = The({Proceed(r) : r \in {Proceed(l) : l \in {a}}})
  BY DEF Parse
<1> HIDE DEF a, b
<1>4. Parse(p) = Proceed(b)
  BY <1>1, <1>2, <1>3, TheOne
<1> QED
  BY <1>4 DEF a, b

(* What the parser makes of the units up to b.                             *)
LEMMA ParseReads ==
    ASSUME NEW F \in Seq(Units), NEW r \in Requests, NEW s \in Nat, At(F, r, s), ChunkedOnce(F),
           NEW b \in Nat, b <= Len(F), s < b,
           b - s >= Len(Wire(r)) \/ BodyBegins(r, b - s),
           NEW p, Sound(p), Reading(p, F, r, s, b)
    PROVE  ParseRead(p, Parse(p), F, r, s, b)
<1>1. p.step \in {1, 2, 3} /\ p \in Parsers
  BY SoundFields
<1>2. Parse(p) = Proceed(Proceed(Apply(p)))
  BY ParseIs
<1>3. CASE p.step = 1
  <2>1. p.size = b - s /\ p.body = <<>> /\ p.buf = Span(F, s, b) /\ GotFree(p, F, s) /\ SizeFree(p, F, s)
    BY <1>3 DEF Reading
  <2> DEFINE l == RequestLineStep(p)
             q == [p EXCEPT !.step = 2, !.buf = Span(F, s + 3, b), !.req = r]
  <2>2. /\ b = s + 1 => l = Result(p, "Error")
        /\ b = s + 2 => l = Result(p, "Again")
        /\ b >= s + 3 => l = Result(q, "Next")
    <3>1. LineRead(p, l, F, r, s, b)
      BY <1>3, <2>1, ReadsRequestLine
    <3> HIDE DEF l
    <3> QED
      BY <3>1 DEF LineRead
  <2>3. Apply(p) = l
    BY <1>3 DEF Apply
  <2>4. CASE b = s + 1
    <3>1. l.state = "Error" /\ l.p = p
      BY <2>2, <2>4 DEF Result
    <3>2. Parse(p) = l
      BY <1>2, <2>3, <3>1 DEF Proceed
    <3> QED
      BY <2>4, <3>1, <3>2 DEF ParseRead
  <2>5. CASE b = s + 2
    <3>1. l.state = "Again" /\ l.p = p
      BY <2>2, <2>5 DEF Result
    <3>2. Parse(p) = l
      BY <1>2, <2>3, <3>1 DEF Proceed
    <3>3. s + 2 <= b /\ b - s < Len(Wire(r))
      <4>1. Len(Wire(r)) \in Nat /\ Len(Wire(r)) >= 6
        BY WireIs
      <4> QED
        BY <2>5, <4>1
    <3> QED
      BY <3>1, <3>2, <3>3 DEF ParseRead
  <2>6. CASE b >= s + 3
    <3>1. l.state = "Next" /\ l.p = q
      BY <2>2, <2>6 DEF Result
    <3>2. /\ q.step = 2 /\ q.req = r /\ q.body = <<>> /\ q.size = b - s /\ q.buf = Span(F, s + 3, b)
          /\ q.got = p.got /\ q.chunk = p.chunk
      BY <1>1, <2>1 DEF Parsers
    <3> HIDE DEF q
    <3>3. Sound(q)
      BY <1>3, <3>1, RequestLineTypes DEF Becomes
    <3>4. GotFree(q, F, s) /\ SizeFree(q, F, s)
      <4>1. s <= s
        OBVIOUS
      <4> QED
        BY <2>1, <3>2, <4>1, FreeFrom
    <3> DEFINE h == Proceed(HeadersStep(q))
    <3>5. ParseRead(q, h, F, r, s, b) /\ h.state # "Next"
      BY <2>6, <3>2, <3>3, <3>4, FromHeaders
    <3>6. Proceed(l) = HeadersStep(q)
      BY <3>1, <3>2 DEF Proceed, Apply
    <3>7. Parse(p) = h
      BY <1>2, <2>3, <3>6
    <3>8. h.state # "Error"
      <4>1. b # s + 1
        BY <2>6
      <4>2. HeadersStep(q).state \in {"Next", "Again"}
        BY <3>2, <3>3, HeadersTypes
      <4> HIDE DEF h
      <4> QED
        BY <3>5, <4>1 DEF ParseRead
    <3> HIDE DEF h
    <3> QED
      BY <3>5, <3>7, <3>8 DEF ParseRead
  <2> QED
    BY <2>4, <2>5, <2>6
<1>4. CASE p.step = 2
  <2>1. /\ p.size = b - s /\ p.req = r /\ p.body = <<>> /\ s + 3 <= b /\ p.buf = Span(F, s + 3, b)
        /\ GotFree(p, F, s) /\ SizeFree(p, F, s)
    BY <1>4 DEF Reading
  <2> DEFINE h == Proceed(HeadersStep(p))
  <2>2. ParseRead(p, h, F, r, s, b) /\ h.state # "Next"
    BY <1>4, <2>1, FromHeaders
  <2>3. Apply(p) = HeadersStep(p)
    BY <1>4 DEF Apply
  <2>4. Parse(p) = Proceed(h)
    BY <1>2, <2>3
  <2> HIDE DEF h
  <2>5. Proceed(h) = h
    BY <2>2 DEF Proceed
  <2> QED
    BY <2>2, <2>4, <2>5
<1>5. CASE p.step = 3
  <2>1. /\ p.size = b - s /\ p.req = r /\ s + 6 <= b /\ InBody(p, F, r, s, b)

    BY <1>5 DEF Reading
  <2>2. Sized(r) \/ GotFree(p, F, s)
    BY <1>5 DEF Reading
  <2>3. Chunked(r) \/ SizeFree(p, F, s)
    BY <1>5 DEF Reading
  <2>4. Chunked(r) => HasData(r)
    <3>1. s \in 0 .. Len(F)
      OBVIOUS
    <3> QED
      BY <3>1 DEF ChunkedOnce, HasData
  <2> DEFINE l == BodyStep(p)
  <2>5. BodyRead(p, l, F, r, s, b)
    BY <1>5, <2>1, <2>4, BodyOn
  <2>6. Apply(p) = l
    BY <1>5 DEF Apply
  <2> HIDE DEF l
  <2>7. ParseRead(p, l, F, r, s, b)
    BY <1>5, <2>1, <2>2, <2>3, <2>5, BodyDone
  <2>8. l.state # "Next"
    BY <2>5 DEF BodyRead
  <2>9. Parse(p) = l
    BY <1>2, <2>6, <2>8 DEF Proceed
  <2> QED
    BY <2>7, <2>9
<1> QED
  BY <1>1, <1>3, <1>4, <1>5

(* A request has its method at its start and nowhere else.                 *)
LaterUnits(r) == {u \in UnitsOf(r) : Kind(u) # "method"}

LEMMA LaterBytes ==
    ASSUME NEW r \in Requests, NEW chunk \in Seq(Nat)
    PROVE  BytesOf(r, chunk) \in Seq(LaterUnits(r)) /\ ChunkOf(r, chunk) \in Seq(LaterUnits(r))
<1> DEFINE X == LaterUnits(r)
<1>1. \A kind \in Kinds, k \in Nat : kind # "method" => Unit(r, kind, k) \in X
  BY DEF UnitsOf, Unit, LaterUnits, Kind
<1> HIDE DEF X
<1>2. EndOfLine(r) \in Seq(X)
  BY <1>1 DEF EndOfLine, Kinds
<1>3. BytesOf(r, chunk) \in Seq(X)
  <2>1. \A k \in 1 .. Len(chunk) : chunk[k] \in Nat
    OBVIOUS
  <2>2. \A k \in 1 .. Len(chunk) : Unit(r, "data", chunk[k]) \in X
    BY <1>1, <2>1 DEF Kinds
  <2> QED
    BY <2>2 DEF BytesOf
<1>4. <<Unit(r, "size", Len(chunk))>> \in Seq(X)
  <2>1. Len(chunk) \in Nat
    OBVIOUS
  <2> QED
    BY <1>1, <2>1 DEF Kinds
<1>5. ChunkOf(r, chunk) \in Seq(X)
  BY <1>2, <1>3, <1>4 DEF ChunkOf
<1> QED
  BY <1>3, <1>5 DEF X

LEMMA LaterWire ==
    ASSUME NEW r \in Requests
    PROVE  \E t \in Seq(LaterUnits(r)) : Wire(r) = HeadOf(r) \o t
<1> DEFINE X == LaterUnits(r)
<1>1. /\ r.body \in Seq(Seq(Nat)) /\ Len(r.body) \in Nat /\ DOMAIN r.body = 1 .. Len(r.body)
      /\ \A i \in 1 .. Len(r.body) : r.body[i] \in Seq(Nat)
  BY BodyIs
<1>2. /\ [i \in DOMAIN r.body |-> ChunkOf(r, r.body[i])] \in Seq(Seq(X))
      /\ [i \in DOMAIN r.body |-> BytesOf(r, r.body[i])] \in Seq(Seq(X))
  <2>1. \A i \in 1 .. Len(r.body) : BytesOf(r, r.body[i]) \in Seq(X) /\ ChunkOf(r, r.body[i]) \in Seq(X)
    BY <1>1, LaterBytes
  <2> HIDE DEF X
  <2> QED
    BY <1>1, <2>1
<1>3. r.framing \in {"none", "length", "chunked"}
  BY RequestsAssumption
<1>4. CASE r.framing = "none"
  <2>1. Wire(r) = HeadOf(r) \o <<>> /\ <<>> \in Seq(X)
    BY <1>4 DEF Wire
  <2> QED
    BY <2>1
<1>5. CASE r.framing = "length"
  <2>1. 1 \in 1 .. Len(r.body)
    <3>1. Len(r.body) = 1
      BY <1>5, RequestsAssumption
    <3>2. 1 \in 1 .. 1
      OBVIOUS
    <3> QED
      BY <3>1, <3>2
  <2>2. BytesOf(r, r.body[1]) \in Seq(X)
    BY <1>1, <2>1, LaterBytes
  <2>3. Wire(r) = HeadOf(r) \o BytesOf(r, r.body[1])
    BY <1>5 DEF Wire
  <2> HIDE DEF X
  <2> QED
    BY <2>2, <2>3 DEF X
<1>6. CASE r.framing = "chunked"
  <2> DEFINE d == FlattenSeq([i \in DOMAIN r.body |-> ChunkOf(r, r.body[i])])
             e == ChunkOf(r, <<>>)
  <2>1. d \in Seq(X)
    BY <1>2, FlattenTypes
  <2>2. e \in Seq(X)
    <3>1. <<>> \in Seq(Nat)
      OBVIOUS
    <3> QED
      BY <3>1, LaterBytes
  <2>3. Wire(r) = HeadOf(r) \o (d \o e)
    BY <1>6 DEF Wire
  <2> HIDE DEF d, e, X
  <2>4. d \o e \in Seq(X)
    BY <2>1, <2>2
  <2> QED
    BY <2>3, <2>4 DEF X
<1> QED
  BY <1>3, <1>4, <1>5, <1>6

LEMMA NoOtherMethod ==
    ASSUME NEW F \in Seq(Units), NEW r \in Requests, NEW s \in Nat, At(F, r, s),
           NEW i \in 3 .. Len(Wire(r))
    PROVE  Kind(F[s + i]) # "method"
<1>1. PICK t \in Seq(LaterUnits(r)) : Wire(r) = HeadOf(r) \o t
  BY LaterWire
<1> DEFINE h == HeadOf(r)
<1>2. /\ h \in Seq(UnitsOf(r)) /\ Len(h) = 6 /\ Kind(h[3]) = "line" /\ Kind(h[4]) = "headers"
      /\ Kind(h[5]) = "cr" /\ Kind(h[6]) = "lf"
  BY HeadIs
<1>3. t \in Seq(UnitsOf(r)) /\ Len(t) \in Nat /\ \A k \in 1 .. Len(t) : Kind(t[k]) # "method"
  <2>1. \A k \in 1 .. Len(t) : t[k] \in LaterUnits(r)
    BY <1>1
  <2>2. \A k \in 1 .. Len(t) : t[k] \in UnitsOf(r) /\ Kind(t[k]) # "method"
    BY <2>1 DEF LaterUnits
  <2> QED
    BY <2>2
<1> HIDE DEF h
<1>4. /\ Len(h \o t) = Len(h) + Len(t)
      /\ \A k \in 1 .. Len(h) : (h \o t)[k] = h[k]
      /\ \A k \in 1 .. Len(t) : (h \o t)[Len(h) + k] = t[k]
  <2>1. h \in Seq(UnitsOf(r)) /\ t \in Seq(UnitsOf(r))
    BY <1>2, <1>3
  <2> QED
    BY <2>1, Joined
<1>5. Len(Wire(r)) = 6 + Len(t) /\ Wire(r) = h \o t
  BY <1>1, <1>2, <1>4 DEF h
<1>6. F[s + i] = Wire(r)[i]
  <2>1. i \in 1 .. Len(Wire(r))
    BY <1>3, <1>5
  <2> QED
    BY <2>1, UnitAt
<1>7. CASE i <= 6
  <2>1. i \in {3, 4, 5, 6} /\ i \in 1 .. Len(h)
    BY <1>2, <1>7
  <2>2. Wire(r)[i] = h[i]
    BY <1>4, <1>5, <2>1
  <2>3. Kind(h[i]) # "method"
    BY <1>2, <2>1
  <2> QED
    BY <1>6, <2>2, <2>3
<1>8. CASE i > 6
  <2> DEFINE k == i - 6
  <2>1. k \in 1 .. Len(t) /\ Len(h) + k = i
    BY <1>2, <1>3, <1>5, <1>8
  <2> HIDE DEF k
  <2>2. Wire(r)[i] = t[k]
    BY <1>4, <1>5, <2>1
  <2> QED
    BY <1>3, <1>6, <2>1, <2>2
<1> QED
  BY <1>7, <1>8

(* A parser that was reset.                                                *)
Fresh(p) == p.step = 1 /\ p.buf = <<>> /\ p.body = <<>> /\ p.size = 0

LEMMA FeedIs ==
    ASSUME NEW p \in Parsers, NEW u
    PROVE  LET q == Feed(p, u)
           IN  /\ q.buf = p.buf \o u /\ q.size = p.size + Len(u) /\ q.step = p.step /\ q.req = p.req
               /\ q.body = p.body /\ q.got = p.got /\ q.chunk = p.chunk
  BY DEF Feed, Parsers

LEMMA FeedFresh ==
    ASSUME NEW F \in Seq(Units), NEW r \in Requests, NEW s \in Nat, NEW b \in Nat, s <= b, b <= Len(F),
           NEW p \in Parsers, Fresh(p), GotFree(p, F, s), SizeFree(p, F, s)
    PROVE  Reading(Feed(p, Span(F, s, b)), F, r, s, b)
<1> DEFINE u == Span(F, s, b)
           q == Feed(p, u)
<1>1. u \in Seq(Units) /\ Len(u) = b - s
  BY SpanIs
<1>2. q.buf = p.buf \o u /\ q.size = p.size + Len(u) /\ q.step = p.step /\ q.body = p.body
      /\ q.got = p.got /\ q.chunk = p.chunk
  BY FeedIs
<1> HIDE DEF u, q
<1>3. q.buf = u /\ q.size = b - s /\ q.step = 1 /\ q.body = <<>>
  <2>1. <<>> \o u = u
    BY <1>1
  <2>2. 0 + Len(u) = b - s
    BY <1>1
  <2> QED
    BY <1>2, <2>1, <2>2 DEF Fresh
<1>4. GotFree(q, F, s) /\ SizeFree(q, F, s)
  <2>1. s <= s
    OBVIOUS
  <2> QED
    BY <1>2, <2>1, FreeFrom
<1> QED
  BY <1>3, <1>4 DEF Reading, u, q

LEMMA FeedMore ==
    ASSUME NEW F \in Seq(Units), NEW r \in Requests, NEW s \in Nat, NEW a \in Nat, NEW b \in Nat,
           s <= a, a <= b, b <= Len(F), NEW p, Sound(p), Reading(p, F, r, s, a)
    PROVE  Reading(Feed(p, Span(F, a, b)), F, r, s, b)
<1> DEFINE u == Span(F, a, b)
           q == Feed(p, u)
<1>1. u \in Seq(Units) /\ Len(u) = b - a
  BY SpanIs
<1>2. /\ q.buf = p.buf \o u /\ q.size = p.size + Len(u) /\ q.step = p.step /\ q.body = p.body
      /\ q.got = p.got /\ q.chunk = p.chunk /\ q.req = p.req
  BY SoundFields, FeedIs
<1> HIDE DEF q
<1>3. ASSUME NEW x \in Nat, x <= a, p.buf = Span(F, x, a) PROVE q.buf = Span(F, x, b) /\ x <= b
  <2>1. Span(F, x, a) \o Span(F, a, b) = Span(F, x, b)
    BY <1>3, SpanJoin
  <2> QED
    BY <1>2, <1>3, <2>1
<1>4. q.size = b - s
  <2>1. p.size = a - s
    BY DEF Reading
  <2> HIDE DEF u
  <2> QED
    BY <1>1, <1>2, <2>1
<1>5. ((q.step = 3 /\ Sized(r)) \/ GotFree(q, F, s)) /\ ((q.step = 3 /\ Chunked(r)) \/ SizeFree(q, F, s))
  <2>1. s <= s
    OBVIOUS
  <2>2. (GotFree(p, F, s) => GotFree(q, F, s)) /\ (SizeFree(p, F, s) => SizeFree(q, F, s))
    BY <1>2, <2>1, FreeFrom
  <2>3. ((p.step = 3 /\ Sized(r)) \/ GotFree(p, F, s)) /\ ((p.step = 3 /\ Chunked(r)) \/ SizeFree(p, F, s))
    BY DEF Reading
  <2> QED
    BY <1>2, <2>2, <2>3
<1>6. CASE p.step = 1 /\ p.body = <<>> /\ p.buf = Span(F, s, a)
  <2>1. q.buf = Span(F, s, b)
    BY <1>3, <1>6
  <2> QED
    BY <1>2, <1>4, <1>5, <1>6, <2>1 DEF Reading, q
<1>7. CASE p.step = 2 /\ p.req = r /\ p.body = <<>> /\ s + 3 <= a /\ p.buf = Span(F, s + 3, a)
  <2> DEFINE x == s + 3
  <2>1. x \in Nat /\ x <= a /\ p.buf = Span(F, x, a)
    BY <1>7
  <2> HIDE DEF x
  <2>2. q.buf = Span(F, x, b) /\ x <= b
    BY <1>3, <2>1
  <2> QED
    BY <1>2, <1>4, <1>5, <1>7, <2>2 DEF Reading, q, x
<1>8. CASE p.step = 3 /\ p.req = r /\ s + 6 <= a /\ InBody(p, F, r, s, a)
  <2>1. s + 6 <= b
    BY <1>8
  <2>2. CASE Sized(r) /\ p.got # 0 /\ InLength(p, F, r, s, a)
    <3> DEFINE x == s + (6 + p.got)
    <3>1. x \in Nat /\ x <= a /\ p.buf = Span(F, x, a)
      BY <2>2, SoundFields DEF InLength
    <3> HIDE DEF x
    <3>2. q.buf = Span(F, x, b) /\ x <= b
      BY <1>3, <3>1
    <3>3. InLength(q, F, r, s, b)
      BY <1>2, <2>2, <3>2 DEF InLength, x
    <3>4. InBody(q, F, r, s, b)
      BY <1>2, <2>2, <3>3 DEF InBody
    <3> QED
      BY <1>2, <1>4, <1>5, <1>8, <2>1, <3>4 DEF Reading, q
  <2>3. CASE Chunked(r) /\ \E j \in 1 .. Len(r.body) : InChunks(p, F, r, s, a, j)
    <3>1. PICK j \in 1 .. Len(r.body) : InChunks(p, F, r, s, a, j)
      BY <2>3
    <3>2. Pos(r, j) \in Nat
      <4>1. j \in 0 .. Len(r.body)
        BY BodyIs
      <4> QED
        BY <4>1, PosIs
    <3>3. InChunks(q, F, r, s, b, j)
      <4>1. CASE AtChunk(p, F, r, s, a, j)
        <5> DEFINE x == s + Pos(r, j)
        <5>1. x \in Nat /\ x <= a /\ p.buf = Span(F, x, a)
          BY <3>2, <4>1 DEF AtChunk
        <5> HIDE DEF x
        <5>2. q.buf = Span(F, x, b) /\ x <= b
          BY <1>3, <5>1
        <5> QED
          BY <1>2, <4>1, <5>2 DEF AtChunk, InChunks, x
      <4>2. CASE InChunk(p, F, r, s, a, j)
        <5> DEFINE x == s + Pos(r, j) + 3
        <5>1. x \in Nat /\ x <= a /\ p.buf = Span(F, x, a)
          BY <3>2, <4>2 DEF InChunk
        <5> HIDE DEF x
        <5>2. q.buf = Span(F, x, b) /\ x <= b
          BY <1>3, <5>1
        <5> QED
          BY <1>2, <4>2, <5>2 DEF InChunk, InChunks, x
      <4> QED
        BY <3>1, <4>1, <4>2 DEF InChunks
    <3>4. InBody(q, F, r, s, b)
      BY <2>3, <3>3 DEF InBody
    <3> QED
      BY <1>2, <1>4, <1>5, <1>8, <2>1, <3>4 DEF Reading, q
  <2> QED
    BY <1>8, <2>2, <2>3 DEF InBody
<1> QED
  BY <1>6, <1>7, <1>8 DEF Reading

(* Input that begins within a request is an error.                         *)
LEMMA FreshInside ==
    ASSUME NEW F \in Seq(Units), NEW r \in Requests, NEW s \in Nat, At(F, r, s),
           NEW a \in Nat, NEW b \in Nat, s < a, a < s + Len(Wire(r)), a < b, b <= Len(F),
           NEW p \in Parsers, Fresh(p)
    PROVE  LET q == Feed(p, Span(F, a, b)) IN Parse(q) = Result(q, "Error")
<1> DEFINE u == Span(F, a, b)
           q == Feed(p, u)
<1>1. u \in Seq(Units) /\ Len(u) = b - a /\ \A i \in 1 .. b - a : u[i] = F[a + i]
  <2>1. a <= b
    OBVIOUS
  <2> QED
    BY <2>1, SpanIs
<1>2. q.buf = p.buf \o u /\ q.step = p.step
  BY FeedIs
<1> HIDE DEF u, q
<1>3. q.buf = u /\ q.step = 1
  <2>1. <<>> \o u = u
    BY <1>1
  <2> QED
    BY <1>2, <2>1 DEF Fresh
<1>4. ~(Len(u) >= 2 /\ Kind(u[1]) = "method" /\ Kind(u[2]) = "method")
  <2>1. SUFFICES ASSUME Len(u) >= 2 PROVE Kind(u[1]) # "method" \/ Kind(u[2]) # "method"
    OBVIOUS
  <2>2. 1 \in 1 .. b - a /\ 2 \in 1 .. b - a
    BY <1>1, <2>1
  <2>3. u[1] = F[a + 1] /\ u[2] = F[a + 2]
    BY <1>1, <2>2
  <2>4. Len(Wire(r)) \in Nat /\ Len(Wire(r)) >= 6
    BY WireIs
  <2> DEFINE i == (a - s) + 1
  <2>5. s + i = a + 1 /\ i \in 2 .. Len(Wire(r))
    BY <2>4
  <2>6. CASE i = 2
    <3>1. s + 3 = a + 2 /\ 3 \in 3 .. Len(Wire(r))
      BY <2>4, <2>5, <2>6
    <3>2. Kind(F[s + 3]) # "method"
      BY <3>1, NoOtherMethod
    <3> QED
      BY <2>3, <3>1, <3>2
  <2>7. CASE i # 2
    <3>1. i \in 3 .. Len(Wire(r))
      BY <2>4, <2>5, <2>7
    <3> HIDE DEF i
    <3>2. Kind(F[s + i]) # "method"
      BY <3>1, NoOtherMethod
    <3> QED
      BY <2>3, <2>5, <3>2
  <2> QED
    BY <2>6, <2>7
<1>5. RequestLineStep(q) = Result(q, "Error")
  BY <1>3, <1>4 DEF RequestLineStep
<1>6. Apply(q) = Result(q, "Error")
  BY <1>3, <1>5 DEF Apply
<1>7. Parse(q) = Proceed(Proceed(Apply(q)))
  BY ParseIs
<1> QED
  BY <1>6, <1>7 DEF Proceed, Result, q, u

-------------------------------------------------------------------------------
(* What the handlers of a connection got was sent, in the first z units.   *)
HandledFrom(hs, F, z) ==
    \A i \in DOMAIN hs :
        hs[i].body = Payload(hs[i].req) /\ \E t \in 0 .. z - 1 : At(F, hs[i].req, t)

(* They got it in order, as it was sent.                                   *)
Right(hs) ==
    /\ \A i \in DOMAIN hs : hs[i].body = Payload(hs[i].req)
    /\ \A i, j \in DOMAIN hs : i < j => hs[i].req.id < hs[j].req.id

(* The parser p has got, in pieces that end where the first h segments do, *)
(* the first a units of what the client sends; the handlers got hs and k   *)
(* answers were given.  Either it waits for a request, or it has a part of *)
(* one; then the segments up to n came before the hth answer.              *)
Waiting(p, hs, k, S, h, a) ==
    /\ Fresh(p) /\ GotFree(p, All(S), a) /\ SizeFree(p, All(S), a)
    /\ HandledFrom(hs, All(S), a)
    /\ Len(Flow(S, h)) <= a /\ k <= h

Within(p, hs, k, S, n, h, a) ==
    /\ a = Len(Flow(S, h)) /\ k < h /\ Burst(S, h, n)
    /\ \E r \in Requests : \E s \in 0 .. a :
          /\ At(All(S), r, s) /\ s + 2 <= a /\ a - s < Len(Wire(r))
          /\ Reading(p, All(S), r, s, a) /\ HandledFrom(hs, All(S), s)

Holding(p, hs, k, S, n, h, a) ==
    Waiting(p, hs, k, S, h, a) \/ Within(p, hs, k, S, n, h, a)

(* What of the script S is left to send and waits to be received.          *)
Following(S, left, in, p, hs, k) ==
    \E n \in 0 .. Len(S) : \E h \in 0 .. n : \E a \in 0 .. Len(Flow(S, n)) :
        /\ left = SubSeq(S, n + 1, Len(S))
        /\ in = Span(All(S), a, Len(Flow(S, n)))
        /\ Holding(p, hs, k, S, n, h, a)

(* The account of a connection, until its client closes it.                *)
Accounted(c) ==
    /\ Right(handled[c])
    /\ fin[c] \/ \E S \in Scripts[c] :
          Following(S, rest[c], inq[c], parser[c], handled[c], answers[c])

Account == \A c \in Conn : Accounted(c)

(* The segments follow each other.                                         *)
LEMMA FlowIs ==
    ASSUME NEW S \in Seq(Segments)
    PROVE  /\ All(S) \in Seq(Units) /\ Flow(S, 0) = <<>> /\ Len(Flow(S, 0)) = 0
           /\ \A n \in 0 .. Len(S) :
                 /\ Len(Flow(S, n)) \in Nat /\ Len(Flow(S, n)) <= Len(All(S))
                 /\ \A m \in 0 .. n : Len(Flow(S, m)) <= Len(Flow(S, n))
                 /\ n < Len(S) =>
                      /\ S[n + 1].bytes = Span(All(S), Len(Flow(S, n)), Len(Flow(S, n + 1)))
                      /\ Len(Flow(S, n)) <= Len(Flow(S, n + 1)) /\ Len(Flow(S, n + 1)) <= Len(All(S))
                      /\ Len(Flow(S, n + 1)) \in Nat
<1> DEFINE N == Len(S)
           g == [i \in 1 .. N |-> S[i].bytes]
<1>1. N \in Nat /\ \A i \in 1 .. N : g[i] \in Seq(Units) /\ g[i] = S[i].bytes
  <2>1. \A i \in 1 .. N : S[i] \in Segments
    OBVIOUS
  <2> QED
    BY <2>1 DEF Segments
<1>2. \A n \in 0 .. N : Flow(S, n) = Firsts(g, n)
  <2> SUFFICES ASSUME NEW n \in 0 .. N PROVE Flow(S, n) = Firsts(g, n)
    OBVIOUS
  <2>1. \A i \in 1 .. n : i \in 1 .. N
    BY <1>1
  <2>2. [i \in 1 .. n |-> S[i].bytes] = [i \in 1 .. n |-> g[i]]
    BY <1>1, <2>1
  <2> QED
    BY <2>2 DEF Flow, Firsts
<1> HIDE DEF g
<1>3. \A n \in 0 .. N :
         /\ Firsts(g, n) \in Seq(Units) /\ Len(Firsts(g, n)) <= Len(Firsts(g, N))
         /\ Firsts(g, n) = Span(Firsts(g, N), 0, Len(Firsts(g, n)))
         /\ n < N => Firsts(g, n + 1) = Firsts(g, n) \o g[n + 1]
  BY <1>1, FlattenParts
<1>4. All(S) \in Seq(Units)
  BY <1>1, <1>2, <1>3 DEF All
<1>5. Flow(S, 0) = <<>>
  <2>1. Firsts(g, 0) = <<>>
    BY FlattenNone DEF Firsts
  <2>2. 0 \in 0 .. N
    BY <1>1
  <2> HIDE DEF N
  <2> QED
    BY <1>2, <2>1, <2>2
<1> HIDE DEF N
<1>6. ASSUME NEW n \in 0 .. N
      PROVE  /\ Flow(S, n) \in Seq(Units) /\ Len(Flow(S, n)) \in Nat /\ Len(Flow(S, n)) <= Len(All(S))
             /\ Flow(S, n) = Span(All(S), 0, Len(Flow(S, n)))
             /\ n < N => Flow(S, n + 1) = Flow(S, n) \o S[n + 1].bytes
  <2>1. N \in 0 .. N /\ Flow(S, N) = All(S) /\ (n < N => n + 1 \in 0 .. N /\ n + 1 \in 1 .. N)
    BY <1>1 DEF All, N
  <2>2. Firsts(g, n) \in Seq(Units) /\ Firsts(g, n) = Flow(S, n) /\ Firsts(g, N) = All(S)
    BY <1>2, <1>3, <2>1
  <2>3. n < N => Firsts(g, n + 1) = Flow(S, n + 1) /\ g[n + 1] = S[n + 1].bytes
    BY <1>1, <1>2, <2>1
  <2>4. Len(Flow(S, n)) \in Nat
    BY <2>2
  <2> QED
    BY <1>3, <2>2, <2>3, <2>4
<1>7. ASSUME NEW n \in 0 .. N, NEW m \in 0 .. n PROVE Len(Flow(S, m)) <= Len(Flow(S, n))
  <2>1. n \in Nat /\ \A i \in 1 .. n : i \in 1 .. N
    BY <1>1
  <2>2. \A i \in 1 .. n : g[i] \in Seq(Units)
    BY <1>1, <2>1
  <2>3. Len(Firsts(g, m)) <= Len(Firsts(g, n))
    BY <2>1, <2>2, FlattenParts
  <2>4. m \in 0 .. N
    BY <1>1
  <2> QED
    BY <1>2, <2>3, <2>4
<1>8. ASSUME NEW n \in 0 .. N, n < N
      PROVE  /\ S[n + 1].bytes = Span(All(S), Len(Flow(S, n)), Len(Flow(S, n + 1)))
             /\ Len(Flow(S, n)) <= Len(Flow(S, n + 1)) /\ Len(Flow(S, n + 1)) <= Len(All(S))
             /\ Len(Flow(S, n + 1)) \in Nat
  <2> DEFINE F == All(S)
             x == Len(Flow(S, n))
             y == Len(Flow(S, n + 1))
             u == S[n + 1].bytes
             k == n + 1
  <2>1. k \in 0 .. N /\ k \in 1 .. N
    BY <1>1, <1>8
  <2>2. u \in Seq(Units)
    BY <1>1, <2>1
  <2>3. Flow(S, k) = Flow(S, n) \o u /\ Flow(S, n) \in Seq(Units)
    BY <1>6, <1>8
  <2>4. y \in Nat /\ y <= Len(F) /\ Flow(S, k) = Span(F, 0, y)
    <3> HIDE DEF k, F
    <3>1. Len(Flow(S, k)) \in Nat /\ Len(Flow(S, k)) <= Len(F) /\ Flow(S, k) = Span(F, 0, Len(Flow(S, k)))
      BY <1>6, <2>1 DEF F
    <3> QED
      BY <3>1 DEF k
  <2>5. y = x + Len(u) /\ x \in Nat /\ Len(u) \in Nat
    BY <2>2, <2>3
  <2>6. Span(Flow(S, k), x, y) = u
    <3>1. Span(Flow(S, n) \o u, Len(Flow(S, n)), Len(Flow(S, n)) + Len(u)) = u
      BY <2>2, <2>3, SpanSecond
    <3> QED
      BY <2>3, <2>5, <3>1
  <2> HIDE DEF F, x, y, u, k
  <2>7. Span(Span(F, 0, y), x, y) = Span(F, 0 + x, 0 + y)
    <3>1. F \in Seq(Units) /\ 0 \in Nat /\ 0 <= y /\ x <= y /\ y <= y - 0
      BY <1>4, <2>4, <2>5 DEF F
    <3> QED
      BY <2>4, <2>5, <3>1, SpanWithin
  <2>8. 0 + x = x /\ 0 + y = y /\ x <= y
    BY <2>4, <2>5
  <2>9. u = Span(F, x, y)
    BY <2>4, <2>6, <2>7, <2>8
  <2> QED
    BY <2>4, <2>8, <2>9 DEF F, x, y, u, k
<1>9. Len(Flow(S, 0)) = 0
  BY <1>5, NoUnits
<1> QED
  BY <1>4, <1>5, <1>6, <1>7, <1>8, <1>9 DEF N

LEMMA ResetKeeps ==
    ASSUME NEW p \in Parsers
    PROVE  Fresh(Reset(p)) /\ Reset(p).got = p.got /\ Reset(p).chunk = p.chunk /\ Reset(p) \in Parsers
<1>1. Reset(p) \in Parsers
  BY ResetTypes DEF Sound
<1> QED
  BY <1>1 DEF Reset, Fresh, Parsers

LEMMA HandledMore ==
    ASSUME NEW hs, NEW F, NEW z \in Nat, NEW y \in Nat, z <= y, HandledFrom(hs, F, z)
    PROVE  HandledFrom(hs, F, y)
<1>1. \A t \in 0 .. z - 1 : t \in 0 .. y - 1
  OBVIOUS
<1> QED
  BY <1>1 DEF HandledFrom

(* A request after the others.                                             *)
LEMMA HandledNext ==
    ASSUME NEW F \in Seq(Units), IdsRise(F), NEW r \in Requests, NEW s \in Nat, At(F, r, s),
           NEW hs \in Seq(Deliveries), Right(hs), HandledFrom(hs, F, s),
           NEW d, d.req = r, d.body = Payload(r), NEW b \in Nat, s < b
    PROVE  Right(Append(hs, d)) /\ HandledFrom(Append(hs, d), F, b)
<1> DEFINE N == Len(hs)
           k == Append(hs, d)
<1>1. /\ N \in Nat /\ DOMAIN hs = 1 .. N /\ DOMAIN k = 1 .. N + 1
      /\ k[N + 1] = d /\ \A i \in 1 .. N : k[i] = hs[i]
  OBVIOUS
<1>2. ASSUME NEW i \in 1 .. N PROVE hs[i].req \in Requests
  <2>1. hs[i] \in Deliveries
    OBVIOUS
  <2> QED
    BY <2>1 DEF Deliveries
<1> HIDE DEF N, k
<1>3. \A i \in 1 .. N : hs[i].body = Payload(hs[i].req) /\ \E t \in 0 .. s - 1 : At(F, hs[i].req, t)
  BY <1>1 DEF HandledFrom
<1>4. s \in 0 .. b - 1
  OBVIOUS
<1>5. \A i \in 1 .. N + 1 : k[i].body = Payload(k[i].req)
  BY <1>1, <1>3
<1>6. \A i \in 1 .. N + 1 : \E t \in 0 .. b - 1 : At(F, k[i].req, t)
  <2> SUFFICES ASSUME NEW i \in 1 .. N + 1 PROVE \E t \in 0 .. b - 1 : At(F, k[i].req, t)
    OBVIOUS
  <2>1. CASE i \in 1 .. N
    <3>1. \A t \in 0 .. s - 1 : t \in 0 .. b - 1
      OBVIOUS
    <3> QED
      BY <1>1, <1>3, <2>1, <3>1
  <2>2. CASE i = N + 1
    BY <1>1, <1>4, <2>2
  <2> QED
    BY <1>1, <2>1, <2>2
<1>7. ASSUME NEW i \in 1 .. N PROVE hs[i].req.id < r.id
  <2> DEFINE q == hs[i].req
  <2>1. PICK t \in 0 .. s - 1 : At(F, q, t)
    BY <1>3
  <2>2. q \in Requests
    BY <1>2
  <2> HIDE DEF q
  <2>3. s + Len(Wire(r)) <= Len(F) /\ Len(Wire(r)) \in Nat /\ Len(F) \in Nat
    BY WireIs DEF At
  <2>4. t \in 0 .. Len(F) /\ s \in t + 1 .. Len(F)
    BY <2>3
  <2>5. \A u \in t + 1 .. Len(F) : At(F, r, u) => q.id < r.id
    BY <2>1, <2>2, <2>4 DEF IdsRise
  <2> QED
    BY <2>4, <2>5 DEF q
<1>8. ASSUME NEW i \in 1 .. N + 1, NEW j \in 1 .. N + 1, i < j PROVE k[i].req.id < k[j].req.id
  <2>1. i \in 1 .. N /\ (j \in 1 .. N \/ j = N + 1)
    BY <1>1, <1>8
  <2>2. CASE j \in 1 .. N
    BY <1>1, <1>8, <2>1, <2>2 DEF Right
  <2>3. CASE j = N + 1
    BY <1>1, <1>7, <2>1, <2>3
  <2> QED
    BY <2>1, <2>2, <2>3
<1> QED
  BY <1>1, <1>5, <1>6, <1>8 DEF Right, HandledFrom, k

LEMMA NextRequest ==
    ASSUME NEW F \in Seq(Units), RequestsAreWhole(F), NEW a \in Nat, a < Len(F)
    PROVE  \E r \in Requests : \E s \in 0 .. a : At(F, r, s) /\ a < s + Len(Wire(r))
<1>1. a + 1 \in 1 .. Len(F) /\ (a + 1) - 1 = a
  OBVIOUS
<1>2. PICK r \in Requests, s \in 0 .. (a + 1) - 1 : At(F, r, s) /\ a + 1 <= s + Len(Wire(r))
  BY <1>1 DEF RequestsAreWhole
<1>3. Len(Wire(r)) \in Nat
  BY WireIs
<1>4. s \in 0 .. a /\ a < s + Len(Wire(r))
  BY <1>1, <1>2, <1>3
<1> QED
  BY <1>2, <1>4

LEMMA CutHere ==
    ASSUME NEW S \in Seq(Segments), CutsAreRight(S), NEW n \in 0 .. Len(S),
           NEW r \in Requests, NEW s \in Nat, At(All(S), r, s), s < Len(Flow(S, n))
    PROVE  \/ Len(Flow(S, n)) - s >= Len(Wire(r))
           \/ BodyBegins(r, Len(Flow(S, n)) - s) /\ RoomFor(S, n, r, s)
<1>1. Len(Wire(r)) \in Nat /\ Len(Flow(S, n)) \in Nat /\ Len(Flow(S, n)) <= Len(All(S)) /\ Len(All(S)) \in Nat
  BY WireIs, FlowIs
<1>2. s \in 0 .. Len(All(S))
  BY <1>1
<1>3. s < Len(Flow(S, n)) /\ Len(Flow(S, n)) < s + Len(Wire(r)) =>
          BodyBegins(r, Len(Flow(S, n)) - s) /\ RoomFor(S, n, r, s)
  BY <1>2 DEF CutsAreRight
<1>4. Len(Flow(S, n)) < s + Len(Wire(r)) \/ Len(Flow(S, n)) - s >= Len(Wire(r))
  BY <1>1
<1> QED
  BY <1>3, <1>4

(* After a reset at the end of a segment.                                  *)
LEMMA Anew ==
    ASSUME NEW S \in Seq(Segments), NEW n \in 0 .. Len(S), NEW b \in Nat, b = Len(Flow(S, n)),
           NEW p \in Parsers, GotFree(p, All(S), b), SizeFree(p, All(S), b),
           NEW hs, HandledFrom(hs, All(S), b), NEW k \in Nat, k <= n
    PROVE  Holding(Reset(p), hs, k, S, n, n, b)
<1>1. Fresh(Reset(p)) /\ Reset(p).got = p.got /\ Reset(p).chunk = p.chunk
  BY ResetKeeps
<1>2. b <= b
  OBVIOUS
<1>3. GotFree(Reset(p), All(S), b) /\ SizeFree(Reset(p), All(S), b)
  BY <1>1, <1>2, FreeFrom
<1> QED
  BY <1>1, <1>2, <1>3 DEF Holding, Waiting

(* What was parsed at the end of a segment.                                *)
Onto(l, hs, k, S, n, b) ==
    /\ l.state = "Again" => Holding(l.p, hs, k, S, n, n, b)
    /\ l.state = "Error" => Holding(Reset(l.p), hs, k + 1, S, n, n, b)
    /\ l.state = "Done" => /\ Holding(Reset(l.p), Append(hs, Routed(l.p)), k + 1, S, n, n, b)
                           /\ Right(Append(hs, Routed(l.p)))

LEMMA ParsedHolds ==
    ASSUME NEW S \in Seq(Segments), IdsRise(All(S)), NEW n \in 0 .. Len(S),
           NEW b \in Nat, b = Len(Flow(S, n)),
           NEW r \in Requests, NEW s \in Nat, s < b, At(All(S), r, s),
           NEW hs \in Seq(Deliveries), Right(hs), HandledFrom(hs, All(S), s), NEW k \in Nat, k < n,
           NEW q, b = s + 1 => GotFree(q, All(S), s) /\ SizeFree(q, All(S), s),
           NEW l, Sound(l.p), ParseRead(q, l, All(S), r, s, b)
    PROVE  Onto(l, hs, k, S, n, b)
<1> DEFINE F == All(S)
<1>1. l.p \in Parsers
  BY DEF Sound
<1>2. k + 1 \in Nat /\ k + 1 <= n /\ s + 1 \in Nat /\ s <= b /\ s + 1 <= b /\ s \in 0 .. b
  OBVIOUS
<1>3. F \in Seq(Units)
  BY FlowIs
<1>4. CASE l.state = "Again"
  <2>1. s + 2 <= b /\ b - s < Len(Wire(r)) /\ Reading(l.p, F, r, s, b)
    BY <1>4 DEF ParseRead
  <2>2. Burst(S, n, n)
    <3>1. \A i \in n + 1 .. n : FALSE
      OBVIOUS
    <3> QED
      BY <3>1 DEF Burst
  <2>3. Within(l.p, hs, k, S, n, n, b)
    BY <1>2, <2>1, <2>2 DEF Within
  <2> QED
    BY <1>4, <2>3 DEF Onto, Holding
<1>5. CASE l.state = "Error"
  <2>1. b = s + 1 /\ l.p = q
    BY <1>5 DEF ParseRead
  <2>2. GotFree(q, F, s) /\ SizeFree(q, F, s)
    BY <2>1
  <2>3. GotFree(l.p, F, b) /\ SizeFree(l.p, F, b)
    BY <1>2, <2>1, <2>2, FreeFrom
  <2>4. HandledFrom(hs, F, b)
    BY <1>2, HandledMore
  <2>5. Holding(Reset(l.p), hs, k + 1, S, n, n, b)
    <3> DEFINE m == k + 1
    <3>1. m \in Nat /\ m <= n
      BY <1>2
    <3> HIDE DEF m, F
    <3>2. Holding(Reset(l.p), hs, m, S, n, n, b)
      BY <1>1, <2>3, <2>4, <3>1, Anew DEF F
    <3> QED
      BY <3>2 DEF m
  <2> QED
    BY <1>5, <2>5 DEF Onto
<1>6. CASE l.state = "Done"
  <2>1. l.p.req = r /\ l.p.body = Payload(r) /\ GotFree(l.p, F, s + 1) /\ SizeFree(l.p, F, s + 1)
    BY <1>6 DEF ParseRead
  <2>2. GotFree(l.p, F, b) /\ SizeFree(l.p, F, b)
    <3> DEFINE m == s + 1
    <3>1. m \in Nat /\ m <= b /\ GotFree(l.p, F, m) /\ SizeFree(l.p, F, m)
      BY <1>2, <2>1
    <3> HIDE DEF m
    <3> QED
      BY <3>1, FreeFrom
  <2> DEFINE d == Routed(l.p)
             hn == Append(hs, d)
  <2>3. d.req = r /\ d.body = Payload(r)
    BY <2>1 DEF Routed
  <2> HIDE DEF d
  <2>4. Right(hn) /\ HandledFrom(hn, F, b)
    BY <1>3, <2>3, HandledNext
  <2>5. Holding(Reset(l.p), hn, k + 1, S, n, n, b)
    <3> DEFINE m == k + 1
    <3>1. m \in Nat /\ m <= n
      BY <1>2
    <3> HIDE DEF m, F, hn
    <3>2. Holding(Reset(l.p), hn, m, S, n, n, b)
      BY <1>1, <2>2, <2>4, <3>1, Anew DEF F
    <3> QED
      BY <3>2 DEF m
  <2> QED
    BY <1>6, <2>4, <2>5 DEF Onto, d
<1> QED
  BY <1>4, <1>5, <1>6 DEF Onto

(* What is fed to the parser that waits for a request is one, or the rest  *)
(* of one.                                                                 *)
LEMMA WaitingFed ==
    ASSUME NEW S \in Seq(Segments), SentRight(S), NEW n \in 0 .. Len(S), NEW h \in 0 .. n,
           NEW a \in Nat, a < Len(Flow(S, n)),
           NEW p, Sound(p), NEW hs \in Seq(Deliveries), Right(hs), NEW k \in Nat,
           Waiting(p, hs, k, S, h, a)
    PROVE  /\ Holding(Reset(p), hs, k + 1, S, n, n, Len(Flow(S, n)))
           /\ Onto(Parse(Feed(p, Span(All(S), a, Len(Flow(S, n))))), hs, k, S, n, Len(Flow(S, n)))
<1> DEFINE F == All(S)
           b == Len(Flow(S, n))
           u == Span(F, a, b)
           q == Feed(p, u)
           l == Parse(q)
<1>1. F \in Seq(Units) /\ b \in Nat /\ b <= Len(F)
  BY FlowIs
<1>2. /\ Fresh(p) /\ GotFree(p, F, a) /\ SizeFree(p, F, a) /\ HandledFrom(hs, F, a)
      /\ Len(Flow(S, h)) <= a /\ k <= h
  BY DEF Waiting
<1>3. k < n
  <2>1. CASE h = n
    <3>1. Len(Flow(S, n)) <= a
      BY <1>2, <2>1
    <3> QED
      BY <1>1, <3>1
  <2>2. CASE h # n
    BY <1>2, <2>2
  <2> QED
    BY <2>1, <2>2
<1> HIDE DEF b, F
<1>4. a < b /\ a <= b /\ k + 1 \in Nat /\ k + 1 <= n /\ a < Len(F) /\ b = Len(Flow(S, n)) /\ F = All(S)
  BY <1>1, <1>3 DEF b, F
<1>5. p \in Parsers
  BY DEF Sound
<1>6. GotFree(p, F, b) /\ SizeFree(p, F, b)
  BY <1>1, <1>2, <1>4, FreeFrom
<1>7. HandledFrom(hs, F, b)
  BY <1>1, <1>2, <1>4, HandledMore
<1> DEFINE m == k + 1
<1> HIDE DEF m
<1>8. ASSUME NEW x \in Parsers, GotFree(x, F, b), SizeFree(x, F, b)
      PROVE  Holding(Reset(x), hs, m, S, n, n, b)
  <2>1. m \in Nat /\ m <= n
    BY <1>4 DEF m
  <2>2. GotFree(x, All(S), b) /\ SizeFree(x, All(S), b) /\ HandledFrom(hs, All(S), b)
    BY <1>7, <1>8 DEF F
  <2> QED
    BY <1>1, <1>4, <2>1, <2>2, Anew
<1>9. Holding(Reset(p), hs, m, S, n, n, b)
  BY <1>5, <1>6, <1>8
<1>10. PICK r \in Requests, s \in 0 .. a : At(F, r, s) /\ a < s + Len(Wire(r))
  <2>1. RequestsAreWhole(F)
    BY DEF SentRight, F
  <2> QED
    BY <1>1, <1>4, <2>1, NextRequest
<1>11. u \in Seq(Units)
  BY <1>1, <1>4, SpanIs
<1>12. Sound(q) /\ q.got = p.got /\ q.chunk = p.chunk
  <2> HIDE DEF u
  <2>1. Sound(q)
    BY <1>11, FeedTypes
  <2>2. q.got = p.got /\ q.chunk = p.chunk
    BY <1>5, FeedIs
  <2> QED
    BY <2>1, <2>2
<1>13. Onto(l, hs, k, S, n, b)
  <2>1. CASE s < a
    <3>1. l = Result(q, "Error")
      BY <1>1, <1>2, <1>4, <1>5, <1>10, <2>1, FreshInside
    <3> HIDE DEF l, q, u
    <3>2. l.state = "Error" /\ l.p = q
      BY <3>1 DEF Result
    <3>3. GotFree(q, F, b) /\ SizeFree(q, F, b)
      <4>1. b <= b
        BY <1>1
      <4> QED
        BY <1>1, <1>6, <1>12, <4>1, FreeFrom
    <3>4. q \in Parsers
      BY <1>12 DEF Sound
    <3>5. Holding(Reset(q), hs, k + 1, S, n, n, b)
      BY <1>8, <3>3, <3>4 DEF m
    <3> QED
      BY <3>2, <3>5 DEF Onto
  <2>2. CASE s = a
    <3>1. At(F, r, a)
      BY <1>10, <2>2
    <3>2. Reading(q, F, r, a, b)
      BY <1>1, <1>2, <1>4, <1>5, FeedFresh
    <3>3. b - a >= Len(Wire(r)) \/ BodyBegins(r, b - a)
      <4>1. CutsAreRight(S)
        BY DEF SentRight
      <4>2. At(All(S), r, a) /\ a < Len(Flow(S, n))
        BY <3>1 DEF F
      <4> QED
        BY <1>4, <4>1, <4>2, CutHere
    <3>4. ChunkedOnce(F) /\ IdsRise(F)
      BY DEF SentRight, F
    <3> HIDE DEF q, u
    <3>5. ParseRead(q, l, F, r, a, b)
      BY <1>1, <1>4, <1>12, <3>1, <3>2, <3>3, <3>4, ParseReads
    <3>6. Sound(l.p)
      BY <1>12, ParseTypes
    <3> HIDE DEF l
    <3>7. GotFree(q, F, a) /\ SizeFree(q, F, a)
      <4>1. a <= a
        OBVIOUS
      <4> QED
        BY <1>2, <1>12, <4>1, FreeFrom
    <3>8. /\ IdsRise(All(S)) /\ At(All(S), r, a) /\ HandledFrom(hs, All(S), a)
          /\ GotFree(q, All(S), a) /\ SizeFree(q, All(S), a) /\ ParseRead(q, l, All(S), r, a, b)
      BY <1>2, <3>1, <3>4, <3>5, <3>7 DEF F
    <3> QED
      BY <1>1, <1>3, <1>4, <3>6, <3>8, ParsedHolds
  <2> QED
    BY <1>10, <2>1, <2>2
<1> QED
  BY <1>9, <1>13 DEF b, F, m

(* The buffer is full before the body is read: what the parser keeps of    *)
(* the part it has read concerns no request that follows.                  *)
LEMMA FullWithin ==
    ASSUME NEW S \in Seq(Segments), SentRight(S), NEW n \in 0 .. Len(S), NEW h \in 0 .. n,
           NEW b \in Nat, b = Len(Flow(S, n)), NEW a \in Nat, a < b, a = Len(Flow(S, h)), Burst(S, h, n),
           NEW r \in Requests, NEW s \in Nat, At(All(S), r, s), s + 2 <= a, a - s < Len(Wire(r)),
           NEW p, Sound(p), Reading(p, All(S), r, s, a), ~(b - s < MaxBuffer)
    PROVE  GotFree(p, All(S), b) /\ SizeFree(p, All(S), b)
<1> DEFINE F == All(S)
<1>1. F \in Seq(Units) /\ Len(F) \in Nat /\ b <= Len(F)
  BY FlowIs
<1>2. s \in 0 .. Len(F) /\ s < b /\ s <= b /\ \A t \in 0 .. Len(F) : t <= s => t < b
  BY <1>1
<1>3. h \in 0 .. Len(S) /\ n \in h .. Len(S)
  OBVIOUS
<1>4. ((p.step = 3 /\ Sized(r)) \/ GotFree(p, F, s)) /\ ((p.step = 3 /\ Chunked(r)) \/ SizeFree(p, F, s))
  BY DEF Reading
<1>5. GotFree(p, F, b)
  <2>1. CASE GotFree(p, F, s)
    BY <1>2, <2>1, FreeFrom
  <2>2. CASE p.step = 3 /\ Sized(r)
    <3>1. s + 6 <= a
      BY <2>2 DEF Reading
    <3>2. BodyBegins(r, a - s) /\ RoomFor(S, h, r, s)
      <4>1. CutsAreRight(S) /\ s < Len(Flow(S, h)) /\ ~(Len(Flow(S, h)) - s >= Len(Wire(r)))
        <5>1. Len(Wire(r)) \in Nat /\ s < a /\ ~(a - s >= Len(Wire(r)))
          BY WireIs
        <5> QED
          BY <5>1 DEF SentRight
      <4> QED
        BY <1>3, <4>1, CutHere
    <3>3. a - s # 6
      BY <2>2, <3>2, HeadIs DEF BodyBegins
    <3>4. Len(Flow(S, h)) > s + Len(HeadOf(r))
      <4>1. a > s + 6
        BY <3>1, <3>3
      <4> QED
        BY <4>1, HeadIs
    <3>5. \/ Len(Flow(S, n)) - s < MaxBuffer
          \/ \A q \in Requests : \A t \in 0 .. Len(F) : At(F, q, t) /\ Sized(q) => t <= s
      BY <1>3, <2>2, <3>2, <3>4 DEF RoomFor
    <3> HIDE DEF F
    <3>6. \A q \in Requests : \A t \in 0 .. Len(F) : At(F, q, t) /\ Sized(q) => t <= s
      BY <3>5
    <3> QED
      BY <1>2, <3>6 DEF GotFree
  <2> QED
    BY <1>4, <2>1, <2>2
<1>6. SizeFree(p, F, b)
  <2>1. CASE SizeFree(p, F, s)
    BY <1>2, <2>1, FreeFrom
  <2>2. CASE Chunked(r)
    <3>1. ChunkedOnce(F)
      BY DEF SentRight
    <3> HIDE DEF F
    <3>2. \A q \in Requests : \A t \in 0 .. Len(F) : At(F, q, t) /\ Chunked(q) => t = s
      <4>1. At(F, r, s)
        BY DEF F
      <4> QED
        BY <1>2, <2>2, <3>1, <4>1 DEF ChunkedOnce
    <3> QED
      BY <1>2, <3>2 DEF SizeFree
  <2> QED
    BY <1>4, <2>1, <2>2
<1> QED
  BY <1>5, <1>6

(* What is fed to the parser that has a part of a request continues it.    *)
LEMMA WithinFed ==
    ASSUME NEW S \in Seq(Segments), SentRight(S), NEW n \in 0 .. Len(S), NEW h \in 0 .. n,
           NEW a \in Nat, a < Len(Flow(S, n)),
           NEW p, Sound(p), NEW hs \in Seq(Deliveries), Right(hs), NEW k \in Nat,
           Within(p, hs, k, S, n, h, a)
    PROVE  LET u == Span(All(S), a, Len(Flow(S, n)))
           IN  IF Fits(p, u) THEN Onto(Parse(Feed(p, u)), hs, k, S, n, Len(Flow(S, n)))
               ELSE Holding(Reset(p), hs, k + 1, S, n, n, Len(Flow(S, n)))
<1> DEFINE F == All(S)
           b == Len(Flow(S, n))
           u == Span(F, a, b)
           q == Feed(p, u)
           l == Parse(q)
<1>1. F \in Seq(Units) /\ b \in Nat /\ b <= Len(F)
  BY FlowIs
<1>2. a = Len(Flow(S, h)) /\ k < h /\ Burst(S, h, n)
  BY DEF Within
<1>3. PICK r \in Requests, s \in 0 .. a :
         /\ At(F, r, s) /\ s + 2 <= a /\ a - s < Len(Wire(r))
         /\ Reading(p, F, r, s, a) /\ HandledFrom(hs, F, s)
  BY DEF Within
<1> HIDE DEF b, F
<1>4. a < b /\ a <= b /\ b = Len(Flow(S, n)) /\ F = All(S)
  BY DEF b, F
<1>5. k < n /\ k + 1 \in Nat /\ k + 1 <= n /\ s \in Nat /\ s < b /\ s <= a /\ s <= b /\ b # s + 1
  BY <1>1, <1>2, <1>3, <1>4
<1>6. u \in Seq(Units) /\ Len(u) = b - a
  BY <1>1, <1>4, SpanIs
<1>7. Fits(p, u) <=> b - s < MaxBuffer
  <2>1. p.size = a - s
    BY <1>3 DEF Reading
  <2> HIDE DEF u
  <2>2. p.size + Len(u) = b - s
    BY <1>1, <1>5, <1>6, <2>1
  <2> QED
    BY <2>2 DEF Fits
<1>8. CASE ~Fits(p, u)
  <2>1. ~(b - s < MaxBuffer)
    BY <1>7, <1>8
  <2>2. GotFree(p, All(S), b) /\ SizeFree(p, All(S), b)
    <3>1. At(All(S), r, s) /\ Reading(p, All(S), r, s, a)
      BY <1>3 DEF F
    <3> QED
      BY <1>1, <1>2, <1>3, <1>4, <1>5, <2>1, <3>1, FullWithin
  <2>3. HandledFrom(hs, All(S), b)
    BY <1>1, <1>3, <1>5, HandledMore DEF F
  <2>4. p \in Parsers
    BY DEF Sound
  <2> DEFINE m == k + 1
  <2>5. m \in Nat /\ m <= n
    BY <1>5
  <2> HIDE DEF m, u
  <2>6. Holding(Reset(p), hs, m, S, n, n, b)
    BY <1>1, <1>4, <2>2, <2>3, <2>4, <2>5, Anew
  <2> QED
    BY <1>8, <2>6 DEF m, u, b, F
<1>9. CASE Fits(p, u)
  <2>1. Reading(q, F, r, s, b)
    BY <1>1, <1>3, <1>4, <1>5, FeedMore
  <2>2. b - s >= Len(Wire(r)) \/ BodyBegins(r, b - s)
    <3>1. CutsAreRight(S)
      BY DEF SentRight
    <3>2. At(All(S), r, s) /\ s < Len(Flow(S, n))
      BY <1>3, <1>5 DEF F, b
    <3> QED
      BY <1>4, <1>5, <3>1, <3>2, CutHere
  <2>3. ChunkedOnce(F) /\ IdsRise(F)
    BY DEF SentRight, F
  <2>4. Sound(q)
    <3> HIDE DEF u
    <3> QED
      BY <1>6, FeedTypes
  <2> HIDE DEF q
  <2>5. ParseRead(q, l, F, r, s, b)
    BY <1>1, <1>3, <1>5, <2>1, <2>2, <2>3, <2>4, ParseReads
  <2>6. Sound(l.p)
    BY <2>4, ParseTypes
  <2> HIDE DEF l
  <2>7. /\ IdsRise(All(S)) /\ At(All(S), r, s) /\ HandledFrom(hs, All(S), s)
        /\ ParseRead(q, l, All(S), r, s, b)
    BY <1>3, <2>3, <2>5 DEF F
  <2>8. b = s + 1 => GotFree(q, All(S), s) /\ SizeFree(q, All(S), s)
    BY <1>5
  <2>9. Onto(l, hs, k, S, n, b)
    BY <1>1, <1>4, <1>5, <2>6, <2>7, <2>8, ParsedHolds
  <2> QED
    BY <1>9, <2>9 DEF l, q, u, b, F
<1> QED
  BY <1>8, <1>9

-------------------------------------------------------------------------------
LEMMA LeftIs ==
    ASSUME NEW S \in Seq(Segments), NEW n \in 0 .. Len(S), SubSeq(S, n + 1, Len(S)) # <<>>
    PROVE  /\ n < Len(S) /\ n + 1 \in 0 .. Len(S) /\ n + 1 \in 1 .. Len(S)
           /\ Head(SubSeq(S, n + 1, Len(S))) = S[n + 1]
           /\ Tail(SubSeq(S, n + 1, Len(S))) = SubSeq(S, (n + 1) + 1, Len(S))
<1> DEFINE L == SubSeq(S, n + 1, Len(S))
<1>1. L \in Seq(Segments) /\ Len(L) = Len(S) - n /\ \A i \in 1 .. Len(S) - n : L[i] = S[n + i]
  OBVIOUS
<1> HIDE DEF L
<1>2. n < Len(S)
  <2>1. Len(L) # 0
    BY <1>1 DEF L
  <2> QED
    BY <1>1, <2>1
<1>3. n + 1 \in 0 .. Len(S) /\ n + 1 \in 1 .. Len(S) /\ 1 \in 1 .. Len(S) - n
  BY <1>2
<1>4. Head(L) = S[n + 1]
  BY <1>1, <1>3
<1> DEFINE T == SubSeq(S, (n + 1) + 1, Len(S))
<1>5. T \in Seq(Segments) /\ Len(T) = Len(S) - (n + 1)
      /\ \A i \in 1 .. Len(S) - (n + 1) : T[i] = S[(n + 1) + i]
  BY <1>2
<1>6. Tail(L) \in Seq(Segments) /\ Len(Tail(L)) = Len(L) - 1 /\ \A i \in 1 .. Len(L) - 1 : Tail(L)[i] = L[i + 1]
  <2>1. L # <<>>
    BY DEF L
  <2> QED
    BY <1>1, <2>1
<1> HIDE DEF T
<1>7. Tail(L) = T
  <2>1. Len(Tail(L)) = Len(T)
    BY <1>1, <1>5, <1>6
  <2>2. \A i \in 1 .. Len(T) : Tail(L)[i] = T[i]
    <3> SUFFICES ASSUME NEW i \in 1 .. Len(T) PROVE Tail(L)[i] = T[i]
      OBVIOUS
    <3>1. i \in 1 .. Len(L) - 1 /\ i + 1 \in 1 .. Len(S) - n /\ i \in 1 .. Len(S) - (n + 1) /\ n + (i + 1) = (n + 1) + i
      BY <1>1, <1>5
    <3> QED
      BY <1>1, <1>5, <1>6, <3>1
  <2> QED
    BY <1>5, <1>6, <2>1, <2>2, SameSeq
<1> QED
  BY <1>2, <1>3, <1>4, <1>7 DEF L, T

LEMMA BurstMore ==
    ASSUME NEW S \in Seq(Segments), NEW n \in Nat, NEW h \in Nat, Burst(S, h, n), S[n + 1].after < h
    PROVE  Burst(S, h, n + 1)
<1>1. \A i \in h + 1 .. n + 1 : i \in h + 1 .. n \/ i = n + 1
  OBVIOUS
<1> QED
  BY <1>1 DEF Burst

(* The next segment arrives.                                               *)
LEMMA FollowsOn ==
    ASSUME NEW S \in Seq(Segments), NEW left, NEW in, NEW p, NEW hs, NEW k \in Nat,
           Following(S, left, in, p, hs, k), left # <<>>, Head(left).after <= k
    PROVE  Following(S, Tail(left), in \o Head(left).bytes, p, hs, k)
<1> DEFINE F == All(S)
<1>0. PICK n \in 0 .. Len(S) : \E h \in 0 .. n : \E a \in 0 .. Len(Flow(S, n)) :
         /\ left = SubSeq(S, n + 1, Len(S)) /\ in = Span(F, a, Len(Flow(S, n)))
         /\ Holding(p, hs, k, S, n, h, a)
  BY DEF Following
<1>0a. PICK h \in 0 .. n : \E a \in 0 .. Len(Flow(S, n)) :
         /\ left = SubSeq(S, n + 1, Len(S)) /\ in = Span(F, a, Len(Flow(S, n)))
         /\ Holding(p, hs, k, S, n, h, a)
  BY <1>0
<1>1. PICK a \in 0 .. Len(Flow(S, n)) :
         /\ left = SubSeq(S, n + 1, Len(S)) /\ in = Span(F, a, Len(Flow(S, n)))
         /\ Holding(p, hs, k, S, n, h, a)
  BY <1>0a
<1> DEFINE m == n + 1
           x == Len(Flow(S, n))
           y == Len(Flow(S, m))
<1>2. n < Len(S) /\ m \in 0 .. Len(S) /\ m \in 1 .. Len(S) /\ Head(left) = S[m] /\ Tail(left) = SubSeq(S, m + 1, Len(S))
  BY <1>1, LeftIs
<1>3. F \in Seq(Units) /\ x \in Nat /\ y \in Nat /\ x <= y /\ y <= Len(F) /\ S[m].bytes = Span(F, x, y)
  BY <1>2, FlowIs
<1>4. h \in 0 .. m /\ h \in Nat /\ n \in Nat
  BY <1>2
<1> HIDE DEF F, x
<1>5. a \in 0 .. y /\ a \in Nat /\ a <= x
  <2> HIDE DEF y, m
  <2>1. a \in 0 .. x
    BY DEF x
  <2> QED
    BY <1>3, <2>1
<1>6. in \o Head(left).bytes = Span(F, a, y)
  <2> HIDE DEF y
  <2>1. Span(F, a, x) \o Span(F, x, y) = Span(F, a, y)
    BY <1>3, <1>5, SpanJoin
  <2>2. in = Span(F, a, x)
    BY <1>1 DEF x
  <2> QED
    BY <1>2, <1>3, <2>1, <2>2
<1>7. Holding(p, hs, k, S, m, h, a)
  <2>1. CASE Waiting(p, hs, k, S, h, a)
    BY <2>1 DEF Holding
  <2>2. CASE Within(p, hs, k, S, n, h, a)
    <3>1. k < h /\ Burst(S, h, n)
      BY <2>2 DEF Within
    <3>2. S[m].after < h
      <4>1. S[m].after \in Nat /\ S[m].after <= k
        <5>1. S[m] \in Segments
          BY <1>2
        <5> QED
          BY <1>2, <5>1 DEF Segments
      <4> HIDE DEF m
      <4> QED
        BY <1>4, <3>1, <4>1
    <3>3. Burst(S, h, m)
      BY <1>4, <3>1, <3>2, BurstMore
    <3> QED
      BY <2>2, <3>3 DEF Within, Holding
  <2> QED
    BY <1>1, <2>1, <2>2 DEF Holding
<1> HIDE DEF m
<1> QED
  BY <1>2, <1>4, <1>5, <1>6, <1>7 DEF Following, F, y

(* Input that fills the transport's buffer is dropped: it comes where a    *)
(* request may be awaited, and not within one.                             *)
LEMMA FollowsAfter ==
    ASSUME NEW S \in Seq(Segments), SentRight(S), NEW left, NEW in, NEW p, NEW hs, NEW k \in Nat,
           Following(S, left, in, p, hs, k), Len(in) >= MaxBuffer
    PROVE  /\ Following(S, left, <<>>, p, hs, k)
           /\ Following(S, left, SubSeq(in, MaxBuffer + 1, Len(in)), p, hs, k)
<1> DEFINE F == All(S)
<1>0. PICK n \in 0 .. Len(S) : \E h \in 0 .. n : \E a \in 0 .. Len(Flow(S, n)) :
         /\ left = SubSeq(S, n + 1, Len(S)) /\ in = Span(F, a, Len(Flow(S, n)))
         /\ Holding(p, hs, k, S, n, h, a)
  BY DEF Following
<1>0a. PICK h \in 0 .. n : \E a \in 0 .. Len(Flow(S, n)) :
         /\ left = SubSeq(S, n + 1, Len(S)) /\ in = Span(F, a, Len(Flow(S, n)))
         /\ Holding(p, hs, k, S, n, h, a)
  BY <1>0
<1>1. PICK a \in 0 .. Len(Flow(S, n)) :
         /\ left = SubSeq(S, n + 1, Len(S)) /\ in = Span(F, a, Len(Flow(S, n)))
         /\ Holding(p, hs, k, S, n, h, a)
  BY <1>0a
<1> DEFINE b == Len(Flow(S, n))
<1>2. F \in Seq(Units) /\ b \in Nat /\ b <= Len(F) /\ MaxBuffer \in Nat
  BY FlowIs, TransportAssumption
<1> HIDE DEF F
<1>3. a \in 0 .. b
  OBVIOUS
<1> HIDE DEF b
<1>4. Len(in) = b - a /\ in \in Seq(Units) /\ a + MaxBuffer <= b
  <2>1. in = Span(F, a, b) /\ a \in Nat /\ a <= b
    BY <1>1, <1>2, <1>3 DEF b
  <2>2. Len(in) = b - a /\ in \in Seq(Units)
    BY <1>2, <2>1, SpanIs
  <2> QED
    BY <1>2, <1>3, <2>2
<1>5. ~Within(p, hs, k, S, n, h, a)
  <2> SUFFICES ASSUME Within(p, hs, k, S, n, h, a) PROVE FALSE
    OBVIOUS
  <2>1. a = Len(Flow(S, h)) /\ Burst(S, h, n)
    BY DEF Within
  <2>2. PICK r \in Requests, s \in 0 .. a : At(All(S), r, s) /\ s + 2 <= a /\ a - s < Len(Wire(r))
    BY DEF Within
  <2>3. h \in 0 .. Len(S) /\ n \in h .. Len(S) /\ s \in Nat /\ s < a /\ Len(Wire(r)) \in Nat /\ ~(a - s >= Len(Wire(r)))
    BY <1>2, <1>3, <2>2, WireIs
  <2>4. RoomFor(S, h, r, s)
    <3>1. CutsAreRight(S) /\ s < Len(Flow(S, h)) /\ ~(Len(Flow(S, h)) - s >= Len(Wire(r)))
      BY <2>1, <2>3 DEF SentRight
    <3> QED
      BY <2>2, <2>3, <3>1, CutHere
  <2>5. Len(Flow(S, n)) - Len(Flow(S, h)) < MaxBuffer
    BY <2>1, <2>3, <2>4 DEF RoomFor
  <2>6. b - a < MaxBuffer
    BY <2>1, <2>5 DEF b
  <2> QED
    BY <1>2, <1>3, <1>4, <2>6
<1>6. ASSUME NEW z \in a .. b PROVE Following(S, left, Span(F, z, b), p, hs, k)
  <2>1. /\ Fresh(p) /\ GotFree(p, F, a) /\ SizeFree(p, F, a) /\ HandledFrom(hs, F, a)
        /\ Len(Flow(S, h)) <= a /\ k <= h
    BY <1>1, <1>5 DEF Holding, Waiting, F
  <2>2. z \in Nat /\ a \in Nat /\ a <= z /\ z \in 0 .. b
    BY <1>2, <1>3
  <2>3. GotFree(p, F, z) /\ SizeFree(p, F, z)
    BY <2>1, <2>2, FreeFrom
  <2>4. HandledFrom(hs, F, z)
    BY <2>1, <2>2, HandledMore
  <2>5. Len(Flow(S, h)) <= z
    <3>1. Len(Flow(S, h)) \in Nat
      <4>1. h \in 0 .. Len(S)
        OBVIOUS
      <4> QED
        BY <4>1, FlowIs
    <3> QED
      BY <2>1, <2>2, <3>1
  <2>6. Holding(p, hs, k, S, n, h, z)
    BY <2>1, <2>3, <2>4, <2>5 DEF Holding, Waiting, F
  <2> QED
    BY <1>1, <2>2, <2>6 DEF Following, b, F
<1>7. Span(F, b, b) = <<>>
  <2>1. b <= b
    BY <1>2
  <2>2. Span(F, b, b) \in Seq(Units) /\ Len(Span(F, b, b)) = b - b
    BY <1>2, <2>1, SpanIs
  <2>3. b - b = 0
    BY <1>2
  <2> QED
    BY <2>2, <2>3
<1>8. SubSeq(in, MaxBuffer + 1, Len(in)) = Span(F, a + MaxBuffer, b)
  <2>1. in = Span(F, a, b) /\ a \in Nat /\ a <= b /\ MaxBuffer <= b - a
    BY <1>1, <1>2, <1>3, <1>4 DEF b
  <2>2. Drop(Span(F, a, b), MaxBuffer) = Span(F, a + MaxBuffer, b)
    BY <1>2, <2>1, SpanParts
  <2> QED
    BY <2>1, <2>2 DEF Drop
<1>9. b \in a .. b /\ a + MaxBuffer \in a .. b
  BY <1>2, <1>3, <1>4
<1> QED
  BY <1>6, <1>7, <1>8, <1>9

(* All that was received is fed to the parser.                             *)
LEMMA FollowsFed ==
    ASSUME NEW S \in Seq(Segments), SentRight(S), NEW left, NEW in, in # <<>>,
           NEW p, Sound(p), NEW hs \in Seq(Deliveries), Right(hs), NEW k \in Nat,
           Following(S, left, in, p, hs, k), NEW l, l = Parse(Feed(p, in))
    PROVE  /\ ~Fits(p, in) => Following(S, left, <<>>, Reset(p), hs, k + 1)
           /\ Fits(p, in) =>
                /\ l.state = "Again" => Following(S, left, <<>>, l.p, hs, k)
                /\ l.state = "Error" => Following(S, left, <<>>, Reset(l.p), hs, k + 1)
                /\ l.state = "Done" =>
                     Following(S, left, <<>>, Reset(l.p), Append(hs, Routed(l.p)), k + 1)
           /\ Fits(p, in) /\ l.state = "Done" => Right(Append(hs, Routed(l.p)))
<1> DEFINE F == All(S)
<1>0. PICK n \in 0 .. Len(S) : \E h \in 0 .. n : \E a \in 0 .. Len(Flow(S, n)) :
         /\ left = SubSeq(S, n + 1, Len(S)) /\ in = Span(F, a, Len(Flow(S, n)))
         /\ Holding(p, hs, k, S, n, h, a)
  BY DEF Following
<1>0a. PICK h \in 0 .. n : \E a \in 0 .. Len(Flow(S, n)) :
         /\ left = SubSeq(S, n + 1, Len(S)) /\ in = Span(F, a, Len(Flow(S, n)))
         /\ Holding(p, hs, k, S, n, h, a)
  BY <1>0
<1>1. PICK a \in 0 .. Len(Flow(S, n)) :
         /\ left = SubSeq(S, n + 1, Len(S)) /\ in = Span(F, a, Len(Flow(S, n)))
         /\ Holding(p, hs, k, S, n, h, a)
  BY <1>0a
<1> DEFINE b == Len(Flow(S, n))
<1>2. F \in Seq(Units) /\ b \in Nat /\ b <= Len(F)
  BY FlowIs
<1> HIDE DEF F
<1>3. Span(F, b, b) = <<>>
  <2> HIDE DEF b
  <2>1. b <= b /\ b - b = 0
    BY <1>2
  <2>2. Span(F, b, b) \in Seq(Units) /\ Len(Span(F, b, b)) = b - b
    BY <1>2, <2>1, SpanIs
  <2> QED
    BY <2>1, <2>2
<1>4. a \in Nat /\ a < b
  <2>1. a \in 0 .. b
    OBVIOUS
  <2>2. a # b
    BY <1>1, <1>3
  <2> HIDE DEF b
  <2> QED
    BY <1>2, <2>1, <2>2
<1>5. ASSUME NEW x, NEW ks, NEW j, Holding(x, ks, j, S, n, n, b)
      PROVE  Following(S, left, <<>>, x, ks, j)
  <2>1. n \in 0 .. n /\ b \in 0 .. Len(Flow(S, n))
    BY <1>2
  <2> QED
    BY <1>1, <1>3, <1>5, <2>1 DEF Following, F
<1>6. /\ ~Fits(p, in) => Holding(Reset(p), hs, k + 1, S, n, n, b)
      /\ Fits(p, in) => Onto(l, hs, k, S, n, b)
  <2>1. in = Span(All(S), a, Len(Flow(S, n))) /\ a < Len(Flow(S, n))
    BY <1>1, <1>4 DEF F
  <2>2. CASE Waiting(p, hs, k, S, h, a)
    BY <1>4, <2>1, <2>2, WaitingFed
  <2>3. CASE Within(p, hs, k, S, n, h, a)
    BY <1>4, <2>1, <2>3, WithinFed
  <2> QED
    BY <1>1, <2>2, <2>3 DEF Holding
<1> HIDE DEF b
<1> QED
  BY <1>5, <1>6 DEF Onto

(* A client has read no more answers than were given.                      *)
LEMMA AnswersRead ==
    ASSUME Inv, NEW c \in Conn
    PROVE  Len(got[c]) <= answers[c]
<1> DEFINE s == Sent(c)
           N == Len(got[c])
           G == {i \in Nat : i \in 1 .. N => s[i].n >= i}
<1>1. got[c] \in Seq(Answer) /\ outq[c] \in Seq(Answer) /\ answers[c] \in Nat /\ Ordered(s, c, answers[c])
  BY DEF Inv, Types, TransportOK, InOrder
<1>2. N \in Nat /\ s \in Seq(Answer) /\ \A i \in 1 .. N : i \in DOMAIN s /\ s[i] \in Answer
  <2>1. \A x, y \in Seq(Answer) :
           x \o y \in Seq(Answer) /\ \A i \in 1 .. Len(x) : i \in DOMAIN (x \o y) /\ (x \o y)[i] \in Answer
    OBVIOUS
  <2>2. N \in Nat
    BY <1>1
  <2> QED
    BY <1>1, <2>1, <2>2 DEF Sent
<1>3. \A i \in 1 .. N : s[i].n \in Nat /\ s[i].n >= 1 /\ s[i].n <= answers[c]
  <2>1. \A i \in 1 .. N : s[i].n \in Nat \ {0}
    BY <1>2 DEF Answer
  <2>2. \A i \in 1 .. N : s[i].n <= answers[c]
    BY <1>1, <1>2 DEF Ordered
  <2> HIDE DEF s
  <2> QED
    BY <2>1, <2>2
<1>4. CASE N = 0
  BY <1>1, <1>4
<1>5. CASE N # 0
  <2>1. 1 \in G
    <3>1. 1 \in 1 .. N
      BY <1>2, <1>5
    <3> QED
      BY <1>3, <3>1
  <2>2. ASSUME NEW i \in 1 .. N, i \in G, i < N PROVE i + 1 \in G
    <3>1. i + 1 \in 1 .. N /\ i \in 1 .. (i + 1) - 1
      BY <1>2, <2>2
    <3>2. s[i].n < s[i + 1].n
      BY <1>1, <1>2, <3>1 DEF Ordered
    <3>3. s[i].n >= i /\ s[i].n \in Nat /\ s[i + 1].n \in Nat
      BY <1>3, <2>2, <3>1
    <3> HIDE DEF s
    <3>4. s[i + 1].n >= i + 1
      BY <3>2, <3>3
    <3> QED
      BY <3>4
  <2> HIDE DEF G
  <2>3. \A i \in 1 .. N : i \in G
    BY <1>2, <2>1, <2>2, UpTo
  <2>4. N \in 1 .. N
    BY <1>2, <1>5
  <2>5. s[N].n >= N
    BY <2>3, <2>4 DEF G
  <2> HIDE DEF s, N
  <2> QED
    BY <1>1, <1>2, <1>3, <2>4, <2>5 DEF N
<1> QED
  BY <1>4, <1>5

LEMMA InputsInit == Init => Inputs
  BY DEF Init, TransportInit, Inputs

LEMMA InputsStep ==
    ASSUME Inv, Parsing, Inputs, [Next]_vars
    PROVE  Inputs'
<1>0. /\ inq \in [Conn -> Seq(Units)] /\ fin \in [Conn -> BOOLEAN]
      /\ peers \in [Fds -> Conn \cup {NoConn}] /\ NoConn \notin Conn
  BY TransportAssumption DEF Inv, Types, TransportOK, Parsing
<1>1. \A e \in batch : e.fd \in Fds /\ peers[e.fd] \in Conn
  BY EventFields
<1>2. ASSUME batch' \subseteq batch, \A e \in batch' : peers'[e.fd] = peers[e.fd],
             \A e \in batch' : HasInput(peers[e.fd]) => inq'[peers[e.fd]] # <<>> \/ fin'[peers[e.fd]]
      PROVE  Inputs'
  BY <1>1, <1>2 DEF Inputs, HasInput
<1>3. ASSUME NEW c \in Conn, Client(c), HttpUnchanged PROVE Inputs'
  <2>1. UNCHANGED <<batch, peers>>
    BY <1>3 DEF Client, Send, Close, ReadAnswer, worker
  <2>2. \A d \in Conn : HasInput(d) => HasInput(d)'
    <3>1. CASE Send(c)
      <4>1. PICK u : inq' = [inq EXCEPT ![c] = @ \o u] /\ u = Head(rest[c]).bytes /\ fin' = fin
        BY <3>1 DEF Send
      <4>2. u \in Seq(Units)
        <5>1. rest[c] \in Seq(Segments) /\ rest[c] # <<>>
          BY <3>1 DEF Send, Parsing
        <5>2. Head(rest[c]) \in Segments
          BY <5>1
        <5> QED
          BY <4>1, <5>2 DEF Segments
      <4>3. inq[c] # <<>> => inq[c] \o u # <<>>
        <5>1. inq[c] \in Seq(Units)
          BY <1>0
        <5> QED
          BY <4>2, <5>1
      <4> QED
        BY <1>0, <4>1, <4>3 DEF HasInput
    <3>2. CASE Close(c)
      BY <1>0, <3>2 DEF Close, HasInput, kernel
    <3>3. CASE ReadAnswer(c)
      BY <3>3 DEF ReadAnswer, HasInput
    <3> QED
      BY <1>3, <3>1, <3>2, <3>3 DEF Client
  <2> QED
    BY <1>1, <1>2, <2>1, <2>2 DEF HasInput
<1>4. CASE (Listener \/ PopPeer \/ NoPeer) /\ HttpUnchanged
  <2>1. UNCHANGED <<batch, peers, inq, fin>>
    BY <1>4 DEF Listener, Accept, Link, Signal, PopPeer, NoPeer, clients, kernel, epoll
  <2> QED
    BY <2>1 DEF Inputs, HasInput
<1>5. CASE HandlePeer /\ HttpUnchanged
  <2>1. UNCHANGED <<batch, inq, fin>>
    BY <1>5 DEF HandlePeer, clients
  <2>2. \A f \in Fds : peers[f] # NoConn => peers'[f] = peers[f]
    BY <1>0, <1>5 DEF HandlePeer
  <2> QED
    BY <1>0, <1>1, <1>2, <2>1, <2>2 DEF HasInput
<1>6. CASE Poll /\ HttpUnchanged
  <2> DEFINE E(f) == [fd |-> f, flags |-> Conditions(Owner(f), outq[Owner(f)]) \cap interest[f]]
  <2>1. batch' = {e \in {E(f) : f \in ready} : e.flags # {}} /\ UNCHANGED <<peers, inq, fin>>
    BY <1>6 DEF Poll, clients, kernel, worker
  <2>2. \A f : E(f).fd = f /\ E(f).flags = Conditions(Owner(f), outq[Owner(f)]) \cap interest[f]
    OBVIOUS
  <2>3. ASSUME NEW e \in batch', "read" \in e.flags PROVE HasInput(peers[e.fd])
    <3>1. PICK f \in ready : e = E(f)
      BY <2>1
    <3>2. e.fd = f /\ "read" \in Conditions(Owner(f), outq[Owner(f)]) /\ interest[f] # {}
      BY <2>2, <2>3, <3>1
    <3>3. HasInput(Owner(f))
      BY <3>2 DEF Conditions, HasInput
    <3>4. Owner(f) = peers[f]
      <4>1. f \in Fds /\ f # NoFd
        BY TransportAssumption DEF Inv, Types, TransportOK
      <4>2. peers[f] \in Conn /\ fdOf[peers[f]] = f
        BY <1>0, <3>2, <4>1 DEF Inv, PeersAreOpen
      <4>3. \A d \in Conn : fdOf[d] = f => d = peers[f]
        BY <4>1, <4>2 DEF Inv, PeersAreOpen
      <4> QED
        BY <4>2, <4>3 DEF Owner
    <3> QED
      BY <3>2, <3>3, <3>4
  <2> QED
    BY <2>1, <2>3 DEF Inputs, HasInput
<1>7. ASSUME NEW e \in batch, OnReadable(e) \/ (Retry(e) /\ HttpUnchanged) PROVE Inputs'
  <2> DEFINE c == peers[e.fd]
  <2>1. batch' = batch \ {e}
    BY <1>7, Zenon DEF OnReadable, OnInput, Incoming, Disconnect, Overflow, Retry
  <2>2. \A d \in batch' : d \in batch /\ d.fd # e.fd /\ peers[d.fd] # c
    <3>1. \A d \in batch' : d \in batch /\ d.fd # e.fd
      BY <2>1 DEF Inv, Events
    <3> QED
      BY <1>1, <3>1, EventFields
  <2>3. /\ fin' = fin
        /\ \A f \in Fds : f # e.fd => peers'[f] = peers[f]
        /\ \A d \in Conn : d # c => inq'[d] = inq[d]
    <3>1. CASE Retry(e)
      BY <3>1 DEF Retry, Throws, SendWaiting, clients, kernel, worker
    <3>2. CASE Throws
      BY <3>2 DEF Throws, clients, kernel, worker
    <3>3. CASE OnInput(e)
      BY <1>0, <3>3 DEF OnInput, Incoming, clients
    <3>4. CASE Disconnect(e)
      BY <1>0, <3>4 DEF Disconnect, clients
    <3>5. CASE Overflow(e)
      BY <1>0, <3>5 DEF Overflow, clients, worker
    <3> QED
      BY <1>7, <3>1, <3>2, <3>3, <3>4, <3>5 DEF OnReadable
  <2> HIDE DEF c
  <2>4. \A d \in batch' : /\ peers'[d.fd] = peers[d.fd]
                          /\ HasInput(peers[d.fd]) => inq'[peers[d.fd]] # <<>> \/ fin'[peers[d.fd]]
    <3> TAKE d \in batch'
    <3>1. d.fd \in Fds /\ peers[d.fd] \in Conn /\ d.fd # e.fd /\ peers[d.fd] # c
      BY <1>1, <2>2
    <3>2. peers'[d.fd] = peers[d.fd]
      BY <2>3, <3>1
    <3>3. inq'[peers[d.fd]] = inq[peers[d.fd]]
      BY <2>3, <3>1
    <3> QED
      BY <2>3, <3>2, <3>3 DEF HasInput
  <2> QED
    BY <1>2, <2>1, <2>4
<1>8. CASE UNCHANGED vars
  BY <1>8 DEF vars, tvars, clients, kernel, epoll, worker, Inputs, HasInput
<1> QED
  BY <1>3, <1>4, <1>5, <1>6, <1>7, <1>8 DEF Next, Worker

LEMMA AccountInit ==
    ASSUME Init
    PROVE  Account
<1> SUFFICES ASSUME NEW c \in Conn PROVE Accounted(c)
  BY DEF Account
<1>1. /\ handled[c] = <<>> /\ inq[c] = <<>> /\ parser[c] = NewParser /\ answers[c] = 0
      /\ rest[c] \in Scripts[c]
  BY DEF Init, TransportInit
<1> DEFINE S == rest[c]
<1>2. S \in Seq(Segments)
  BY <1>1, ScriptsAssumption DEF Segments
<1>3. Right(<<>>) /\ HandledFrom(<<>>, All(S), 0)
  BY DEF Right, HandledFrom
<1>4. Len(Flow(S, 0)) = 0 /\ All(S) \in Seq(Units)
  BY <1>2, FlowIs
<1> HIDE DEF S
<1>5. Waiting(NewParser, <<>>, 0, S, 0, 0)
  <2>1. Fresh(NewParser) /\ NewParser.got = 0 /\ NewParser.chunk = Unknown
    BY DEF NewParser, Fresh
  <2>2. 0 <= 0
    OBVIOUS
  <2> QED
    BY <1>3, <1>4, <2>1, <2>2 DEF Waiting, GotFree, SizeFree
<1>6. Span(All(S), 0, 0) = <<>>
  <2>1. 0 \in Nat /\ 0 <= Len(All(S)) /\ Len(All(S)) \in Nat
    BY <1>4
  <2>2. Span(All(S), 0, 0) \in Seq(Units) /\ Len(Span(All(S), 0, 0)) = 0
    BY <1>4, <2>1, SpanStart
  <2> QED
    BY <2>2
<1>7. SubSeq(S, 0 + 1, Len(S)) = S
  BY <1>2
<1>8. 0 \in 0 .. Len(S) /\ 0 \in 0 .. 0
  BY <1>2
<1>9. Following(S, S, <<>>, NewParser, <<>>, 0)
  BY <1>4, <1>5, <1>6, <1>7, <1>8 DEF Following, Holding
<1> QED
  BY <1>1, <1>3, <1>9 DEF Accounted, S

LEMMA AccountStep ==
    ASSUME ClientsSendRight, Inv, Parsing, Inputs, Account, [Next]_vars
    PROVE  Account'
<1>0. /\ inq \in [Conn -> Seq(Units)] /\ rest \in [Conn -> Seq(Segments)]
      /\ parser \in [Conn -> Parsers] /\ handled \in [Conn -> Seq(Deliveries)]
      /\ fin \in [Conn -> BOOLEAN] /\ answers \in [Conn -> Nat]
  BY DEF Inv, Types, TransportOK, Parsing
<1>1. \A c \in Conn : Sound(parser[c])
  BY DEF Parsing
<1>2. \A c \in Conn : \A S \in Scripts[c] : S \in Seq(Segments) /\ SentRight(S)
  BY ScriptsAssumption DEF ClientsSendRight, Segments
<1>3. ASSUME NEW d \in Conn, handled'[d] = handled[d], answers'[d] = answers[d], parser'[d] = parser[d],
             rest'[d] = rest[d], inq'[d] = inq[d], fin[d] => fin'[d]
      PROVE  Accounted(d)'
  BY <1>3 DEF Account, Accounted
<1>4. ASSUME NEW c \in Conn, Accounted(c)',
             \A d \in Conn : d # c =>
                 /\ handled'[d] = handled[d] /\ answers'[d] = answers[d] /\ parser'[d] = parser[d]
                 /\ rest'[d] = rest[d] /\ inq'[d] = inq[d] /\ fin'[d] = fin[d]
      PROVE  Account'
  <2>1. ASSUME NEW d \in Conn, d # c PROVE Accounted(d)'
    BY <1>3, <1>4, <2>1
  <2>2. ASSUME NEW d \in Conn, d = c PROVE Accounted(d)'
    BY <1>4, <2>2 DEF Accounted
  <2> QED
    BY <2>1, <2>2 DEF Account
<1>5. ASSUME NEW c \in Conn, Fed(c), inq[c] # <<>> PROVE Account'
  <2> DEFINE p == parser[c]
             in == inq[c]
             hs == handled[c]
             k == answers[c]
             l == Parse(Feed(p, in))
  <2>1. PICK S \in Scripts[c] : Following(S, rest[c], in, p, hs, k)
    BY <1>5 DEF Fed, Account, Accounted
  <2>2. S \in Seq(Segments) /\ SentRight(S) /\ Sound(p) /\ hs \in Seq(Deliveries) /\ k \in Nat /\ Right(hs)
    BY <1>0, <1>1, <1>2 DEF Account, Accounted
  <2>3. /\ ~Fits(p, in) => Following(S, rest[c], <<>>, Reset(p), hs, k + 1)
        /\ Fits(p, in) =>
             /\ l.state = "Again" => Following(S, rest[c], <<>>, l.p, hs, k)
             /\ l.state = "Error" => Following(S, rest[c], <<>>, Reset(l.p), hs, k + 1)
             /\ l.state = "Done" =>
                  Following(S, rest[c], <<>>, Reset(l.p), Append(hs, Routed(l.p)), k + 1)
        /\ Fits(p, in) /\ l.state = "Done" => Right(Append(hs, Routed(l.p)))
    <3> HIDE DEF p, in, hs, k
    <3>1. in # <<>>
      BY <1>5 DEF in
    <3> QED
      BY <2>1, <2>2, <3>1, FollowsFed
  <2>4. /\ inq' = [inq EXCEPT ![c] = <<>>] /\ UNCHANGED <<rest, fin>>
        /\ \E x, ks, j :
              /\ parser' = [parser EXCEPT ![c] = x] /\ handled' = [handled EXCEPT ![c] = ks]
              /\ answers' = [answers EXCEPT ![c] = j]
              /\ Right(ks) /\ Following(S, rest[c], <<>>, x, ks, j)
    <3> HIDE DEF l
    <3>1. inq' = [inq EXCEPT ![c] = <<>>] /\ UNCHANGED <<rest, fin>>
      BY <1>5 DEF Fed
    <3>2. /\ [parser EXCEPT ![c] = @] = parser /\ [handled EXCEPT ![c] = @] = handled
          /\ [answers EXCEPT ![c] = @] = answers
      BY <1>0
    <3>3. CASE /\ ~Fits(p, in) /\ parser' = [parser EXCEPT ![c] = Reset(p)] /\ UNCHANGED handled
               /\ answers' = [answers EXCEPT ![c] = @ + 1]
      BY <2>2, <2>3, <3>1, <3>2, <3>3
    <3>4. CASE /\ Fits(p, in) /\ l.state = "Again" /\ parser' = [parser EXCEPT ![c] = l.p]
               /\ UNCHANGED <<handled, answers>>
      BY <2>2, <2>3, <3>1, <3>2, <3>4
    <3>5. CASE /\ Fits(p, in) /\ l.state = "Error" /\ parser' = [parser EXCEPT ![c] = Reset(l.p)]
               /\ UNCHANGED handled /\ answers' = [answers EXCEPT ![c] = @ + 1]
      BY <2>2, <2>3, <3>1, <3>2, <3>5
    <3>6. CASE /\ Fits(p, in) /\ l.state = "Done" /\ parser' = [parser EXCEPT ![c] = Reset(l.p)]
               /\ handled' = [handled EXCEPT ![c] = Append(@, Routed(l.p))]
               /\ answers' = [answers EXCEPT ![c] = @ + 1]
      BY <2>2, <2>3, <3>1, <3>6
    <3> QED
      BY <1>5, <3>3, <3>4, <3>5, <3>6 DEF Fed, l
  <2>5. PICK x, ks, j :
              /\ parser' = [parser EXCEPT ![c] = x] /\ handled' = [handled EXCEPT ![c] = ks]
              /\ answers' = [answers EXCEPT ![c] = j]
              /\ Right(ks) /\ Following(S, rest[c], <<>>, x, ks, j)
    BY <2>4
  <2>6. Accounted(c)'
    BY <1>0, <2>4, <2>5 DEF Accounted
  <2> QED
    BY <1>0, <1>4, <2>4, <2>5, <2>6
<1>6. ASSUME NEW c \in Conn, Arrived(c), UNCHANGED <<parser, handled, answers>> PROVE Account'
  <2>1. PICK S \in Scripts[c] : Following(S, rest[c], inq[c], parser[c], handled[c], answers[c])
    BY <1>6 DEF Arrived, Account, Accounted
  <2>2. /\ rest[c] # <<>> /\ Head(rest[c]).after <= Len(got[c])
        /\ rest' = [rest EXCEPT ![c] = Tail(@)] /\ inq' = [inq EXCEPT ![c] = @ \o Head(rest[c]).bytes]
        /\ UNCHANGED fin
    BY <1>6 DEF Arrived
  <2>3. Head(rest[c]).after <= answers[c]
    <3>1. Head(rest[c]).after \in Nat
      <4>1. rest[c] \in Seq(Segments)
        BY <1>0
      <4>2. Head(rest[c]) \in Segments
        BY <2>2, <4>1
      <4> QED
        BY <4>2 DEF Segments
    <3>2. Len(got[c]) \in Nat
      BY DEF Inv, Types, TransportOK
    <3>3. Len(got[c]) <= answers[c] /\ answers[c] \in Nat
      BY <1>0, AnswersRead
    <3> QED
      BY <2>2, <3>1, <3>2, <3>3
  <2>4. Following(S, Tail(rest[c]), inq[c] \o Head(rest[c]).bytes, parser[c], handled[c], answers[c])
    BY <1>0, <1>2, <2>1, <2>2, <2>3, FollowsOn
  <2>5. Accounted(c)'
    BY <1>0, <1>6, <2>2, <2>4 DEF Accounted, Account
  <2> QED
    BY <1>0, <1>4, <1>6, <2>2, <2>5
<1>7. ASSUME NEW c \in Conn, Dropped(c), UNCHANGED <<parser, handled, answers>> PROVE Account'
  <2>1. /\ fin[c] \/ Len(inq[c]) >= MaxBuffer
        /\ \/ inq' = [inq EXCEPT ![c] = <<>>]
           \/ inq' = [inq EXCEPT ![c] = SubSeq(@, MaxBuffer + 1, Len(@))]
        /\ UNCHANGED <<rest, fin>>
    BY <1>7 DEF Dropped
  <2>2. Accounted(c)'
    <3>1. CASE fin[c]
      BY <1>7, <2>1, <3>1 DEF Accounted, Account
    <3>2. CASE ~fin[c]
      <4>1. PICK S \in Scripts[c] : Following(S, rest[c], inq[c], parser[c], handled[c], answers[c])
        BY <3>2 DEF Account, Accounted
      <4>2. /\ Following(S, rest[c], <<>>, parser[c], handled[c], answers[c])
            /\ Following(S, rest[c], SubSeq(inq[c], MaxBuffer + 1, Len(inq[c])), parser[c], handled[c], answers[c])
        BY <1>0, <1>2, <2>1, <3>2, <4>1, FollowsAfter
      <4> QED
        BY <1>0, <1>7, <2>1, <4>2 DEF Accounted, Account
    <3> QED
      BY <3>1, <3>2
  <2> QED
    BY <1>0, <1>4, <1>7, <2>1, <2>2
<1>8. CASE UNCHANGED <<parser, handled, answers, inq, rest>> /\ (UNCHANGED fin \/ Closed)
  <2>1. \A d \in Conn : fin[d] => fin'[d]
    BY <1>0, <1>8 DEF Closed
  <2> QED
    BY <1>3, <1>8, <2>1 DEF Account
<1>9. \/ \E c \in Conn : Fed(c) /\ (Inputs => inq[c] # <<>>)
      \/ /\ UNCHANGED <<parser, handled, answers>>
         /\ \/ \E c \in Conn : Arrived(c) \/ Dropped(c)
            \/ UNCHANGED <<inq, rest>> /\ (UNCHANGED fin \/ Closed)
  BY StepIs
<1> QED
  BY <1>5, <1>6, <1>7, <1>8, <1>9

LEMMA InputsAlways == Spec => []Inputs
<1>1. Inv /\ Parsing /\ Inputs /\ [Next]_vars => Inputs'
  BY InputsStep
<1> QED
  BY <1>1, InputsInit, InvAlways, ParsingAlways, PTL DEF Spec

(* If clients send as HttpUse says, what a handler gets is what was sent:  *)
(* the requests of its connection, each at most once and in their order,   *)
(* with the bodies they were sent with, whatever segments the bytes come   *)
(* in, what of them the transport or the parser's buffer has no room for,  *)
(* and what is left in the parser from the request before                  *)
(* (Handler::onInput, Parser::parse and reset, BodyStep, Chunk).           *)
THEOREM HandlersGetWhatWasSent == ClientsSendRight => (Spec => []HandledAsSent)
<1> SUFFICES ASSUME ClientsSendRight PROVE Spec => []HandledAsSent
  OBVIOUS
<1>1. Inv /\ Parsing /\ Inputs /\ Account /\ [Next]_vars => Account'
  BY AccountStep
<1>2. Account => HandledAsSent
  BY DEF Account, Accounted, Right, HandledAsSent
<1>3. Init => Account
  BY AccountInit
<1> QED
  BY <1>1, <1>2, <1>3, InvAlways, ParsingAlways, InputsAlways, PTL DEF Spec
===============================================================================
