------------------------------ MODULE Transport ------------------------------
(***************************************************************************)
(* A worker of the server library with its connections: the listener's     *)
(* accept thread (src/server/listener.cc), the worker's transport          *)
(* (src/common/transport.cc, include/transport.h) over an epoll set in     *)
(* edge-triggered mode (src/common/os.cc, reactor.cc), and the sockets of  *)
(* the kernel.  The worker owns the descriptors that dispatchPeer gives    *)
(* it; workers share nothing but the numbers of descriptors.  It gets them *)
(* through a PollableQueue (include/mailbox.h), of which the accept thread *)
(* is the one producer: an entry is seen once it is linked, and the eventfd*)
(* is written after that.                                                  *)
(*                                                                         *)
(* What a handler does with its input is left to the module that extends   *)
(* this one and composes Incoming and AsyncWrite.  The kernel takes an     *)
(* answer whole or not at all (EAGAIN).                                    *)
(***************************************************************************)
EXTENDS Naturals, Sequences, FiniteSets

CONSTANTS
    Conn,       \* the connections that clients open
    Fds,        \* the descriptors for them
    Scripts,    \* Scripts[c]: what the client of c may send, segments with
                \* how many answers it waits for before it sends one
    Window,     \* bound: the answers a socket takes before EAGAIN
    MaxBuffer,  \* Const::MaxBuffer, in units
    NoConn,
    NoFd,
    NoAnswer

ASSUME TransportAssumption ==
    /\ Fds \subseteq Nat
    /\ Window \in Nat \ {0}
    /\ MaxBuffer \in Nat
    /\ NoConn \notin Conn
    /\ NoFd \notin Fds

VARIABLES
    backlog,    \* the connections not yet accepted
    fdOf,       \* the open descriptor of a connection, or NoFd
    inq,        \* the kernel's receive buffer of a connection
    fin,        \* whether its client has closed it
    outq,       \* the answers the kernel has taken
    got,        \* the answers its client has read
    rest,       \* the segments its client has yet to send
    pushing,  \* the connection whose entry is not yet linked, or NoConn
    signalling, \* an entry is linked, and the eventfd not yet written
    peersQueue, \* Transport::peersQueue, the entries that are linked
    event,      \* whether its eventfd is readable
    hand,       \* where the worker is with peersQueue: "idle", "due" in this
                \* batch of events, about to "pop", having "found" an entry or
                \* "none"
    peers,      \* Transport::peers
    toWrite,    \* Transport::toWrite
    interest,   \* what epoll watches a descriptor for; {}: not registered
    ready,      \* the ready list of epoll
    batch,      \* the events of epoll_wait that are not yet handled
    crashed     \* an exception left a thread: std::terminate

clients == <<backlog, fin, got, rest>>
kernel == <<fdOf, inq, outq>>
epoll == <<interest, ready, batch>>
queue == <<pushing, signalling, peersQueue, event, hand>>
worker == <<queue, peers, toWrite>>
tvars == <<clients, kernel, epoll, worker, crashed>>

(* What is true of the socket of c, with the answers q under way.          *)
Conditions(c, q) ==
    (IF inq[c] # <<>> \/ fin[c] THEN {"read"} ELSE {})
        \cup (IF Len(q) < Window THEN {"write"} ELSE {})

TransportInit ==
    /\ backlog = Conn
    /\ fdOf = [c \in Conn |-> NoFd]
    /\ inq = [c \in Conn |-> <<>>]
    /\ fin = [c \in Conn |-> FALSE]
    /\ outq = [c \in Conn |-> <<>>]
    /\ got = [c \in Conn |-> <<>>]
    /\ rest \in {r \in [Conn -> UNION {Scripts[c] : c \in Conn}] :
                    \A c \in Conn : r[c] \in Scripts[c]}
    /\ pushing = NoConn
    /\ signalling = FALSE
    /\ peersQueue = <<>>
    /\ event = FALSE
    /\ hand = "idle"
    /\ peers = [f \in Fds |-> NoConn]
    /\ toWrite = [f \in Fds |-> NoAnswer]
    /\ interest = [f \in Fds |-> {}]
    /\ ready = {}
    /\ batch = {}
    /\ crashed = FALSE

-------------------------------------------------------------------------------
(* The clients.                                                            *)

(* Something happened on c that epoll watches its descriptor for.          *)
Wakes(c, what) ==
    IF fdOf[c] # NoFd /\ what \in interest[fdOf[c]] THEN ready \cup {fdOf[c]} ELSE ready

Send(c) ==
    /\ ~crashed /\ ~fin[c] /\ rest[c] # <<>>
    /\ Head(rest[c]).after <= Len(got[c])
    /\ rest' = [rest EXCEPT ![c] = Tail(@)]
    /\ inq' = [inq EXCEPT ![c] = @ \o Head(rest[c]).bytes]
    /\ ready' = Wakes(c, "read")
    /\ UNCHANGED <<backlog, fin, got, fdOf, outq, interest, batch, worker, crashed>>

Close(c) ==
    /\ ~crashed /\ ~fin[c]
    /\ fin' = [fin EXCEPT ![c] = TRUE]
    /\ ready' = Wakes(c, "read")
    /\ UNCHANGED <<backlog, got, rest, kernel, interest, batch, worker, crashed>>

(* Reading makes room, which is an event if there was none.                *)
ReadAnswer(c) ==
    /\ ~crashed /\ ~fin[c] /\ outq[c] # <<>>
    /\ got' = [got EXCEPT ![c] = Append(@, Head(outq[c]))]
    /\ outq' = [outq EXCEPT ![c] = Tail(@)]
    /\ ready' = IF Len(outq[c]) < Window THEN ready ELSE Wakes(c, "write")
    /\ UNCHANGED <<backlog, fin, rest, fdOf, inq, interest, batch, worker, crashed>>

-------------------------------------------------------------------------------
(* The listener's thread.                                                  *)

Free == {f \in Fds : \A c \in Conn : fdOf[c] # f}

(* accept gives the lowest free descriptor; push begins.                   *)
Accept(c) ==
    /\ ~crashed /\ c \in backlog
    /\ pushing = NoConn /\ ~signalling
    /\ \E f \in Free :
          /\ \A g \in Free : f <= g
          /\ fdOf' = [fdOf EXCEPT ![c] = f]
    /\ backlog' = backlog \ {c}
    /\ pushing' = c
    /\ UNCHANGED <<fin, got, rest, inq, outq, epoll, signalling, peersQueue, event, hand,
                   peers, toWrite, crashed>>

(* Queue::push links the entry.                                            *)
Link ==
    /\ ~crashed /\ pushing # NoConn
    /\ peersQueue' = Append(peersQueue, pushing)
    /\ pushing' = NoConn
    /\ signalling' = TRUE
    /\ UNCHANGED <<clients, kernel, epoll, event, hand, peers, toWrite, crashed>>

(* PollableQueue::push then writes to the eventfd.                         *)
Signal ==
    /\ ~crashed /\ signalling
    /\ signalling' = FALSE
    /\ event' = TRUE
    /\ UNCHANGED <<clients, kernel, epoll, pushing, peersQueue, hand, peers, toWrite, crashed>>

Listener == (\E c \in Conn : Accept(c)) \/ Link \/ Signal

-------------------------------------------------------------------------------
(* The worker.                                                             *)

(* epoll_ctl: the descriptor f of c is watched for what; if that is true   *)
(* already, it is an event.                                                *)
Watch(c, f, what) ==
    /\ interest' = [interest EXCEPT ![f] = what]
    /\ ready' = IF Conditions(c, outq'[c]) \cap what # {} THEN ready \cup {f} ELSE ready

(* handlePeerQueue: pop looks for an entry ...                             *)
PopPeer ==
    /\ ~crashed /\ hand \in {"due", "pop"}
    /\ hand' = IF peersQueue = <<>> THEN "none" ELSE "found"
    /\ UNCHANGED <<clients, kernel, epoll, pushing, signalling, peersQueue, event, peers,
                   toWrite, crashed>>

(* ... and then empties the eventfd, of what was written since as well.    *)
Drain(next) ==
    /\ ~crashed
    /\ event' = FALSE
    /\ hand' = next

(* The loop ends when pop has found none.                                  *)
NoPeer ==
    /\ hand = "none" /\ Drain("idle")
    /\ UNCHANGED <<clients, kernel, epoll, pushing, signalling, peersQueue, peers, toWrite,
                   crashed>>

(* Mutant: registerFd asks for write events at once.                       *)
HandlePeer_Writable ==
    /\ hand = "found" /\ Drain("pop")
    /\ LET c == Head(peersQueue)
       IN  /\ peers' = [peers EXCEPT ![fdOf[c]] = IF @ = NoConn THEN c ELSE @]
           /\ UNCHANGED outq
           /\ Watch(c, fdOf[c], {"read", "write"})
    /\ peersQueue' = Tail(peersQueue)
    /\ UNCHANGED <<clients, fdOf, inq, batch, pushing, signalling, toWrite, crashed>>

(* handlePeer, of the entry found: insert does not replace.                *)
HandlePeer ==
    /\ hand = "found" /\ Drain("pop")
    /\ LET c == Head(peersQueue)
       IN  /\ peers' = [peers EXCEPT ![fdOf[c]] = IF @ = NoConn THEN c ELSE @]
           /\ UNCHANGED outq
           /\ Watch(c, fdOf[c], {"read"})
    /\ peersQueue' = Tail(peersQueue)
    /\ UNCHANGED <<clients, fdOf, inq, batch, pushing, signalling, toWrite, crashed>>

Owner(f) == CHOOSE c \in Conn : fdOf[c] = f

(* epoll_wait: the events of the ready list, with what is true by now, and *)
(* that of the eventfd, which is watched in level-triggered mode.          *)
Poll ==
    /\ ~crashed /\ batch = {} /\ hand = "idle"
    /\ ready # {} \/ event
    /\ batch' =
          {e \in {[fd |-> f, flags |-> Conditions(Owner(f), outq[Owner(f)]) \cap interest[f]] :
                     f \in ready} : e.flags # {}}
    /\ ready' = {}
    /\ hand' = IF event THEN "due" ELSE "idle"
    /\ UNCHANGED <<clients, kernel, interest, pushing, signalling, peersQueue, event, peers,
                   toWrite, crashed>>

(* onReady looks at a readable event first, and then at nothing else.  The *)
(* event of the eventfd is one of the batch: it is handled to its end      *)
(* before, after or between others.                                        *)
AtEvents == ~crashed /\ hand \in {"idle", "due"}
Readable(e) == AtEvents /\ e \in batch /\ "read" \in e.flags
Writable(e) == AtEvents /\ e \in batch /\ "read" \notin e.flags

(* An exception in onReady ends the worker's thread, and the program.      *)
Throws == crashed' = TRUE /\ UNCHANGED <<clients, kernel, interest, ready, worker>>

(* A readable descriptor that is nobody's: "Unknown fd".                   *)
IsUnknown(e) == peers[e.fd] = NoConn

(* handleIncoming reads until EAGAIN.  What it has read is dropped when    *)
(* the end follows at once, and when it fills the buffer, in which case    *)
(* the rest stays unread.                                                  *)
Received(c) == inq[c]
TooLong(c) == Len(inq[c]) >= MaxBuffer
Ends(c) == fin[c] /\ ~TooLong(c)

(* Mutant: the peer stays in the map.                                      *)
Disconnect_KeepsPeer(e) ==
    /\ Ends(peers[e.fd])
    /\ fdOf' = [fdOf EXCEPT ![peers[e.fd]] = NoFd]
    /\ inq' = [inq EXCEPT ![peers[e.fd]] = <<>>]
    /\ interest' = [interest EXCEPT ![e.fd] = {}]
    /\ ready' = ready \ {e.fd}
    /\ batch' = batch \ {e}
    /\ UNCHANGED <<clients, outq, queue, peers, toWrite, crashed>>

(* Mutant: recv() = 0 only ends the loop.                                  *)
Disconnect_Omitted(e) ==
    /\ Ends(peers[e.fd])
    /\ batch' = batch \ {e}
    /\ UNCHANGED <<clients, kernel, interest, ready, worker, crashed>>

(* handlePeerDisconnection.  An answer that waits in toWrite stays there.  *)
Disconnect(e) ==
    /\ Ends(peers[e.fd])
    /\ peers' = [peers EXCEPT ![e.fd] = NoConn]
    /\ fdOf' = [fdOf EXCEPT ![peers[e.fd]] = NoFd]
    /\ inq' = [inq EXCEPT ![peers[e.fd]] = <<>>]
    /\ interest' = [interest EXCEPT ![e.fd] = {}]
    /\ ready' = ready \ {e.fd}
    /\ batch' = batch \ {e}
    /\ UNCHANGED <<clients, outq, queue, toWrite, crashed>>

(* "Too long packet".                                                      *)
Overflow(e) ==
    /\ TooLong(peers[e.fd])
    /\ inq' = [inq EXCEPT ![peers[e.fd]] = SubSeq(@, MaxBuffer + 1, Len(@))]
    /\ batch' = batch \ {e}
    /\ UNCHANGED <<clients, fdOf, outq, interest, ready, worker, crashed>>

(* Otherwise it is the input of onInput.                                   *)
Incoming(e) ==
    /\ ~Ends(peers[e.fd]) /\ ~TooLong(peers[e.fd])
    /\ inq' = [inq EXCEPT ![peers[e.fd]] = <<>>]
    /\ batch' = batch \ {e}
    /\ UNCHANGED <<clients, fdOf, queue, peers, crashed>>

NoWrite == UNCHANGED <<outq, interest, ready, toWrite>>

(* asyncWrite of an answer to c, whose descriptor is f: rejected when one  *)
(* waits already, sent, or kept until there is room.                       *)
AsyncWrite(c, f, a) ==
    CASE toWrite[f] # NoAnswer -> NoWrite
      [] toWrite[f] = NoAnswer /\ Len(outq[c]) < Window ->
            /\ outq' = [outq EXCEPT ![c] = Append(@, a)]
            /\ UNCHANGED <<interest, ready, toWrite>>
      [] OTHER ->
            /\ toWrite' = [toWrite EXCEPT ![f] = a]
            /\ UNCHANGED outq
            /\ Watch(c, f, {"read", "write"})

(* The answer that waits is sent to the connection of the descriptor.      *)
SendWaiting(e, what) ==
    /\ outq' = [outq EXCEPT ![Owner(e.fd)] = Append(@, toWrite[e.fd])]
    /\ toWrite' = [toWrite EXCEPT ![e.fd] = NoAnswer]
    /\ Watch(Owner(e.fd), e.fd, what)
    /\ UNCHANGED <<clients, fdOf, inq, queue, peers, crashed>>

(* Mutant: write events stay on.                                           *)
Retry_KeepsInterest(e) ==
    /\ Writable(e)
    /\ batch' = batch \ {e}
    /\ IF toWrite[e.fd] = NoAnswer THEN Throws ELSE SendWaiting(e, {"read", "write"})

(* A writable event.  Without an answer: "could not find write data".      *)
Retry(e) ==
    /\ Writable(e)
    /\ batch' = batch \ {e}
    /\ IF toWrite[e.fd] = NoAnswer THEN Throws ELSE SendWaiting(e, {"read"})

Client(c) == Send(c) \/ Close(c) \/ ReadAnswer(c)

-------------------------------------------------------------------------------
(* A descriptor that the worker knows is open and is that connection's; an *)
(* accepted connection is known or on its way.                             *)
TransportOK(Answer) ==
    /\ backlog \subseteq Conn
    /\ fdOf \in [Conn -> Fds \cup {NoFd}]
    /\ fin \in [Conn -> BOOLEAN]
    /\ outq \in [Conn -> Seq(Answer)]
    /\ got \in [Conn -> Seq(Answer)]
    /\ pushing \in Conn \cup {NoConn}
    /\ peersQueue \in Seq(Conn)
    /\ signalling \in BOOLEAN /\ event \in BOOLEAN
    /\ hand \in {"idle", "due", "pop", "found", "none"}
    /\ peers \in [Fds -> Conn \cup {NoConn}]
    /\ toWrite \in [Fds -> Answer \cup {NoAnswer}]
    /\ interest \in [Fds -> SUBSET {"read", "write"}]
    /\ ready \subseteq Fds
    /\ batch \subseteq [fd : Fds, flags : SUBSET {"read", "write"}]
    /\ crashed \in BOOLEAN

(* Two connections never share a descriptor, and the worker knows exactly  *)
(* those of the descriptors it watches, as the connection that has them:   *)
(* closing, reuse by accept and the queue of new peers run concurrently.   *)
PeersAreOpen ==
    /\ \A c, d \in Conn : fdOf[c] = fdOf[d] /\ fdOf[c] # NoFd => c = d
    /\ \A f \in Fds : peers[f] # NoConn => fdOf[peers[f]] = f
    /\ \A f \in Fds : interest[f] # {} <=> peers[f] # NoConn
=============================================================================
