------------------------------ MODULE HttpServer ------------------------------
(***************************************************************************)
(* A worker of the HTTP server: the transport with the parser of each of   *)
(* its connections (Http::Handler, src/common/http.cc) and the router that *)
(* handles the requests (RouterHandler, src/server/router.cc).  The        *)
(* handlers of the routes answer before they return, as those of           *)
(* examples/rest_server.cc do.                                             *)
(***************************************************************************)
EXTENDS Transport, Router, SequencesExt

CONSTANTS
    Polite,     \* the connections whose clients send no request before the
                \* answer to the one before
    Requests,   \* what clients may send
    NoRequest

ASSUME ServerAssumption == NoRequest \notin Requests /\ Polite \subseteq Conn

INSTANCE HttpParser

(* Requests have names of their own, a method that has routes (perhaps     *)
(* none), and a body as HttpParser describes it.                           *)
ASSUME RequestsAssumption ==
    /\ \A r \in Requests :
          /\ r.framing \in {"none", "length", "chunked"}
          /\ r.body \in Seq(Seq(Nat))
          /\ r.framing = "none" => r.body = <<>>
          /\ r.framing = "length" => Len(r.body) = 1
          /\ r.path \in Seq(ToSet(r.path))
          /\ Routes[r.method] \in Seq(Seq(Fragment))
          /\ NotFound \notin DOMAIN Routes[r.method]
    /\ \A q, r \in Requests : q.id = r.id => q = r

(* Clients send pieces of requests, in whatever order.                     *)
ASSUME ScriptsAssumption ==
    \A c \in Conn : Scripts[c] \subseteq Seq([bytes : Seq(Units), after : Nat])

VARIABLES
    parser,     \* the parser of a connection, its peer's data
    handled,    \* ghost: the requests its handlers got, and by which route
    answers     \* ghost: how many answers were written to it

vars == <<tvars, parser, handled, answers>>

Status == {"Ok", "Not_Found", "Bad_Request", "Request_Entity_Too_Large"}
Answer == [conn : Conn, n : Nat \ {0}, status : Status]

ASSUME NoAnswerAssumption == NoAnswer \notin Answer

Init ==
    /\ TransportInit
    /\ parser = [c \in Conn |-> NewParser]
    /\ handled = [c \in Conn |-> <<>>]
    /\ answers = [c \in Conn |-> 0]

HttpUnchanged == UNCHANGED <<parser, handled, answers>>

(* The answer to c that comes next.                                        *)
Reply(c, f, status) ==
    /\ AsyncWrite(c, f, [conn |-> c, n |-> answers[c] + 1, status |-> status])
    /\ answers' = [answers EXCEPT ![c] = @ + 1]

(* What the handler of the request gets, which Router::route finds.        *)
Routed(p) ==
    [req |-> p.req, body |-> p.body, route |-> Route(p.req.method, p.req.path)]

(* Handler::onInput.                                                       *)
OnInput(e) ==
    /\ Incoming(e)
    /\ LET c == peers[e.fd]
       IN  \E r \in {Parse(Feed(parser[c], Received(c)))} :
           \/ /\ ~Fits(parser[c], Received(c))
              /\ parser' = [parser EXCEPT ![c] = Reset(@)]
              /\ Reply(c, e.fd, "Request_Entity_Too_Large")
              /\ UNCHANGED handled
           \/ /\ Fits(parser[c], Received(c)) /\ r.state = "Again"
              /\ parser' = [parser EXCEPT ![c] = r.p]
              /\ NoWrite
              /\ UNCHANGED <<handled, answers>>
           \/ /\ Fits(parser[c], Received(c)) /\ r.state = "Error"
              /\ parser' = [parser EXCEPT ![c] = Reset(r.p)]
              /\ Reply(c, e.fd, "Bad_Request")
              /\ UNCHANGED handled
           \/ /\ Fits(parser[c], Received(c)) /\ r.state = "Done"
              /\ parser' = [parser EXCEPT ![c] = Reset(r.p)]
              /\ handled' = [handled EXCEPT ![c] = Append(@, Routed(r.p))]
              /\ Reply(c, e.fd, IF Routed(r.p).route = NotFound THEN "Not_Found" ELSE "Ok")

OnReadable(e) ==
    /\ Readable(e)
    /\ IF IsUnknown(e)
       THEN batch' = batch \ {e} /\ Throws /\ HttpUnchanged
       ELSE \/ OnInput(e)
            \/ Disconnect(e) /\ HttpUnchanged
            \/ Overflow(e) /\ HttpUnchanged

Worker ==
    \/ (Poll \/ PopPeer \/ NoPeer \/ HandlePeer) /\ HttpUnchanged
    \/ \E e \in batch :
          \/ OnReadable(e)
          \/ Retry(e) /\ HttpUnchanged

Next ==
    \/ \E c \in Conn : Client(c) /\ HttpUnchanged
    \/ Listener /\ HttpUnchanged
    \/ Worker

Spec == Init /\ [][Next]_vars

(* Epoll reports what is ready, the accept thread and the worker are       *)
(* threads that the system schedules; clients send what they have to and   *)
(* read their answers, but need not close.                                 *)
Fairness ==
    /\ WF_vars(Worker)
    /\ WF_vars(Listener /\ HttpUnchanged)
    /\ \A c \in Conn : WF_vars(Send(c) /\ HttpUnchanged)
    /\ \A c \in Conn : WF_vars(ReadAnswer(c) /\ HttpUnchanged)

FairSpec == Spec /\ Fairness

-------------------------------------------------------------------------------
(* Types, and the parser's account of its bytes: those after the cursor    *)
(* were fed since the last reset, and all of them fit (ArrayStreamBuf::feed *)
(* would otherwise write past its array).                                  *)
TypeOK ==
    /\ TransportOK(Answer)
    /\ parser \in [Conn -> [step : 1 .. 3, buf : Seq(Units), size : Nat,
                            req : Requests \cup {NoRequest}, body : Seq(Units),
                            got : Nat, chunk : Nat \cup {Unknown}]]
    /\ \A c \in Conn :
          /\ parser[c].step = 1 <=> parser[c].req = NoRequest
          /\ Len(parser[c].buf) <= parser[c].size
          /\ parser[c].size = 0 \/ parser[c].size < MaxBuffer

(* A handler gets requests that the client has sent, each at most once and *)
(* in the order they were sent, with exactly the body that was sent, if    *)
(* the client cuts them where HttpUse says.  What is pipelined may be      *)
(* lost, and is never mixed into another request (Handler::onInput,        *)
(* Parser::reset, BodyStep).                                               *)
HandledAsSent ==
    \A c \in Conn :
        /\ \A i \in DOMAIN handled[c] : handled[c][i].body = Payload(handled[c][i].req)
        /\ \A i, j \in DOMAIN handled[c] :
              i < j => handled[c][i].req.id < handled[c][j].req.id

(* What has been read of a body is its beginning: "If this is the first    *)
(* time we are reading the body, skip the CRLF" (http.cc:324) skips the    *)
(* CRLF of the empty line and nothing of the body.                         *)
BodyFromItsStart ==
    \A c \in Conn :
        parser[c].step = 3 => IsPrefix(parser[c].body, Payload(parser[c].req))

(* A client gets only the answers to its own requests, in the order of the *)
(* writes: not those that wait at its descriptor for a connection that had *)
(* it before (toWrite outlives handlePeerDisconnection).                   *)
AnswersToTheirClient ==
    \A c \in Conn :
        LET all == got[c] \o outq[c]
        IN  \A i \in DOMAIN all :
                /\ all[i].conn = c
                /\ \A j \in 1 .. i - 1 : all[j].n < all[i].n

(* No event finds the worker without the peer or the answer that it        *)
(* expects: the two throws of Transport::onReady, which would end the      *)
(* program, are never reached.                                             *)
NeverThrows == ~crashed

(* The route of a handled request is the first one added that accepts its  *)
(* path, where a route accepts the paths that spell it, with and without   *)
(* its optional tail (Route::match, Router::route).                        *)
Texts == UNION {ToSet(r.path) : r \in Requests}

Spelled(route, n) ==
    {path \in [1 .. n -> Texts] :
        \A i \in 1 .. n : route[i].kind = "fixed" => path[i] = route[i].text}

Accepted(route) ==
    UNION {Spelled(route, n) : n \in {k \in 0 .. Len(route) :
                                          \A i \in k + 1 .. Len(route) : route[i].optional}}

RoutedRight ==
    \A c \in Conn : \A i \in DOMAIN handled[c] :
        LET h == handled[c][i]
            routes == Routes[h.req.method]
            accepting == {k \in DOMAIN routes : h.req.path \in Accepted(routes[k])}
        IN  IF h.route = NotFound THEN accepting = {}
            ELSE h.route \in accepting /\ \A k \in accepting : h.route <= k

(* A client that waits for an answer before it sends the next request gets *)
(* one, unless it closes, or an answer to a connection before it is left at*)
(* its descriptor, or its entry of peersQueue is overlooked for good.      *)
LeftBehind(c) ==
    /\ fdOf[c] # NoFd
    /\ toWrite[fdOf[c]] # NoAnswer
    /\ toWrite[fdOf[c]].conn # c

(* An entry of peersQueue that was linked after pop had found none, while  *)
(* the wake-up for it was read with that pop: only the push of another     *)
(* connection makes the worker look again.                                 *)
Overlooked(c) ==
    /\ c \in ToSet(peersQueue)
    /\ ~event /\ ~signalling /\ hand = "idle"
    /\ pushing = NoConn /\ (backlog = {} \/ Free = {})

Asked(script) ==
    Cardinality({i \in DOMAIN script : \E u \in ToSet(script[i].bytes) : u[2] = "method"})

EveryRequestAnswered ==
    \A c \in Polite : \A script \in Scripts[c] :
        rest[c] = script ~>
            (\/ Len(got[c]) >= Asked(script) \/ fin[c] \/ LeftBehind(c)
             \/ []Overlooked(c))

(* A connection that its client has closed is closed here too, also when   *)
(* the close comes before the connection is accepted or registered, unless *)
(* its entry of peersQueue is overlooked for good.                         *)
DescriptorsReleased ==
    \A c \in Polite :
        (fin[c] /\ fdOf[c] # NoFd) ~> (fdOf[c] = NoFd \/ []Overlooked(c))
=============================================================================
