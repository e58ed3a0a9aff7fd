-------------------------------- MODULE HttpUse --------------------------------
(***************************************************************************)
(* What the parser of requests leaves to the clients, so that what a       *)
(* handler gets is what was sent: where the bytes of a request may be cut  *)
(* into segments, and what may follow it.  (src/common/http.cc: BodyStep   *)
(* and Chunk keep too little of where they were, Parser::reset too much,   *)
(* and the transport drops input that fills its buffer.)                   *)
(***************************************************************************)
EXTENDS HttpServer

(* The units of the first n segments of a script, and of all of them.      *)
Flow(S, n) == FlattenSeq([i \in 1 .. n |-> S[i].bytes])
All(S) == Flow(S, Len(S))

(* The request r is in F after the first s units.                          *)
At(F, r, s) ==
    /\ s + Len(Wire(r)) <= Len(F)
    /\ SubSeq(F, s + 1, s + Len(Wire(r))) = Wire(r)

(* A client sends whole requests, in the order of their ids.  Chunk::size  *)
(* is not reset: one of them at most is in chunks, and these have data.    *)
RequestsAreWhole(F) ==
    \A a \in 1 .. Len(F) : \E r \in Requests : \E s \in 0 .. a - 1 :
        At(F, r, s) /\ a <= s + Len(Wire(r))

IdsRise(F) ==
    \A q \in Requests : \A s \in 0 .. Len(F) : At(F, q, s) =>
        \A r \in Requests : \A t \in s + 1 .. Len(F) : At(F, r, t) => q.id < r.id

Chunked(r) == r.framing = "chunked"
Sized(r) == r.framing = "length"

ChunkedOnce(F) ==
    \A q \in Requests : \A s \in 0 .. Len(F) : At(F, q, s) /\ Chunked(q) =>
        /\ \A i \in DOMAIN q.body : q.body[i] # <<>>
        /\ \A r \in Requests : \A t \in 0 .. Len(F) : At(F, r, t) /\ Chunked(r) => t = s

(* The segments from n on that can arrive before the nth answer, up to m.  *)
Burst(S, n, m) == \A i \in n + 1 .. m : S[i].after < n

(* A segment ends k units into r.  The first of a body follows the headers *)
(* at once: else BodyStep skips two units of it.  A chunk is not cut, but  *)
(* for the line of its size, and the first one not even there.             *)
Chunks(r, j) == FlattenSeq([i \in 1 .. j |-> ChunkOf(r, r.body[i])])

BodyBegins(r, k) ==
    /\ Sized(r) => k # Len(HeadOf(r))
    /\ Chunked(r) /\ k >= Len(HeadOf(r)) =>
          \/ k >= Len(Wire(r)) - 2
          \/ \E j \in 1 .. Len(r.body) : k - Len(HeadOf(r) \o Chunks(r, j)) \in 0 .. 3

(* What can follow at once does not fill the transport's buffer; or, when  *)
(* the parser has read a part of a body, its own: the part stays counted   *)
(* in bytesRead, where another body with a length will find it.            *)
RoomFor(S, n, r, s) ==
    \A m \in n .. Len(S) : Burst(S, n, m) =>
        /\ Len(Flow(S, m)) - Len(Flow(S, n)) < MaxBuffer
        /\ Sized(r) /\ Len(Flow(S, n)) > s + Len(HeadOf(r)) =>
              \/ Len(Flow(S, m)) - s < MaxBuffer
              \/ \A q \in Requests : \A t \in 0 .. Len(All(S)) :
                    At(All(S), q, t) /\ Sized(q) => t <= s

CutsAreRight(S) ==
    \A r \in Requests : \A s \in 0 .. Len(All(S)) : At(All(S), r, s) =>
        \A n \in 0 .. Len(S) :
            s < Len(Flow(S, n)) /\ Len(Flow(S, n)) < s + Len(Wire(r)) =>
                BodyBegins(r, Len(Flow(S, n)) - s) /\ RoomFor(S, n, r, s)

SentRight(S) ==
    /\ RequestsAreWhole(All(S)) /\ IdsRise(All(S)) /\ ChunkedOnce(All(S))
    /\ CutsAreRight(S)

ClientsSendRight == \A c \in Conn : \A S \in Scripts[c] : SentRight(S)
===============================================================================
