------------------------------ MODULE HttpParser ------------------------------
(***************************************************************************)
(* The incremental parser of HTTP requests (src/common/http.cc, with the   *)
(* cursor of include/stream.h): three steps, request line, headers, body,  *)
(* applied to the bytes received so far.  A step that finds its bytes      *)
(* incomplete answers Again and is applied anew when more bytes have been  *)
(* fed; all but the body's put the cursor back first.                      *)
(*                                                                         *)
(* A request is a record: its id, method, path, how its body is framed     *)
(* ("none", "length", "chunked") and its body, a sequence of chunks (one   *)
(* for "length").  Its bytes are units <<id, kind, k>>: those that a step  *)
(* looks at one by one are units of their own, the rest of the request     *)
(* line and the headers are one unit each.                                 *)
(***************************************************************************)
EXTENDS Integers, Sequences, SequencesExt

CONSTANTS
    Requests,   \* what clients may send
    MaxBuffer,  \* Const::MaxBuffer, in units
    NoRequest

Unit(r, kind, k) == <<r.id, kind, k>>
Kind(u) == u[2]
EndOfLine(r) == <<Unit(r, "cr", 0), Unit(r, "lf", 0)>>

BytesOf(r, chunk) == [k \in DOMAIN chunk |-> Unit(r, "data", chunk[k])]

(* A chunk on the wire: its size, its bytes, and a line end after each.    *)
ChunkOf(r, chunk) ==
    <<Unit(r, "size", Len(chunk))>> \o EndOfLine(r)
        \o BytesOf(r, chunk) \o EndOfLine(r)

HeadOf(r) ==
    <<Unit(r, "method", 1), Unit(r, "method", 2), Unit(r, "line", 0),
      Unit(r, "headers", 0)>> \o EndOfLine(r)

Wire(r) ==
    HeadOf(r) \o
    CASE r.framing = "none"    -> <<>>
      [] r.framing = "length"  -> BytesOf(r, r.body[1])
      [] r.framing = "chunked" -> FlattenSeq([i \in DOMAIN r.body |-> ChunkOf(r, r.body[i])])
                                      \o ChunkOf(r, <<>>)

(* What the handler should see as the body.                                *)
Payload(r) == FlattenSeq([i \in DOMAIN r.body |-> BytesOf(r, r.body[i])])

Units == UNION {ToSet(Wire(r)) : r \in Requests}

(* buf: the bytes after the cursor; size: those fed since the last reset;  *)
(* got: BodyStep::bytesRead; chunk: Chunk::size.                           *)
Unknown == -1        \* Chunk::size

NewParser ==
    [step |-> 1, buf |-> <<>>, size |-> 0, req |-> NoRequest, body |-> <<>>,
     got |-> 0, chunk |-> Unknown]

(* Mutant: the step is not reset.                                          *)
Reset_KeepsStep(p) ==
    [p EXCEPT !.buf = <<>>, !.size = 0, !.req = NoRequest, !.body = <<>>]

(* Mutant: the body is not cleared.                                        *)
Reset_KeepsBody(p) ==
    [p EXCEPT !.step = 1, !.buf = <<>>, !.size = 0, !.req = NoRequest]

(* Parser::reset: bytesRead and the size of the last chunk survive.        *)
Reset(p) ==
    [p EXCEPT !.step = 1, !.buf = <<>>, !.size = 0, !.req = NoRequest, !.body = <<>>]

-------------------------------------------------------------------------------
(* Each step yields a parser and one of Next, Again, Done, Error.          *)
Result(p, state) == [p |-> p, state |-> state]
Drop(s, n) == SubSeq(s, n + 1, Len(s))
Take(s, n) == SubSeq(s, 1, n)

(* The element of S.  (Where the result of one step goes through another:  *)
(* TLC evaluates x once in {F(x) : x \in {...}}.)                          *)
The(S) == CHOOSE x \in S : TRUE

(* The method is matched as a whole; what is shorter is unknown.           *)
RequestLineStep(p) ==
    IF ~(Len(p.buf) >= 2 /\ Kind(p.buf[1]) = "method" /\ Kind(p.buf[2]) = "method")
    THEN Result(p, "Error")
    ELSE IF Len(p.buf) = 2 THEN Result(p, "Again")
    ELSE IF Kind(p.buf[3]) # "line" THEN Result(p, "Error")
    ELSE Result([p EXCEPT !.step = 2, !.buf = Drop(@, 3),
                          !.req = CHOOSE r \in Requests : r.id = p.buf[1][1]], "Next")

(* Mutant: what was read of incomplete headers is forgotten.               *)
HeadersStep_Forgets(p) ==
    IF Len(p.buf) >= 3 /\ Kind(p.buf[2]) = "cr" /\ Kind(p.buf[3]) = "lf"
    THEN Result([p EXCEPT !.step = 3, !.buf = Drop(@, 1)], "Next")
    ELSE Result([p EXCEPT !.buf = <<>>], "Again")

(* The headers up to the empty line, whose CRLF is left to the body.       *)
HeadersStep(p) ==
    IF Len(p.buf) >= 3 /\ Kind(p.buf[2]) = "cr" /\ Kind(p.buf[3]) = "lf"
    THEN Result([p EXCEPT !.step = 3, !.buf = Drop(@, 1)], "Next")
    ELSE Result(p, "Again")

(* What is still needed; a request shorter than what an earlier one has    *)
(* left in got needs more than can come (size_t).                          *)
ParseContentLength(p) ==
    LET length == Len(Payload(p.req))
    IN  IF length < p.got \/ Len(p.buf) < length - p.got
        THEN Result([p EXCEPT !.body = @ \o p.buf, !.got = @ + Len(p.buf), !.buf = <<>>],
                    "Again")
        ELSE Result([p EXCEPT !.body = @ \o Take(p.buf, length - p.got), !.got = 0,
                              !.buf = Drop(@, length - p.got)], "Done")

(* Chunk::parse, first the line of the size.  No text at all is size 0.    *)
SizeLine(p) ==
    LET ends == {i \in 1 .. Len(p.buf) - 1 :
                    Kind(p.buf[i]) = "cr" /\ Kind(p.buf[i + 1]) = "lf"}
        i == CHOOSE j \in ends : \A k \in ends : j <= k
    IN  CASE ends = {} -> Result(p, "Incomplete")
          [] ends # {} /\ i = 1 -> Result([p EXCEPT !.chunk = 0, !.buf = Drop(@, 2)], "Sized")
          [] ends # {} /\ i = 2 /\ Kind(p.buf[1]) = "size" ->
                Result([p EXCEPT !.chunk = p.buf[1][3], !.buf = Drop(@, 3)], "Sized")
          [] OTHER -> Result(p, "Error")

(* ... and its data, of which only a whole chunk is followed by its end.   *)
ChunkData(p) ==
    IF p.chunk = 0 THEN Result(p, "Final")
    ELSE IF Len(p.buf) < p.chunk
    THEN Result([p EXCEPT !.body = @ \o p.buf, !.buf = <<>>], "Incomplete")
    ELSE IF Len(p.buf) < p.chunk + 2
    THEN Result([p EXCEPT !.buf = Drop(@, p.chunk)], "Incomplete")
    ELSE Result([p EXCEPT !.body = @ \o Take(p.buf, p.chunk),
                          !.buf = Drop(@, p.chunk + 2), !.chunk = Unknown], "Complete")

Chunk(p) ==
    IF p.chunk # Unknown THEN ChunkData(p)
    ELSE The({IF s.state = "Sized" THEN ChunkData(s.p) ELSE s : s \in {SizeLine(p)}})

(* Chunks as long as they are complete and bytes are left; a request has   *)
(* one more than its body has.                                             *)
More(c) == IF c.state = "Complete" /\ c.p.buf # <<>> THEN Chunk(c.p) ELSE c

ParseTransferEncoding(p) ==
    LET chunks[n \in 0 .. Len(p.req.body)] ==
            IF n = 0 THEN Chunk(p) ELSE The({More(c) : c \in {chunks[n - 1]}})
    IN  The({Result(c.p, CASE c.state = "Final" -> "Done"
                           [] c.state = "Error" -> "Error"
                           [] OTHER             -> "Again") :
                c \in {chunks[Len(p.req.body)]}})

(* The CRLF of the empty line is skipped while the body is empty.          *)
SkipEmptyLine(p) == IF p.body = <<>> THEN [p EXCEPT !.buf = Drop(@, 2)] ELSE p

ReadBody(p) ==
    CASE p.req.framing = "none"    -> Result(p, "Done")
      [] p.req.framing = "length"  -> ParseContentLength(p)
      [] p.req.framing = "chunked" -> ParseTransferEncoding(p)

BodyStep(p) ==
    IF p.body = <<>> /\ Len(p.buf) < 2 THEN Result(p, "Again")
    ELSE The({ReadBody(q) : q \in {SkipEmptyLine(p)}})

(* ParserBase::parse: the steps from the current one on.                   *)
Apply(p) ==
    CASE p.step = 1 -> RequestLineStep(p) [] p.step = 2 -> HeadersStep(p) [] p.step = 3 -> BodyStep(p)

Proceed(r) == IF r.state = "Next" THEN Apply(r.p) ELSE r

Parse(p) == The({Proceed(r) : r \in {Proceed(l) : l \in {Apply(p)}}})

(* feed: the bytes must fit with all that were fed since the last reset.   *)
Fits(p, units) == p.size + Len(units) < MaxBuffer

Feed(p, units) == [p EXCEPT !.buf = @ \o units, !.size = @ + Len(units)]
===============================================================================
