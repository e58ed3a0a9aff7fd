----------------------------- MODULE MCHttpServer -----------------------------
(***************************************************************************)
(* Two connections, one of a client that waits for its answers and one of  *)
(* a client that does not, over two descriptors and sockets that take one  *)
(* answer at a time.                                                       *)
(***************************************************************************)
EXTENDS HttpUse

CONSTANTS c1, c2

Request(id, method, path, framing, body) ==
    [id |-> id, method |-> method, path |-> path, framing |-> framing, body |-> body]

plain == Request(1, "GET", <<"core">>, "none", <<>>)
later == Request(4, "GET", <<"lcn", "x">>, "none", <<>>)
other == Request(5, "GET", <<"core", "3">>, "none", <<>>)
sized == Request(2, "POST", <<"core">>, "length", <<<<1, 2, 3>>>>)
chunked == Request(3, "POST", <<"lcn", "3">>, "chunked", <<<<1>>, <<2, 3>>>>)
large == Request(6, "POST", <<"core">>, "length", <<[k \in 1 .. 20 |-> k]>>)
last == Request(7, "GET", <<"lcn", "x", "core">>, "none", <<>>)

MCRequests == {plain, later, other, sized, chunked, large, last}

MCRoutes ==
    [GET |-> <<<<Fixed("core"), OptionalParameter("n")>>,
               <<Parameter("what"), Fixed("x")>>,
               <<Fixed("lcn"), Splat>>>>,
     POST |-> <<<<Fixed("core")>>, <<Fixed("lcn"), Parameter("n")>>>>]

Segment(bytes, after) == [bytes |-> bytes, after |-> after]

(* The bytes of r in two segments, the first of n units.                   *)
InTwo(r, n, after) ==
    <<Segment(Take(Wire(r), n), after), Segment(Drop(Wire(r), n), after)>>
Whole(r, after) == <<Segment(Wire(r), after)>>

(* Segments that the parser reads as one: a body does not begin a segment, *)
(* a chunk is not cut (in SplitScripts a body begins one).                 *)
PoliteScripts == {InTwo(plain, 5, 0) \o InTwo(sized, 7, 1), InTwo(chunked, 12, 0)}

(* Requests in one segment and across segments, a request line cut where   *)
(* the parser does not expect it, and bodies that the buffer does not hold.*)
HastyScripts ==
    {<<Segment(Wire(plain) \o Take(Wire(later), 4), 0), Segment(Drop(Wire(later), 4), 0)>>,
     InTwo(other, 1, 0),
     Whole(large, 0) \o Whole(last, 0),
     InTwo(large, 7, 0) \o Whole(last, 0)}

MCScripts == (c1 :> PoliteScripts) @@ (c2 :> HastyScripts)

(* The scripts are such as the theorem about what handlers get supposes.   *)
ASSUME MCSentRight == \A c \in Conn : \A S \in MCScripts[c] : SentRight(S)

(* The body begins in a segment of its own.                                *)
SplitScripts == (c1 :> {InTwo(sized, 6, 0)}) @@ (c2 :> {<<>>})

ASSUME SplitIsNotRight == \A S \in SplitScripts[c1] : ~SentRight(S)
===============================================================================
