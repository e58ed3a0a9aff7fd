------------------------------ MODULE MCPromise ------------------------------
(***************************************************************************)
(* Uses of the promises: Listener::requestLoad (src/server/listener.cc),   *)
(* and the chains, whenAll and whenAny of tests/async_test.cc.  A scenario *)
(* is what each thread does.                                               *)
(***************************************************************************)
EXTENDS PromiseUse

(* l, all, res: the load of a transport, and what whenAll and the then()   *)
(* of requestLoad return.  b1, b2, both: a whenAll of two.  q1, q2, any:   *)
(* the when_any test.  p, i, d: a callback that returns the promise i.     *)
MCCore == {"l", "all", "res", "b1", "b2", "both", "q1", "q2", "any", "p", "i", "d"}

MCRequest == {"w", "f", "b1", "b2", "a1", "a2", "g", "h", "pr", "ch"}

MCkind == [r \in MCRequest |->
             CASE r \in {"w", "b1", "b2"} -> "range" [] r \in {"a1", "a2"} -> "any"
               [] r \in {"f", "ch"} -> "value" [] r \in {"g", "h"} -> "void"
               [] r = "pr" -> "promise"]

MCchain == [r \in MCRequest |->
              CASE r = "w" -> "all" [] r \in {"b1", "b2"} -> "both"
                [] r \in {"a1", "a2"} -> "any" [] r = "f" -> "res"
                [] r \in {"pr", "ch"} -> "d"  [] r \in {"g", "h"} -> Null]

MCrethrows == [r \in MCRequest |-> r \in {"f", "pr", "ch"}]
MCinner == [r \in MCRequest |-> IF r = "pr" THEN "i" ELSE Null]
MCchainer == [r \in MCRequest |-> IF r = "pr" THEN "ch" ELSE Null]
MCtotal == [c \in MCCore |-> IF c = "all" THEN 1 ELSE 2]

Ends == {Fulfilled, Rejected}

Scenario(m, w, x) == [t \in Thread |-> CASE t = "m" -> m [] t = "w" -> w [] t = "x" -> x]

(* requestLoad of an endpoint of one worker, called from thread m.         *)
RequestLoad ==
    {Scenario(Then("l", "w") \o Then("all", "f"), Settled("l", s), <<>>) : s \in Ends}

(* whenAll and whenAny of two, settled by the thread that attached them.   *)
WhenAll ==
    {Scenario(Then("b1", "b1") \o Then("b2", "b2") \o Settled("b2", s) \o Settled("b1", e),
              <<>>, Then("both", "g")) : s \in Ends, e \in Ends}

WhenAny ==
    {Scenario(Then("q1", "a1") \o Then("q2", "a2") \o Settled("q2", s)
                  \o Settled("q1", Fulfilled),
              <<>>, Then("any", "h")) : s \in Ends}

(* The callback returns a promise that another thread settles.             *)
Returned ==
    {Scenario(Then("p", "pr"), Settled("p", s), Settled("i", e)) : s \in Ends, e \in Ends}

MCScripts == RequestLoad \cup WhenAll \cup WhenAny \cup Returned

MCpromiseOf ==
    [r \in MCRequest |->
       CASE r = "w" -> "l" [] r = "f" -> "all" [] r = "g" -> "both" [] r = "h" -> "any"
         [] r = "a1" -> "q1" [] r = "a2" -> "q2" [] r = "pr" -> "p" [] r = "ch" -> "i"
         [] OTHER -> r]

MCresolver ==
    [c \in MCCore |->
       CASE c \in {"b1", "b2", "both", "q1", "q2", "any"} -> "m" [] c \in {"l", "p"} -> "w"
         [] c = "i" -> "x" [] OTHER -> Null]

ASSUME RightAssumption == UsedRight
=============================================================================
