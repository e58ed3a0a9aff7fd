------------------------------ MODULE PromiseUse ------------------------------
(***************************************************************************)
(* What the library leaves to its users: a promise is resolved by one      *)
(* thread, a continuation attached once, and what a whenAll or whenAny      *)
(* waits for settled by one thread.  Without it a second resolve may pass  *)
(* the look at the state while the first is still at work.  The tests      *)
(* (tests/async_test.cc) use the promises in this way, and so does         *)
(* Listener::requestLoad with one worker; with several, whose threads      *)
(* settle what one whenAll waits for, it does not, and nothing is said.    *)
(***************************************************************************)
EXTENDS Promise, FiniteSets

CONSTANTS
    promiseOf,  \* the core to which a continuation is attached
    resolver    \* the thread that resolves a core; Null: whoever settles the
                \* only promise that a whenAll or whenAny waits for

IsJoin(r) == kind[r] \in Joins
JoinsOf(c) == {r \in Request : IsJoin(r) /\ chain[r] = c}

(* The cores settled through a Resolver or Rejection.                      *)
Own == Core \ Chains

(* The continuations that are attached by a callback.                      *)
Chainers == {chainer[r] : r \in {q \in Request : kind[q] = "promise"}}

(* A thread attaches and resolves, by whole calls.                         *)
Blocks ==
    {Then(c, r) : c \in Core, r \in Request}
        \cup {Settled(c, s) : c \in Own, s \in {Fulfilled, Rejected}}

Whole(s) ==
    \A i \in DOMAIN s : \E b \in Blocks : \E j \in 1 .. i :
        /\ i < j + Len(b) /\ j + Len(b) <= Len(s) + 1
        /\ \A k \in DOMAIN b : s[j + k - 1] = b[k]

(* A continuation settles the promise that then() returned.  A callback    *)
(* that returns a promise passes a rejection on, and attaches to what it   *)
(* returned a continuation that no other callback attaches.                *)
ChainsAreRight ==
    \A r \in Request :
        /\ Chaining(r) => chain[r] \in Core
        /\ kind[r] = "promise" =>
              /\ rethrows[r] /\ promiseOf[r] \in Own
              /\ chainer[r] \in Request /\ ~IsJoin(chainer[r])
              /\ inner[r] = promiseOf[chainer[r]]
              /\ \A q \in Request :
                    kind[q] = "promise" /\ chainer[q] = chainer[r] => q = r

(* What a whenAll or whenAny waits for is either one promise, or promises  *)
(* that one thread settles.                                                *)
JoinsAreRight ==
    \A r \in Request : IsJoin(r) =>
        /\ chain[r] \in Own /\ promiseOf[r] \in Own
        /\ IF resolver[chain[r]] = Null THEN JoinsOf(chain[r]) = {r}
           ELSE resolver[promiseOf[r]] = resolver[chain[r]]
        /\ kind[r] # "any" =>
              /\ \A q \in JoinsOf(chain[r]) : kind[q] # "any"
              /\ IsFiniteSet(JoinsOf(chain[r]))
              /\ total[chain[r]] = Cardinality(JoinsOf(chain[r]))

ResolvedBy(t, x) == resolver[x.core] = t /\ JoinsOf(x.core) = {}

AttachedBy(t, x) ==
    /\ promiseOf[x.req] = x.core /\ x.req \notin Chainers
    /\ IsJoin(x.req) => resolver[chain[x.req]] \in {t, Null}

ScriptsAreRight ==
    \A script \in Scripts : \A t \in Thread :
        /\ Whole(script[t])
        /\ \A i \in DOMAIN script[t] :
              /\ script[t][i].op = "settle" => ResolvedBy(t, script[t][i])
              /\ script[t][i].op = "attach" =>
                    /\ AttachedBy(t, script[t][i])
                    /\ \A u \in Thread : \A j \in DOMAIN script[u] :
                          script[u][j].op = "attach" /\ script[u][j].req = script[t][i].req =>
                              u = t /\ i = j

ASSUME UseAssumption ==
    /\ promiseOf \in [Request -> Core]
    /\ resolver \in [Core -> Thread \cup {Null}]
    /\ total \in [Core -> Nat]
    /\ Scripts \subseteq [Thread -> Seq(Tasks)]
    /\ ChainsAreRight /\ JoinsAreRight /\ ScriptsAreRight

-------------------------------------------------------------------------------
(* What more they leave to their users, so that no exception ends a thread. *)
(* A continuation is attached to a promise that a Resolver or a Rejection  *)
(* settles: a chain is settled anew by each continuation that has it.      *)
NoneOnChains == \A r \in Request : promiseOf[r] \in Own

SettledOnce ==
    \A script \in Scripts : \A t \in Thread : \A i, j \in DOMAIN script[t] :
        /\ script[t][i].op = "settle" /\ script[t][j].op = "settle"
        /\ script[t][i].core = script[t][j].core
        => i = j

(* A task that calls r, or makes it called.                                *)
Leads(x, r) ==
    \/ x.op \in {"settle", "run"} /\ x.core = promiseOf[r]
    \/ x.op = "attach" /\ x.req = r

(* All::reject and Any::reject do not look whether the whole is settled:   *)
(* one promise of a tuple is rejected at most, and what a whenAny waits    *)
(* for beside it is settled after it.                                      *)
RejectedRight ==
    \A r \in Request : IsJoin(r) /\ kind[r] # "range" =>
        \A q \in JoinsOf(chain[r]) :
            /\ JoinsOf(promiseOf[q]) = {}
            /\ q # r => \A script \in Scripts : \A t \in Thread : \A i, j \in DOMAIN script[t] :
                  /\ script[t][i].op = "settle" /\ script[t][i].core = promiseOf[r]
                  /\ script[t][i].to = Rejected
                  /\ script[t][j].op = "settle" /\ script[t][j].core = promiseOf[q]
                  => IF kind[r] = "all" THEN script[t][j].to = Fulfilled
                     ELSE \A k \in DOMAIN script[t] : Leads(script[t][k], r) => k < j

UsedRight == NoneOnChains /\ SettledOnce /\ RejectedRight
===============================================================================
