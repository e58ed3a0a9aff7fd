------------------------------- MODULE Promise -------------------------------
(***************************************************************************)
(* The promises of the server library (include/async.h).  A promise is a   *)
(* core: a state, a mutex and the continuations (requests) attached to it. *)
(* A thread settles a core through its Resolver or Rejection, or attaches  *)
(* a continuation with then(); either may be done by any thread at any     *)
(* time.  A continuation settles the core of the promise that then()       *)
(* returned, its chain, and so runs the continuations attached there.      *)
(*                                                                         *)
(* What a thread still has to do is a sequence of tasks, one for each      *)
(* access to shared memory; calling a function puts its tasks in front.    *)
(* The mutex of the core is held while the continuations run.  The state   *)
(* is looked at before the mutex is taken (Check), and a chain is settled  *)
(* without its mutex (Chained), as in the code.                            *)
(***************************************************************************)
EXTENDS Naturals, Sequences

CONSTANTS
    Thread,
    Core,
    Request,    \* the continuations
    Null,
    kind,       \* what the callback of a continuation is, see Fulfil
    chain,      \* the core that a continuation settles
    rethrows,   \* whether its handler of a rejection is Async::Throw
    inner,      \* the promise that the callback of a "promise" returns
    chainer,    \* the continuation attached to that promise
    total,      \* how many promises a core of whenAll or whenAny waits for
    Scripts     \* what the threads do, as functions from Thread to tasks

ASSUME PromiseAssumption ==
    /\ kind \in [Request -> {"value", "void", "promise", "all", "range", "any"}]
    /\ rethrows \in [Request -> BOOLEAN]
    /\ chain \in [Request -> Core \cup {Null}]
    /\ Null \notin Core \cup Request \cup Thread

VARIABLES
    state,      \* state[c] of core c
    requests,   \* requests[c]: the continuations attached to it
    mtx,        \* mtx[c]: the thread that holds its mutex
    resolves,   \* resolveCount_ of a continuation
    rejects,    \* rejectCount_ of a continuation
    arrived,    \* Data::resolved of a whenAll
    over,       \* Data::rejected of a whenAll, Data::done of a whenAny
    todo,       \* todo[t]: the tasks before thread t
    calls,      \* ghost: how often the callback of a continuation was called
    crashed     \* an exception left a thread: std::terminate

vars == <<state, requests, mtx, resolves, rejects, arrived, over, todo, calls,
          crashed>>

Pending == "Pending"
Fulfilled == "Fulfilled"
Rejected == "Rejected"

(* The continuations that whenAll (of a tuple, of a range) and whenAny     *)
(* attach to the promises they wait for.                                   *)
Joins == {"all", "range", "any"}

Task(op, c, r, s) == [op |-> op, core |-> c, req |-> r, to |-> s]

(* Resolver and Rejection, and the two that need no mutex.                 *)
Chained(c, s) == <<Task("settle", c, Null, s), Task("run", c, Null, s)>>

Settled(c, s) ==
    <<Task("check", c, Null, s), Task("lock", c, Null, s)>>
        \o Chained(c, s) \o <<Task("unlock", c, Null, s)>>

Then(c, r) ==
    <<Task("lock", c, r, Null), Task("attach", c, r, Null),
      Task("append", c, r, Null), Task("unlock", c, r, Null)>>

Tasks == [op : {"check", "lock", "settle", "run", "unlock", "attach", "append",
                "call", "done", "arrive", "count", "complete", "refuse", "flag"},
          core : Core \cup {Null}, req : Request \cup {Null},
          to : {Pending, Fulfilled, Rejected, Null}]

Init ==
    /\ state = [c \in Core |-> Pending]
    /\ requests = [c \in Core |-> <<>>]
    /\ mtx = [c \in Core |-> Null]
    /\ resolves = [r \in Request |-> 0]
    /\ rejects = [r \in Request |-> 0]
    /\ arrived = [c \in Core |-> 0]
    /\ over = [c \in Core |-> FALSE]
    /\ todo \in Scripts
    /\ calls = [r \in Request |-> 0]
    /\ crashed = FALSE

-------------------------------------------------------------------------------
Next_is(t, op) == ~crashed /\ todo[t] # <<>> /\ Head(todo[t]).op = op

(* Thread t goes on with the given tasks before the rest of its own.       *)
Go(t, tasks) == todo' = [todo EXCEPT ![t] = tasks \o Tail(@)]

Throws == crashed' = TRUE /\ UNCHANGED todo

(* Resolving or rejecting looks at the state before it takes the mutex.    *)
Check(t) ==
    /\ Next_is(t, "check")
    /\ IF state[Head(todo[t]).core] = Pending
       THEN Go(t, <<>>) /\ UNCHANGED crashed
       ELSE Throws
    /\ UNCHANGED <<state, requests, mtx, resolves, rejects, arrived, over, calls>>

(* Mutant: nobody takes the mutex.                                         *)
Lock_Omitted(t) ==
    /\ Next_is(t, "lock")
    /\ Go(t, <<>>)
    /\ UNCHANGED <<state, requests, mtx, resolves, rejects, arrived, over, calls,
                   crashed>>

Lock(t) ==
    /\ Next_is(t, "lock")
    /\ mtx[Head(todo[t]).core] = Null
    /\ mtx' = [mtx EXCEPT ![Head(todo[t]).core] = t]
    /\ Go(t, <<>>)
    /\ UNCHANGED <<state, requests, resolves, rejects, arrived, over, calls, crashed>>

(* Mutant: a return that leaves the mutex locked.                          *)
Unlock_Omitted(t) ==
    /\ Next_is(t, "unlock")
    /\ Go(t, <<>>)
    /\ UNCHANGED <<state, requests, mtx, resolves, rejects, arrived, over, calls,
                   crashed>>

Unlock(t) ==
    /\ Next_is(t, "unlock")
    /\ mtx' = [mtx EXCEPT ![Head(todo[t]).core] = Null]
    /\ Go(t, <<>>)
    /\ UNCHANGED <<state, requests, resolves, rejects, arrived, over, calls, crashed>>

(* construct(), or the assignment of the state.                            *)
Settle(t) ==
    /\ Next_is(t, "settle")
    /\ state' = [state EXCEPT ![Head(todo[t]).core] = Head(todo[t]).to]
    /\ Go(t, <<>>)
    /\ UNCHANGED <<requests, mtx, resolves, rejects, arrived, over, calls, crashed>>

(* The loop over the continuations attached so far.                        *)
Run(t) ==
    /\ Next_is(t, "run")
    /\ LET c == Head(todo[t]).core
       IN  Go(t, [i \in DOMAIN requests[c] |->
                     Task("call", c, requests[c][i], Head(todo[t]).to)])
    /\ UNCHANGED <<state, requests, mtx, resolves, rejects, arrived, over, calls,
                   crashed>>

(* then(): a settled core calls the continuation at once.                  *)
Attach(t) ==
    /\ Next_is(t, "attach")
    /\ LET c == Head(todo[t]).core
       IN  IF state[c] = Pending THEN Go(t, <<>>)
           ELSE Go(t, <<Task("call", c, Head(todo[t]).req, state[c])>>)
    /\ UNCHANGED <<state, requests, mtx, resolves, rejects, arrived, over, calls,
                   crashed>>

(* Mutant: a continuation that was called is not kept, and one that was    *)
(* not is lost.                                                            *)
Append_Omitted(t) ==
    /\ Next_is(t, "append")
    /\ Go(t, <<>>)
    /\ UNCHANGED <<state, requests, mtx, resolves, rejects, arrived, over, calls,
                   crashed>>

AppendRequest(t) ==
    /\ Next_is(t, "append")
    /\ requests' = [requests EXCEPT ![Head(todo[t]).core] =
                                       Append(@, Head(todo[t]).req)]
    /\ Go(t, <<>>)
    /\ UNCHANGED <<state, mtx, resolves, rejects, arrived, over, calls, crashed>>

-------------------------------------------------------------------------------
(* What a continuation does once its promise c is settled.  A rejection    *)
(* goes to the chain if the handler is Throw; if it is not, "value" tells  *)
(* the continuations of a chain that stays pending, and "promise" those of *)
(* c itself.                                                               *)
Fulfil(r) ==
    CASE kind[r] = "void"    -> <<>>
      [] kind[r] = "value"   -> Chained(chain[r], Fulfilled)
      [] kind[r] = "promise" -> Then(inner[r], chainer[r])
      [] OTHER               -> <<Task("arrive", chain[r], r, Fulfilled)>>

Refusal(c, r) ==
    CASE kind[r] \in Joins -> <<Task("refuse", chain[r], r, Rejected)>>
      [] rethrows[r] /\ kind[r] \notin Joins -> Chained(chain[r], Rejected)
      [] ~rethrows[r] /\ kind[r] = "void"    -> <<>>
      [] ~rethrows[r] /\ kind[r] = "value"   -> <<Task("run", chain[r], Null, Rejected)>>
      [] ~rethrows[r] /\ kind[r] = "promise" -> <<Task("run", c, Null, Rejected)>>

(* Continuable::resolve and reject: once each, counted after the call.     *)
Call(t) ==
    /\ Next_is(t, "call")
    /\ LET r == Head(todo[t]).req
           s == Head(todo[t]).to
       IN  IF (s = Fulfilled /\ resolves[r] >= 1) \/ (s = Rejected /\ rejects[r] >= 1)
           THEN Throws /\ UNCHANGED calls
           ELSE /\ Go(t, (IF s = Fulfilled THEN Fulfil(r) ELSE Refusal(Head(todo[t]).core, r))
                            \o <<Task("done", chain[r], r, s)>>)
                /\ calls' = [calls EXCEPT ![r] = @ + 1]
                /\ UNCHANGED crashed
    /\ UNCHANGED <<state, requests, mtx, resolves, rejects, arrived, over>>

Done(t) ==
    /\ Next_is(t, "done")
    /\ LET r == Head(todo[t]).req
       IN  IF Head(todo[t]).to = Fulfilled
           THEN resolves' = [resolves EXCEPT ![r] = @ + 1] /\ UNCHANGED rejects
           ELSE rejects' = [rejects EXCEPT ![r] = @ + 1] /\ UNCHANGED resolves
    /\ Go(t, <<>>)
    /\ UNCHANGED <<state, requests, mtx, arrived, over, calls, crashed>>

-------------------------------------------------------------------------------
(* whenAll and whenAny: each of their promises has a continuation whose    *)
(* chain is the promise they return.                                       *)

Arrive(t) ==
    /\ Next_is(t, "arrive")
    /\ LET c == Head(todo[t]).core
           r == Head(todo[t]).req
       IN  Go(t, IF over[c] THEN <<>>
                 ELSE IF kind[r] # "any"
                      THEN <<Task("count", c, r, Fulfilled),
                             Task("complete", c, r, Fulfilled)>>
                      ELSE Settled(c, Fulfilled) \o <<Task("flag", c, r, Fulfilled)>>)
    /\ UNCHANGED <<state, requests, mtx, resolves, rejects, arrived, over, calls,
                   crashed>>

Count(t) ==
    /\ Next_is(t, "count")
    /\ arrived' = [arrived EXCEPT ![Head(todo[t]).core] = @ + 1]
    /\ Go(t, <<>>)
    /\ UNCHANGED <<state, requests, mtx, resolves, rejects, over, calls, crashed>>

(* Mutant: the first promise of a whenAll completes it.                    *)
Complete_First(t) ==
    /\ Next_is(t, "complete")
    /\ Go(t, IF arrived[Head(todo[t]).core] >= 1
             THEN Settled(Head(todo[t]).core, Fulfilled) ELSE <<>>)
    /\ UNCHANGED <<state, requests, mtx, resolves, rejects, arrived, over, calls,
                   crashed>>

Complete(t) ==
    /\ Next_is(t, "complete")
    /\ Go(t, IF arrived[Head(todo[t]).core] = total[Head(todo[t]).core]
             THEN Settled(Head(todo[t]).core, Fulfilled) ELSE <<>>)
    /\ UNCHANGED <<state, requests, mtx, resolves, rejects, arrived, over, calls,
                   crashed>>

(* One that is rejected rejects the whole; only a range looks whether it   *)
(* has been rejected.                                                      *)
Refuse(t) ==
    /\ Next_is(t, "refuse")
    /\ LET c == Head(todo[t]).core
           r == Head(todo[t]).req
       IN  Go(t, IF kind[r] = "range" /\ over[c] THEN <<>>
                 ELSE <<Task("flag", c, r, Rejected)>> \o Settled(c, Rejected))
    /\ UNCHANGED <<state, requests, mtx, resolves, rejects, arrived, over, calls,
                   crashed>>

(* Mutant: whenAny does not note that it is done.                          *)
Flag_Omitted(t) ==
    /\ Next_is(t, "flag")
    /\ Go(t, <<>>)
    /\ UNCHANGED <<state, requests, mtx, resolves, rejects, arrived, over, calls,
                   crashed>>

Flag(t) ==
    /\ Next_is(t, "flag")
    /\ over' = [over EXCEPT ![Head(todo[t]).core] = TRUE]
    /\ Go(t, <<>>)
    /\ UNCHANGED <<state, requests, mtx, resolves, rejects, arrived, calls, crashed>>

-------------------------------------------------------------------------------
Step(t) ==
    \/ Check(t) \/ Lock(t) \/ Unlock(t) \/ Settle(t) \/ Run(t) \/ Attach(t)
    \/ AppendRequest(t) \/ Call(t) \/ Done(t) \/ Arrive(t) \/ Count(t)
    \/ Complete(t) \/ Refuse(t) \/ Flag(t)

Finished == (\A t \in Thread : todo[t] = <<>>) \/ crashed

(* The threads have nothing more to do.                                    *)
Stop == Finished /\ UNCHANGED vars

Next == (\E t \in Thread : Step(t)) \/ Stop

Spec == Init /\ [][Next]_vars

(* Every thread is scheduled.                                              *)
FairSpec == Spec /\ \A t \in Thread : WF_vars(Step(t))

-------------------------------------------------------------------------------
TypeOK ==
    /\ state \in [Core -> {Pending, Fulfilled, Rejected}]
    /\ requests \in [Core -> Seq(Request)]
    /\ mtx \in [Core -> Thread \cup {Null}]
    /\ resolves \in [Request -> Nat]
    /\ rejects \in [Request -> Nat]
    /\ arrived \in [Core -> Nat]
    /\ over \in [Core -> BOOLEAN]
    /\ todo \in [Thread -> Seq(Tasks)]
    /\ calls \in [Request -> Nat]
    /\ crashed \in BOOLEAN
    /\ \A c \in Core : mtx[c] # Null =>     \* who holds a mutex will release it
          \E i \in DOMAIN todo[mtx[c]] :
              todo[mtx[c]][i].op = "unlock" /\ todo[mtx[c]][i].core = c

(* The cores settled by continuations, as against those settled through a  *)
(* Resolver or Rejection.                                                  *)
Chaining(r) == kind[r] \in {"value", "promise"} \/ (kind[r] = "void" /\ rethrows[r])

Chains == {chain[r] : r \in {q \in Request : Chaining(q)}}

(* Once a promise is settled and its mutex is free, every continuation     *)
(* attached to it has been called, and called once, whichever of then()    *)
(* and the resolver came first: what the mutex of Core is for.             *)
NoneForgotten ==
    \A c \in Core \ Chains :
        state[c] # Pending /\ mtx[c] = Null =>
            \A i \in DOMAIN requests[c] : calls[requests[c][i]] = 1

(* The promise of a whenAll is fulfilled only when each of the promises it *)
(* waits for is.                                                           *)
AllOrNothing ==
    \A c \in Core, r \in Request :
        state[c] = Fulfilled /\ kind[r] \in {"all", "range"} /\ chain[r] = c =>
            \A d \in Core : (\E i \in DOMAIN requests[d] : requests[d][i] = r) =>
                state[d] = Fulfilled

(* A thread that settles the promises of a whenAll or whenAny one after    *)
(* the other settles their result once: no exception ends the process.     *)
NeverThrows == ~crashed

(* Where every promise is settled in the end, a continuation that then()   *)
(* is about to attach is called in the end: it is not lost between the     *)
(* look at the state and the append, and no thread waits for a mutex for   *)
(* ever.                                                                   *)
EveryThenCalled ==
    \A r \in Request :
        (\E t \in Thread : Next_is(t, "attach") /\ Head(todo[t]).req = r)
            ~> (calls[r] = 1)
=============================================================================
