---------------------------- MODULE Promise_proofs ----------------------------
(***************************************************************************)
(* What the promises guarantee when they are used as PromiseUse says, for  *)
(* any threads, cores, continuations and scripts.  First what the tasks of *)
(* a thread look like, and what a step puts in the place of a task; then   *)
(* who holds which mutex; then the continuations, each attached and called *)
(* once; then what a whenAll counts; at last that no exception ends a      *)
(* thread, where the promises are used as UsedRight says.                  *)
(***************************************************************************)
EXTENDS PromiseUse, FiniteSetTheorems, TLAPS

Ends == {Fulfilled, Rejected}

(* What a task is about.                                                   *)
Proper(x) ==
    /\ x \in Tasks
    /\ x.op # "done" => x.core \in Core
    /\ x.op \in {"attach", "append", "call", "done", "arrive", "count", "complete", "refuse"} =>
          x.req \in Request
    /\ x.op \in {"check", "settle", "run", "call"} => x.to \in Ends
    /\ x.op = "check" \/ (x.op = "lock" /\ x.req = Null) => x.core \in Own
    /\ x.op \in {"attach", "append"} => x.core = promiseOf[x.req]
    /\ x.op \in {"arrive", "count", "complete", "refuse"} => IsJoin(x.req) /\ x.core = chain[x.req]
    /\ x.op \in {"count", "complete"} => kind[x.req] # "any"

(* The tasks of a call follow each other.                                  *)
Follows(x, y) ==
    /\ x.op = "check" => y = Task("lock", x.core, Null, x.to)
    /\ x.op = "lock" => y = IF x.req = Null THEN Task("settle", x.core, Null, x.to)
                            ELSE Task("attach", x.core, x.req, Null)
    /\ x.op = "settle" /\ x.core \in Own => y = Task("run", x.core, Null, x.to)
    /\ x.op = "run" /\ x.core \in Own => y = Task("unlock", x.core, Null, x.to)
    /\ x.op = "attach" => y = Task("append", x.core, x.req, Null)
    /\ x.op = "append" => y = Task("unlock", x.core, x.req, Null)
    /\ x.op = "count" => y = Task("complete", x.core, x.req, x.to)
    /\ y.op = "lock" /\ y.req = Null => x.op = "check"
    /\ y.op = "settle" /\ y.core \in Own => x.op = "lock"
    /\ y.op = "run" /\ y.core \in Own => x.op = "settle" /\ x.core = y.core
    /\ y.op = "attach" => x.op = "lock"
    /\ y.op = "append" => x.op \in {"attach", "call", "done"}
    /\ y.op = "complete" => x.op = "count"

Continues(x) ==
    \/ x.op \in {"check", "lock", "attach", "append", "count"}
    \/ x.op \in {"settle", "run"} /\ x.core \in Own

Formed(s) ==
    /\ \A i \in 1 .. Len(s) : Proper(s[i])
    /\ \A i \in 1 .. Len(s) - 1 : Follows(s[i], s[i + 1])
    /\ s # <<>> => ~Continues(s[Len(s)])

(* A call is under way from the lock to the unlock.                        *)
Intact(s, k) == k >= 4 /\ s[k - 3].op = "lock"
Open(s, k) == k \in 1 .. Len(s) /\ s[k].op = "unlock" /\ ~Intact(s, k)

-------------------------------------------------------------------------------
LEMMA Joined ==
    ASSUME NEW s \in Seq(Tasks), NEW u \in Seq(Tasks)
    PROVE  /\ s \o u \in Seq(Tasks) /\ Len(s \o u) = Len(s) + Len(u)
           /\ Len(s) \in Nat /\ Len(u) \in Nat
           /\ \A i \in 1 .. Len(s) : (s \o u)[i] = s[i]
           /\ \A i \in 1 .. Len(u) : (s \o u)[Len(s) + i] = u[i]
  OBVIOUS

LEMMA FiveTasks ==
    ASSUME NEW a \in Tasks, NEW b \in Tasks, NEW d \in Tasks, NEW f \in Tasks, NEW g \in Tasks
    PROVE  LET s == <<a, b>> \o <<d, f>> \o <<g>>
           IN  /\ s \in Seq(Tasks) /\ Len(s) = 5
               /\ s[1] = a /\ s[2] = b /\ s[3] = d /\ s[4] = f /\ s[5] = g
<1> DEFINE u == <<a, b>>
           v == <<d, f>>
           w == <<g>>
           s == u \o v \o w
<1>1. /\ u \in Seq(Tasks) /\ Len(u) = 2 /\ u[1] = a /\ u[2] = b
      /\ v \in Seq(Tasks) /\ Len(v) = 2 /\ v[1] = d /\ v[2] = f
      /\ w \in Seq(Tasks) /\ Len(w) = 1 /\ w[1] = g
  <2>1. u \in Seq(Tasks) /\ Len(u) = 2 /\ u[1] = a /\ u[2] = b
    OBVIOUS
  <2>2. v \in Seq(Tasks) /\ Len(v) = 2 /\ v[1] = d /\ v[2] = f
    OBVIOUS
  <2>3. w \in Seq(Tasks) /\ Len(w) = 1 /\ w[1] = g
    OBVIOUS
  <2> HIDE DEF u, v, w
  <2> QED
    BY <2>1, <2>2, <2>3
<1> HIDE DEF u, v, w
<1>2. /\ u \o v \in Seq(Tasks) /\ Len(u \o v) = 4
      /\ (u \o v)[1] = u[1] /\ (u \o v)[2] = u[2] /\ (u \o v)[3] = v[1] /\ (u \o v)[4] = v[2]
  <2>1. 1 \in 1 .. 2 /\ 2 \in 1 .. 2 /\ 2 + 1 = 3 /\ 2 + 2 = 4
    OBVIOUS
  <2> QED
    BY <1>1, <2>1, Joined
<1> DEFINE x == u \o v
<1> HIDE DEF x
<1>3. /\ x \in Seq(Tasks) /\ Len(x) = 4 /\ s = x \o w
      /\ x[1] = a /\ x[2] = b /\ x[3] = d /\ x[4] = f
  BY <1>1, <1>2 DEF x
<1>4. /\ x \o w \in Seq(Tasks) /\ Len(x \o w) = 5
      /\ (x \o w)[1] = x[1] /\ (x \o w)[2] = x[2] /\ (x \o w)[3] = x[3] /\ (x \o w)[4] = x[4]
      /\ (x \o w)[5] = w[1]
  <2>1. 1 \in 1 .. 4 /\ 2 \in 1 .. 4 /\ 3 \in 1 .. 4 /\ 4 \in 1 .. 4 /\ 1 \in 1 .. 1 /\ 4 + 1 = 5
    OBVIOUS
  <2>2. /\ x \o w \in Seq(Tasks) /\ Len(x \o w) = Len(x) + Len(w)
        /\ \A i \in 1 .. Len(x) : (x \o w)[i] = x[i]
        /\ \A i \in 1 .. Len(w) : (x \o w)[Len(x) + i] = w[i]
    BY <1>1, <1>3, Joined
  <2>3. Len(x) = 4 /\ Len(w) = 1
    BY <1>1, <1>3
  <2> HIDE DEF s
  <2>4. Len(x \o w) = 5 /\ (x \o w)[5] = w[1]
    BY <2>1, <2>2, <2>3
  <2>5. \A i \in {1, 2, 3, 4} : (x \o w)[i] = x[i]
    BY <2>1, <2>2, <2>3
  <2> QED
    BY <2>2, <2>4, <2>5
<1> QED
  BY <1>1, <1>3, <1>4 DEF u, v, w

LEMMA FormedTail ==
    ASSUME NEW s \in Seq(Tasks), s # <<>>, Formed(s)
    PROVE  Formed(Tail(s))
<1>1. /\ Len(s) \in Nat /\ Len(s) >= 1 /\ Len(Tail(s)) = Len(s) - 1 /\ Tail(s) \in Seq(Tasks)
      /\ \A i \in 1 .. Len(s) - 1 : Tail(s)[i] = s[i + 1]
  OBVIOUS
<1>2. Tail(s) # <<>> => Len(s) - 1 \in 1 .. Len(s) - 1 /\ Tail(s)[Len(s) - 1] = s[Len(s)]
  BY <1>1
<1> DEFINE u == Tail(s)
<1> HIDE DEF u
<1>3. \A i \in 1 .. Len(u) : Proper(u[i])
  BY <1>1 DEF Formed, u
<1>4. \A i \in 1 .. Len(u) - 1 : Follows(u[i], u[i + 1])
  <2> SUFFICES ASSUME NEW i \in 1 .. Len(u) - 1 PROVE Follows(u[i], u[i + 1])
    OBVIOUS
  <2>1. u[i] = s[i + 1] /\ u[i + 1] = s[(i + 1) + 1] /\ i + 1 \in 1 .. Len(s) - 1
    BY <1>1 DEF u
  <2> QED
    BY <2>1 DEF Formed
<1>5. u # <<>> => ~Continues(u[Len(u)])
  BY <1>1, <1>2 DEF Formed, u
<1> QED
  BY <1>3, <1>4, <1>5 DEF Formed, u

LEMMA FormedJoin ==
    ASSUME NEW s \in Seq(Tasks), NEW u \in Seq(Tasks), Formed(s), Formed(u),
           s # <<>> /\ u # <<>> => Follows(s[Len(s)], u[1])
    PROVE  Formed(s \o u)
<1> DEFINE w == s \o u
<1>1. /\ Len(s) \in Nat /\ Len(u) \in Nat /\ Len(w) = Len(s) + Len(u) /\ w \in Seq(Tasks)
      /\ \A i \in 1 .. Len(s) : w[i] = s[i]
      /\ \A i \in 1 .. Len(u) : w[Len(s) + i] = u[i]
      /\ s = <<>> <=> Len(s) = 0
      /\ u = <<>> <=> Len(u) = 0
      /\ w = <<>> <=> Len(w) = 0
  OBVIOUS
<1> HIDE DEF w
<1>2. ASSUME NEW i \in 1 .. Len(w), ~(i \in 1 .. Len(s))
      PROVE  i - Len(s) \in 1 .. Len(u) /\ w[i] = u[i - Len(s)]
  <2>1. i - Len(s) \in 1 .. Len(u) /\ Len(s) + (i - Len(s)) = i
    BY <1>1, <1>2
  <2> QED
    BY <1>1, <2>1
<1>3. \A i \in 1 .. Len(w) : Proper(w[i])
  BY <1>1, <1>2 DEF Formed
<1>4. ASSUME NEW i \in 1 .. Len(w) - 1 PROVE Follows(w[i], w[i + 1])
  <2>1. CASE i \in 1 .. Len(s) - 1
    <3>1. w[i] = s[i] /\ w[i + 1] = s[i + 1]
      BY <1>1, <2>1
    <3> QED
      BY <2>1, <3>1 DEF Formed
  <2>2. CASE i = Len(s)
    <3>1. w[i] = s[Len(s)] /\ w[i + 1] = u[1] /\ s # <<>> /\ u # <<>>
      BY <1>1, <2>2
    <3> QED
      BY <3>1
  <2>3. CASE i > Len(s)
    <3>1. i - Len(s) \in 1 .. Len(u) - 1
      BY <1>1, <2>3
    <3>3. \A k \in 1 .. Len(u) - 1 : k \in 1 .. Len(u) /\ k + 1 \in 1 .. Len(u)
      BY <1>1
    <3>4. \A k \in 1 .. Len(u) - 1 : k = i - Len(s) => Len(s) + k = i /\ Len(s) + (k + 1) = i + 1
      BY <1>1
    <3>2. w[i] = u[i - Len(s)] /\ w[i + 1] = u[(i - Len(s)) + 1]
      BY <1>1, <3>1, <3>3, <3>4
    <3> QED
      BY <3>1, <3>2 DEF Formed
  <2> QED
    BY <1>1, <2>1, <2>2, <2>3
<1>5. w # <<>> => ~Continues(w[Len(w)])
  <2>1. CASE u = <<>>
    BY <1>1, <2>1 DEF Formed
  <2>2. CASE u # <<>>
    <3>1. Len(u) \in 1 .. Len(u) /\ Len(w) = Len(s) + Len(u)
      BY <1>1, <2>2
    <3>2. w[Len(w)] = u[Len(u)]
      BY <1>1, <3>1
    <3> QED
      BY <2>2, <3>2 DEF Formed
  <2> QED
    BY <2>1, <2>2
<1> QED
  BY <1>3, <1>4, <1>5 DEF Formed, w

(* The calls.                                                              *)
LEMMA TaskIn ==
    /\ \A c \in Core \cup {Null}, r \in Request \cup {Null}, to \in {Pending, Fulfilled, Rejected, Null} :
          \A op \in {"check", "lock", "settle", "run", "unlock", "attach", "append",
                     "call", "done", "arrive", "count", "complete", "refuse", "flag"} :
              Task(op, c, r, to) \in Tasks
    /\ \A op, c, r, to : /\ Task(op, c, r, to).op = op /\ Task(op, c, r, to).core = c
                         /\ Task(op, c, r, to).req = r /\ Task(op, c, r, to).to = to
  BY DEF Task, Tasks

LEMMA ThenFormed ==
    ASSUME NEW c \in Core, NEW r \in Request, c = promiseOf[r]
    PROVE  /\ Then(c, r) \in Seq(Tasks) /\ Len(Then(c, r)) = 4 /\ Formed(Then(c, r))
           /\ Then(c, r)[1] = Task("lock", c, r, Null) /\ Then(c, r)[2] = Task("attach", c, r, Null)
           /\ Then(c, r)[3] = Task("append", c, r, Null) /\ Then(c, r)[4] = Task("unlock", c, r, Null)
<1> DEFINE s == Then(c, r)
<1>1. r # Null /\ Null \notin Own
  BY PromiseAssumption DEF Own
<1>2. s \in Seq(Tasks) /\ Len(s) = 4
  BY TaskIn DEF Then
<1>3. /\ s[1] = Task("lock", c, r, Null) /\ s[2] = Task("attach", c, r, Null)
      /\ s[3] = Task("append", c, r, Null) /\ s[4] = Task("unlock", c, r, Null)
  BY DEF Then
<1> HIDE DEF s
<1>4. \A i \in 1 .. 4 : Proper(s[i])
  <2>1. Proper(s[1]) /\ Proper(s[2]) /\ Proper(s[3]) /\ Proper(s[4])
    BY <1>1, <1>3, TaskIn DEF Proper
  <2>2. \A i \in 1 .. 4 : i \in {1, 2, 3, 4}
    OBVIOUS
  <2> QED
    BY <2>1, <2>2
<1>5. \A i \in 1 .. 3 : Follows(s[i], s[i + 1])
  <2>1. Follows(s[1], s[2]) /\ Follows(s[2], s[3]) /\ Follows(s[3], s[4])
    BY <1>1, <1>3, TaskIn DEF Follows
  <2>2. \A i \in 1 .. 3 : i \in {1, 2, 3}
    OBVIOUS
  <2> QED
    BY <2>1, <2>2
<1>6. ~Continues(s[4])
  BY <1>3, TaskIn DEF Continues
<1>7. Formed(s)
  BY <1>2, <1>4, <1>5, <1>6 DEF Formed
<1> QED
  BY <1>2, <1>3, <1>7 DEF s

LEMMA SettledFormed ==
    ASSUME NEW c \in Own, NEW e \in Ends
    PROVE  /\ Settled(c, e) \in Seq(Tasks) /\ Len(Settled(c, e)) = 5 /\ Formed(Settled(c, e))
           /\ Settled(c, e)[1] = Task("check", c, Null, e) /\ Settled(c, e)[2] = Task("lock", c, Null, e)
           /\ Settled(c, e)[3] = Task("settle", c, Null, e) /\ Settled(c, e)[4] = Task("run", c, Null, e)
           /\ Settled(c, e)[5] = Task("unlock", c, Null, e)
<1> DEFINE s == Settled(c, e)
<1>1. c \in Core /\ Null \in Request \cup {Null}
  BY DEF Own
<1>2. /\ s \in Seq(Tasks) /\ Len(s) = 5
      /\ s[1] = Task("check", c, Null, e) /\ s[2] = Task("lock", c, Null, e)
      /\ s[3] = Task("settle", c, Null, e) /\ s[4] = Task("run", c, Null, e)
      /\ s[5] = Task("unlock", c, Null, e)
  <2>1. \A op \in {"check", "lock", "settle", "run", "unlock"} : Task(op, c, Null, e) \in Tasks
    BY <1>1, TaskIn DEF Ends
  <2> QED
    BY <2>1, FiveTasks DEF Settled, Chained
<1> HIDE DEF s
<1>4. \A i \in 1 .. 5 : Proper(s[i])
  <2>1. Proper(s[1]) /\ Proper(s[2]) /\ Proper(s[3]) /\ Proper(s[4]) /\ Proper(s[5])
    BY <1>1, <1>2, TaskIn DEF Proper, Ends
  <2>2. \A i \in 1 .. 5 : i \in {1, 2, 3, 4, 5}
    OBVIOUS
  <2> QED
    BY <2>1, <2>2
<1>5. \A i \in 1 .. 4 : Follows(s[i], s[i + 1])
  <2>1. Follows(s[1], s[2]) /\ Follows(s[2], s[3]) /\ Follows(s[3], s[4]) /\ Follows(s[4], s[5])
    BY <1>1, <1>2, TaskIn DEF Follows
  <2>2. \A i \in 1 .. 4 : i \in {1, 2, 3, 4}
    OBVIOUS
  <2> QED
    BY <2>1, <2>2
<1>6. ~Continues(s[5])
  BY <1>2, TaskIn DEF Continues
<1>7. Formed(s)
  BY <1>2, <1>4, <1>5, <1>6 DEF Formed
<1> QED
  BY <1>2, <1>7 DEF s

LEMMA SettledOps ==
    ASSUME NEW c \in Own, NEW e \in Ends, NEW j \in 1 .. Len(Settled(c, e))
    PROVE  Settled(c, e)[j].op \in {"check", "lock", "settle", "run", "unlock"}
<1> DEFINE s == Settled(c, e)
<1>1. /\ Len(s) = 5 /\ s[1].op = "check" /\ s[2].op = "lock" /\ s[3].op = "settle"
      /\ s[4].op = "run" /\ s[5].op = "unlock"
  BY SettledFormed, TaskIn
<1>2. \A i \in 1 .. 5 : i \in {1, 2, 3, 4, 5}
  OBVIOUS
<1> HIDE DEF s
<1>3. s[j].op \in {"check", "lock", "settle", "run", "unlock"}
  BY <1>1, <1>2 DEF s
<1> QED
  BY <1>3 DEF s

-------------------------------------------------------------------------------
Typed ==
    /\ state \in [Core -> {Pending, Fulfilled, Rejected}]
    /\ requests \in [Core -> Seq(Request)]
    /\ mtx \in [Core -> Thread \cup {Null}]
    /\ resolves \in [Request -> Nat]
    /\ rejects \in [Request -> Nat]
    /\ arrived \in [Core -> Nat]
    /\ over \in [Core -> BOOLEAN]
    /\ todo \in [Thread -> Seq(Tasks)]
    /\ calls \in [Request -> Nat]
    /\ crashed \in BOOLEAN

Shape == \A t \in Thread : Formed(todo[t])

(* What a task puts in its place.                                          *)
After(x) ==
    CASE x.op = "run" -> [i \in DOMAIN requests[x.core] |-> Task("call", x.core, requests[x.core][i], x.to)]
      [] x.op = "attach" -> IF state[x.core] = Pending THEN <<>>
                            ELSE <<Task("call", x.core, x.req, state[x.core])>>
      [] x.op = "call" -> (IF x.to = Fulfilled THEN Fulfil(x.req) ELSE Refusal(x.core, x.req))
                              \o <<Task("done", chain[x.req], x.req, x.to)>>
      [] x.op = "arrive" -> IF over[x.core] THEN <<>>
                            ELSE IF kind[x.req] # "any"
                            THEN <<Task("count", x.core, x.req, Fulfilled),
                                   Task("complete", x.core, x.req, Fulfilled)>>
                            ELSE Settled(x.core, Fulfilled) \o <<Task("flag", x.core, x.req, Fulfilled)>>
      [] x.op = "complete" -> IF arrived[x.core] = total[x.core] THEN Settled(x.core, Fulfilled) ELSE <<>>
      [] x.op = "refuse" -> IF kind[x.req] = "range" /\ over[x.core] THEN <<>>
                            ELSE <<Task("flag", x.core, x.req, Rejected)>> \o Settled(x.core, Rejected)
      [] OTHER -> <<>>

(* What it does to the promises.                                           *)
Effect(t, x) ==
    /\ state' = IF x.op = "settle" THEN [state EXCEPT ![x.core] = x.to] ELSE state
    /\ requests' = IF x.op = "append" THEN [requests EXCEPT ![x.core] = Append(@, x.req)] ELSE requests
    /\ mtx' = IF x.op = "lock" THEN [mtx EXCEPT ![x.core] = t]
              ELSE IF x.op = "unlock" THEN [mtx EXCEPT ![x.core] = Null] ELSE mtx
    /\ calls' = IF x.op = "call" THEN [calls EXCEPT ![x.req] = @ + 1] ELSE calls
    /\ arrived' = IF x.op = "count" THEN [arrived EXCEPT ![x.core] = @ + 1] ELSE arrived
    /\ x.op = "lock" => mtx[x.core] = Null
    /\ x.op = "check" => state[x.core] = Pending

Moved(t, x) ==
    /\ todo[t] # <<>> /\ x = Head(todo[t])
    /\ todo' = [todo EXCEPT ![t] = After(x) \o Tail(@)]
    /\ Effect(t, x)
    /\ UNCHANGED crashed

Ops == {"check", "lock", "settle", "run", "unlock", "attach", "append",
        "call", "done", "arrive", "count", "complete", "refuse", "flag"}

LEMMA StepIs ==
    ASSUME NEW t, Step(t)
    PROVE  \/ crashed' = TRUE /\ UNCHANGED <<state, requests, mtx, arrived, todo, calls>>
           \/ Moved(t, Head(todo[t]))
<1> DEFINE x == Head(todo[t])
<1>1. CASE Check(t)
  BY <1>1 DEF Check, Next_is, Go, Throws, Moved, After, Effect
<1>2. CASE Lock(t)
  BY <1>2 DEF Lock, Next_is, Go, Moved, After, Effect
<1>3. CASE Unlock(t)
  BY <1>3 DEF Unlock, Next_is, Go, Moved, After, Effect
<1>4. CASE Settle(t)
  BY <1>4 DEF Settle, Next_is, Go, Moved, After, Effect
<1>5. CASE Run(t)
  BY <1>5 DEF Run, Next_is, Go, Moved, After, Effect
<1>6. CASE Attach(t)
  BY <1>6 DEF Attach, Next_is, Go, Moved, After, Effect
<1>7. CASE AppendRequest(t)
  BY <1>7 DEF AppendRequest, Next_is, Go, Moved, After, Effect
<1>8. CASE Call(t)
  <2>1. x.op = "call" /\ todo[t] # <<>>
    BY <1>8 DEF Call, Next_is
  <2>2. \/ crashed' = TRUE /\ UNCHANGED <<state, requests, mtx, arrived, todo, calls>>
        \/ /\ UNCHANGED <<state, requests, mtx, arrived, crashed>>
           /\ calls' = [calls EXCEPT ![x.req] = @ + 1]
           /\ todo' = [todo EXCEPT ![t] = ((IF x.to = Fulfilled THEN Fulfil(x.req) ELSE Refusal(x.core, x.req))
                              \o <<Task("done", chain[x.req], x.req, x.to)>>) \o Tail(@)]
    BY <1>8, Zenon DEF Call, Go, Throws
  <2>3. After(x) = (IF x.to = Fulfilled THEN Fulfil(x.req) ELSE Refusal(x.core, x.req))
                              \o <<Task("done", chain[x.req], x.req, x.to)>>
    BY <2>1 DEF After
  <2> HIDE DEF x
  <2>4. x.op # "settle" /\ x.op # "append" /\ x.op # "lock" /\ x.op # "unlock" /\ x.op # "count" /\ x.op # "check"
    BY <2>1
  <2>5. Effect(t, x) \/ (crashed' = TRUE /\ UNCHANGED <<state, requests, mtx, arrived, todo, calls>>)
    BY <2>1, <2>2, <2>4 DEF Effect
  <2> QED
    BY <2>1, <2>2, <2>3, <2>5 DEF Moved, x
<1>9. CASE Done(t)
  BY <1>9 DEF Done, Next_is, Go, Moved, After, Effect
<1>10. CASE Arrive(t)
  BY <1>10 DEF Arrive, Next_is, Go, Moved, After, Effect
<1>11. CASE Count(t)
  BY <1>11 DEF Count, Next_is, Go, Moved, After, Effect
<1>12. CASE Complete(t)
  BY <1>12 DEF Complete, Next_is, Go, Moved, After, Effect
<1>13. CASE Refuse(t)
  BY <1>13 DEF Refuse, Next_is, Go, Moved, After, Effect
<1>14. CASE Flag(t)
  BY <1>14 DEF Flag, Next_is, Go, Moved, After, Effect
<1> QED
  BY <1>1, <1>2, <1>3, <1>4, <1>5, <1>6, <1>7, <1>8, <1>9, <1>10, <1>11, <1>12, <1>13, <1>14 DEF Step

-------------------------------------------------------------------------------
(* Where a task comes from.                                                *)
Born(x, y) ==
    /\ y.op = "call" =>
          \/ x.op = "attach" /\ y = Task("call", x.core, x.req, state[x.core]) /\ state[x.core] # Pending
          \/ x.op = "run" /\ \E n \in DOMAIN requests[x.core] : y = Task("call", x.core, requests[x.core][n], x.to)
    /\ y.op \in {"attach", "append"} =>
          /\ x.op = "call" /\ x.to = Fulfilled /\ kind[x.req] = "promise"
          /\ y.req = chainer[x.req] /\ y.core = inner[x.req]
    /\ y.op \in {"arrive", "refuse"} =>
          /\ x.op = "call" /\ IsJoin(x.req) /\ y.req = x.req /\ y.core = chain[x.req]
          /\ y.op = "arrive" <=> x.to = Fulfilled
    /\ y.op \in {"count", "complete"} => x.op = "arrive" /\ y.req = x.req /\ y.core = x.core
    /\ y.op \in {"settle", "run"} /\ y.core \in Own =>
          /\ x.op \in {"arrive", "complete", "refuse"} /\ y.core = x.core
          /\ y.op = "settle" /\ y.to = Fulfilled =>
                \/ x.op = "arrive" /\ kind[x.req] = "any"
                \/ x.op = "complete" /\ arrived[x.core] = total[x.core]
          /\ y.op = "settle" /\ y.to = Rejected => x.op = "refuse"
    /\ y.op = "flag" =>
          x.op \in {"arrive", "refuse"} /\ y.core = x.core /\ (x.op = "arrive" => kind[x.req] = "any")
    /\ y.op = "done" => x.op = "call" /\ y.req = x.req

Singles == {"attach", "append", "arrive", "count", "refuse", "settle", "flag"}

(* The tasks that are never the first of a call.                           *)
Later(y) == (y.op \in {"settle", "run"} /\ y.core \in Own) \/ (y.op = "lock" /\ y.req = Null)

Put(x, s) ==
    /\ s \in Seq(Tasks) /\ Formed(s)
    /\ \A k \in 1 .. Len(s) :
          /\ Born(x, s[k])
          /\ s[k].op = "unlock" => Intact(s, k)
          /\ Later(s[k]) => k >= 2
    /\ s # <<>> =>
          /\ x.op \in {"run", "attach", "call", "arrive", "complete", "refuse"}
          /\ s[Len(s)].op \in {"unlock", "done", "call", "flag", "complete"}
          /\ x.op \in {"call", "attach"} => s[Len(s)].op \in {"call", "done"}
    /\ \A i, j \in 1 .. Len(s) : s[i].op = s[j].op /\ s[i].op \in Singles => i = j

LEMMA PutNothing == ASSUME NEW x PROVE Put(x, <<>>)
<1>1. <<>> \in Seq(Tasks) /\ Len(<<>>) = 0
  OBVIOUS
<1>2. \A i : i \notin 1 .. 0
  OBVIOUS
<1>3. Formed(<<>>)
  <2>1. \A i : i \notin 1 .. 0 - 1
    OBVIOUS
  <2> QED
    BY <1>1, <1>2, <2>1 DEF Formed
<1> QED
  BY <1>1, <1>2, <1>3 DEF Put

(* A task alone.                                                           *)
LEMMA PutOne ==
    ASSUME NEW x, NEW y, Proper(y), ~Continues(y), Born(x, y), y.op # "unlock",
           ~Later(y)
    PROVE  /\ <<y>> \in Seq(Tasks) /\ Formed(<<y>>)
           /\ \A k \in 1 .. Len(<<y>>) :
                 /\ Born(x, <<y>>[k])
                 /\ <<y>>[k].op = "unlock" => Intact(<<y>>, k)
                 /\ Later(<<y>>[k]) => k >= 2
           /\ \A i, j \in 1 .. Len(<<y>>) : <<y>>[i].op = <<y>>[j].op /\ <<y>>[i].op \in Singles => i = j
           /\ Len(<<y>>) = 1 /\ <<y>>[1] = y
<1>1. <<y>> \in Seq(Tasks) /\ Len(<<y>>) = 1 /\ <<y>>[1] = y /\ 1 .. 1 = {1} /\ 1 .. 1 - 1 = {}
  BY DEF Proper
<1> DEFINE s == <<y>>
<1> HIDE DEF s
<1>2. Formed(s)
  BY <1>1 DEF Formed, s
<1> QED
  BY <1>1, <1>2 DEF s

(* Tasks, and then others that have nothing of the kind.                   *)
LEMMA PutJoin ==
    ASSUME NEW x, NEW s \in Seq(Tasks), NEW u \in Seq(Tasks), Put(x, s), Put(x, u), s # <<>>, u # <<>>,
           Follows(s[Len(s)], u[1]),
           u[Len(u)].op \in {"unlock", "done", "call", "flag", "complete"},
           x.op \in {"call", "attach"} => u[Len(u)].op \in {"call", "done"},
           \A i \in 1 .. Len(s) : \A j \in 1 .. Len(u) : ~(s[i].op = u[j].op /\ s[i].op \in Singles),
           \A i \in 1 .. Len(u) : Later(u[i]) => i >= 2
    PROVE  Put(x, s \o u)
<1> DEFINE w == s \o u
<1>1. /\ w \in Seq(Tasks) /\ Len(w) = Len(s) + Len(u) /\ Len(s) \in Nat /\ Len(u) \in Nat
      /\ \A i \in 1 .. Len(s) : w[i] = s[i]
      /\ \A i \in 1 .. Len(u) : w[Len(s) + i] = u[i]
  BY Joined
<1>2. Formed(w)
  BY FormedJoin DEF Put
<1>3. w # <<>> /\ Len(s) > 0 /\ Len(u) > 0
  OBVIOUS
<1> HIDE DEF w
<1>4. w[Len(w)] = u[Len(u)]
  BY <1>1, <1>3
<1>5. ASSUME NEW k \in 1 .. Len(w), ~(k \in 1 .. Len(s))
      PROVE  k - Len(s) \in 1 .. Len(u) /\ w[k] = u[k - Len(s)]
  <2>1. k - Len(s) \in 1 .. Len(u) /\ Len(s) + (k - Len(s)) = k
    BY <1>1, <1>5
  <2> QED
    BY <1>1, <2>1
<1>6. ASSUME NEW k \in 1 .. Len(w)
      PROVE  /\ Born(x, w[k])
             /\ w[k].op = "unlock" => Intact(w, k)
             /\ Later(w[k]) => k >= 2
  <2>1. CASE k \in 1 .. Len(s)
    <3>1. w[k] = s[k]
      BY <1>1, <2>1
    <3>2. s[k].op = "unlock" => Intact(w, k)
      <4>1. ASSUME s[k].op = "unlock" PROVE k >= 4 /\ s[k - 3].op = "lock" /\ k - 3 \in 1 .. Len(s)
        BY <1>1, <2>1, <4>1 DEF Put, Intact
      <4> QED
        BY <1>1, <4>1 DEF Intact
    <3> QED
      BY <2>1, <3>1, <3>2 DEF Put
  <2>2. CASE ~(k \in 1 .. Len(s))
    <3> DEFINE i == k - Len(s)
    <3>1. i \in 1 .. Len(u) /\ w[k] = u[i] /\ k = Len(s) + i
      BY <1>1, <1>5, <2>2
    <3> HIDE DEF i
    <3>2. u[i].op = "unlock" => Intact(w, k)
      <4>1. ASSUME u[i].op = "unlock" PROVE i >= 4 /\ u[i - 3].op = "lock" /\ i - 3 \in 1 .. Len(u)
        BY <1>1, <3>1, <4>1 DEF Put, Intact
      <4>2. ASSUME u[i].op = "unlock" PROVE k >= 4 /\ k - 3 = Len(s) + (i - 3)
        BY <1>1, <3>1, <4>1, <4>2
      <4>3. ASSUME u[i].op = "unlock" PROVE w[k - 3] = u[i - 3]
        BY <1>1, <4>1, <4>2, <4>3
      <4> QED
        BY <4>1, <4>2, <4>3 DEF Intact
    <3>3. k >= i
      BY <1>1, <3>1
    <3> QED
      BY <1>1, <3>1, <3>2, <3>3 DEF Put
  <2> QED
    BY <2>1, <2>2
<1>7. ASSUME NEW i \in 1 .. Len(w), NEW j \in 1 .. Len(w), w[i].op = w[j].op, w[i].op \in Singles
      PROVE  i = j
  <2>1. CASE i \in 1 .. Len(s) /\ j \in 1 .. Len(s)
    BY <1>1, <1>7, <2>1 DEF Put
  <2>2. CASE i \in 1 .. Len(s) /\ ~(j \in 1 .. Len(s))
    BY <1>1, <1>5, <1>7, <2>2
  <2>3. CASE ~(i \in 1 .. Len(s)) /\ j \in 1 .. Len(s)
    BY <1>1, <1>5, <1>7, <2>3
  <2>4. CASE ~(i \in 1 .. Len(s)) /\ ~(j \in 1 .. Len(s))
    <3>1. i - Len(s) = j - Len(s)
      BY <1>5, <1>7, <2>4 DEF Put
    <3> QED
      BY <1>1, <3>1
  <2> QED
    BY <2>1, <2>2, <2>3, <2>4
<1>8. x.op \in {"run", "attach", "call", "arrive", "complete", "refuse"}
  BY DEF Put
<1> QED
  BY <1>1, <1>2, <1>4, <1>6, <1>7, <1>8 DEF Put, w

-------------------------------------------------------------------------------
LEMMA Kinds ==
    ASSUME NEW r \in Request
    PROVE  /\ kind[r] \in {"value", "void", "promise", "all", "range", "any"}
           /\ rethrows[r] \in BOOLEAN /\ chain[r] \in Core \cup {Null} /\ promiseOf[r] \in Core
           /\ IsJoin(r) <=> kind[r] \in {"all", "range", "any"}
           /\ Chaining(r) => chain[r] \in Core /\ chain[r] \notin Own
           /\ IsJoin(r) => chain[r] \in Own /\ chain[r] \in Core
  BY PromiseAssumption, UseAssumption DEF IsJoin, Joins, Chaining, Chains, Own, ChainsAreRight, JoinsAreRight

LEMMA PutDone ==
    ASSUME NEW x, x.op = "call", NEW r \in Request, x.req = r, NEW e \in Ends
    PROVE  LET d == Task("done", chain[r], r, e)
           IN  Proper(d) /\ ~Continues(d) /\ Born(x, d) /\ d.op = "done" /\ d \in Tasks
<1> DEFINE d == Task("done", chain[r], r, e)
<1>1. d \in Tasks /\ d.op = "done" /\ d.req = r
  <2>1. chain[r] \in Core \cup {Null} /\ r \in Request \cup {Null} /\ e \in {Pending, Fulfilled, Rejected, Null}
    BY Kinds DEF Ends
  <2> QED
    BY <2>1, TaskIn
<1> HIDE DEF d
<1> QED
  BY <1>1 DEF Proper, Continues, Born, d

LEMMA PutTasks ==
    ASSUME NEW x, NEW s \in Seq(Tasks), NEW r \in Request, NEW e \in Ends,
           Put(x, s), x.op = "call", x.req = r, s # <<>> => Follows(s[Len(s)], Task("done", chain[r], r, e))
    PROVE  Put(x, s \o <<Task("done", chain[r], r, e)>>)
<1> DEFINE d == Task("done", chain[r], r, e)
<1>1. Proper(d) /\ ~Continues(d) /\ Born(x, d) /\ d.op = "done" /\ d \in Tasks
  BY PutDone
<1> HIDE DEF d
<1> DEFINE u == <<d>>
<1>2. u \in Seq(Tasks) /\ u # <<>> /\ Len(u) = 1 /\ u[1] = d /\ u[Len(u)].op = "done"
  BY <1>1
<1>3. Put(x, u)
  BY <1>1, <1>2, PutOne DEF Put, Later
<1>4. \A i \in 1 .. Len(u) : i = 1
  BY <1>2
<1> HIDE DEF u
<1>5. CASE s = <<>>
  <2>1. s \o u = u
    BY <1>2, <1>5
  <2> QED
    BY <1>3, <2>1 DEF u, d
<1>6. CASE s # <<>>
  <2>1. \A i \in 1 .. Len(s) : \A j \in 1 .. Len(u) : ~(s[i].op = u[j].op /\ s[i].op \in Singles)
    BY <1>1, <1>2, <1>4 DEF Singles
  <2>2. \A i \in 1 .. Len(u) : Later(u[i]) => i >= 2
    BY <1>1, <1>2, <1>4 DEF Later
  <2>3. Follows(s[Len(s)], u[1])
    BY <1>2, <1>6 DEF d
  <2>4. Put(x, s \o u)
    BY <1>2, <1>3, <1>6, <2>1, <2>2, <2>3, PutJoin
  <2> QED
    BY <2>4 DEF u, d
<1> QED
  BY <1>5, <1>6

(* The tasks that a continuation puts in front, one by one.                *)
LEMMA PutSingle ==
    ASSUME NEW x, NEW y, Proper(y), ~Continues(y), Born(x, y), y.op # "unlock", x.op = "call",
           ~Later(y), NEW r \in Request, x.req = r, NEW e \in Ends,
           y.op \in {"arrive", "refuse", "run"}
    PROVE  Put(x, <<y>> \o <<Task("done", chain[r], r, e)>>)
<1> DEFINE d == Task("done", chain[r], r, e)
           s == <<y>>
           u == <<d>>
<1>1. Proper(d) /\ ~Continues(d) /\ Born(x, d) /\ d.op = "done" /\ d \in Tasks
  BY PutDone
<1> HIDE DEF d
<1>2. /\ s \in Seq(Tasks) /\ Formed(s) /\ Len(s) = 1 /\ s[1] = y
      /\ u \in Seq(Tasks) /\ Formed(u) /\ Len(u) = 1 /\ u[1] = d
  BY <1>1, PutOne DEF Later
<1> HIDE DEF s, u
<1> DEFINE w == s \o u
<1>3. Follows(y, d)
  BY <1>1 DEF Follows, Continues
<1>4. Formed(w)
  BY <1>2, <1>3, FormedJoin
<1>5. w \in Seq(Tasks) /\ Len(w) = 2 /\ w[1] = y /\ w[2] = d
  <2>1. /\ w \in Seq(Tasks) /\ Len(w) = Len(s) + Len(u)
        /\ \A i \in 1 .. Len(s) : w[i] = s[i]
        /\ \A i \in 1 .. Len(u) : w[Len(s) + i] = u[i]
    BY <1>2, Joined
  <2>2. Len(s) = 1 /\ Len(u) = 1
    BY <1>2
  <2> HIDE DEF w
  <2>3. 1 \in 1 .. 1 /\ 1 \in 1 .. 1 /\ 1 + 1 = 2
    OBVIOUS
  <2>4. Len(w) = 2 /\ w[2] = u[1] /\ w[1] = s[1]
    BY <2>1, <2>2, <2>3
  <2> QED
    BY <1>2, <2>1, <2>4
<1> HIDE DEF w
<1>6. \A i \in 1 .. Len(w) : i = 1 \/ i = 2
  BY <1>5
<1>7. Put(x, w)
  BY <1>1, <1>4, <1>5, <1>6 DEF Put, Singles
<1> QED
  BY <1>7 DEF w, s, u, d

LEMMA PutChained ==
    ASSUME NEW x, NEW c \in Core, c \notin Own, NEW e \in Ends, NEW r \in Request, x.op = "call", x.req = r, NEW f \in Ends
    PROVE  Put(x, Chained(c, e) \o <<Task("done", chain[r], r, f)>>)
<1> DEFINE a == Task("settle", c, Null, e)
           b == Task("run", c, Null, e)
           d == Task("done", chain[r], r, f)
           s == <<a, b>>
           u == <<d>>
<1>1. Proper(d) /\ ~Continues(d) /\ Born(x, d) /\ d.op = "done" /\ d \in Tasks
  BY PutDone
<1>2. /\ a \in Tasks /\ a.op = "settle" /\ a.core = c /\ a.to = e /\ a.req = Null
      /\ b \in Tasks /\ b.op = "run" /\ b.core = c /\ b.to = e /\ b.req = Null
  BY TaskIn DEF Ends
<1> HIDE DEF a, b, d
<1>3. Proper(a) /\ Proper(b) /\ Born(x, a) /\ Born(x, b) /\ ~Continues(b) /\ Follows(a, b) /\ Follows(b, d)
  BY <1>1, <1>2 DEF Proper, Born, Continues, Follows
<1>4. /\ s \in Seq(Tasks) /\ Len(s) = 2 /\ s[1] = a /\ s[2] = b
      /\ u \in Seq(Tasks) /\ Len(u) = 1 /\ u[1] = d
  BY <1>1, <1>2
<1> HIDE DEF s, u
<1> DEFINE w == s \o u
<1>5. w \in Seq(Tasks) /\ Len(w) = 3 /\ w[1] = a /\ w[2] = b /\ w[3] = d
  <2>1. /\ w \in Seq(Tasks) /\ Len(w) = Len(s) + Len(u)
        /\ \A i \in 1 .. Len(s) : w[i] = s[i]
        /\ \A i \in 1 .. Len(u) : w[Len(s) + i] = u[i]
    BY <1>4, Joined
  <2>2. Len(s) = 2 /\ Len(u) = 1
    BY <1>4
  <2> HIDE DEF w
  <2>3. 1 \in 1 .. 2 /\ 2 \in 1 .. 2 /\ 1 \in 1 .. 1 /\ 2 + 1 = 3
    OBVIOUS
  <2>4. Len(w) = 3 /\ w[3] = u[1] /\ w[1] = s[1] /\ w[2] = s[2]
    BY <2>1, <2>2, <2>3
  <2> QED
    BY <1>4, <2>1, <2>4
<1> HIDE DEF w
<1>6. \A i \in 1 .. 3 : i = 1 \/ i = 2 \/ i = 3
  OBVIOUS
<1>7. Formed(w)
  <2>1. \A i \in 1 .. 3 - 1 : i = 1 \/ i = 2
    OBVIOUS
  <2>2. 1 + 1 = 2 /\ 2 + 1 = 3
    OBVIOUS
  <2> QED
    BY <1>1, <1>3, <1>5, <1>6, <2>1, <2>2 DEF Formed
<1>8. Put(x, w)
  BY <1>1, <1>2, <1>3, <1>5, <1>6, <1>7 DEF Put, Singles, Later
<1> QED
  BY <1>8 DEF w, s, u, a, b, d, Chained

LEMMA PutThen ==
    ASSUME NEW x, NEW r \in Request, Proper(x), x.op = "call", x.req = r, x.to = Fulfilled, kind[r] = "promise"
    PROVE  Put(x, Then(inner[r], chainer[r]) \o <<Task("done", chain[r], r, Fulfilled)>>)
<1> DEFINE s == Then(inner[r], chainer[r])
<1>1. chainer[r] \in Request /\ inner[r] = promiseOf[chainer[r]] /\ inner[r] \in Core
  BY UseAssumption DEF ChainsAreRight
<1>2. /\ s \in Seq(Tasks) /\ Len(s) = 4 /\ Formed(s)
      /\ s[1] = Task("lock", inner[r], chainer[r], Null) /\ s[2] = Task("attach", inner[r], chainer[r], Null)
      /\ s[3] = Task("append", inner[r], chainer[r], Null) /\ s[4] = Task("unlock", inner[r], chainer[r], Null)
  BY <1>1, ThenFormed
<1> DEFINE d == Task("done", chain[r], r, Fulfilled)
           u == <<d>>
<1>3. Proper(d) /\ ~Continues(d) /\ Born(x, d) /\ d.op = "done" /\ d \in Tasks
  BY PutDone DEF Ends
<1> HIDE DEF d, s
<1>4. u \in Seq(Tasks) /\ Len(u) = 1 /\ u[1] = d /\ Formed(u)
  BY <1>3, PutOne DEF Later
<1> HIDE DEF u
<1> DEFINE w == s \o u
<1>5. w \in Seq(Tasks) /\ Len(w) = 5 /\ w[1] = s[1] /\ w[2] = s[2] /\ w[3] = s[3] /\ w[4] = s[4] /\ w[5] = d
  <2>1. /\ w \in Seq(Tasks) /\ Len(w) = Len(s) + Len(u)
        /\ \A i \in 1 .. Len(s) : w[i] = s[i]
        /\ \A i \in 1 .. Len(u) : w[Len(s) + i] = u[i]
    BY <1>2, <1>4, Joined
  <2>2. Len(s) = 4 /\ Len(u) = 1
    BY <1>2, <1>4
  <2> HIDE DEF w
  <2>3. 1 \in 1 .. 4 /\ 2 \in 1 .. 4 /\ 3 \in 1 .. 4 /\ 4 \in 1 .. 4 /\ 1 \in 1 .. 1 /\ 4 + 1 = 5
    OBVIOUS
  <2>4. Len(w) = 5 /\ w[5] = u[1] /\ w[1] = s[1] /\ w[2] = s[2] /\ w[3] = s[3] /\ w[4] = s[4]
    BY <2>1, <2>2, <2>3
  <2> QED
    BY <1>2, <1>4, <2>1, <2>4
<1>6. Follows(s[4], d)
  <2>1. s[4].op = "unlock"
    BY <1>2, TaskIn
  <2> QED
    BY <1>3, <2>1 DEF Follows
<1>7. Formed(w)
  BY <1>2, <1>4, <1>6, FormedJoin
<1> HIDE DEF w
<1>8. \A i \in 1 .. 5 : i = 1 \/ i = 2 \/ i = 3 \/ i = 4 \/ i = 5
  OBVIOUS
<1>9. /\ w[1].op = "lock" /\ w[2].op = "attach" /\ w[3].op = "append" /\ w[4].op = "unlock" /\ w[5].op = "done"
      /\ w[2].req = chainer[r] /\ w[2].core = inner[r] /\ w[3].req = chainer[r] /\ w[3].core = inner[r]
  BY <1>2, <1>3, <1>5, TaskIn
<1>10. \A k \in 1 .. 5 : Born(x, w[k])
  BY <1>3, <1>5, <1>8, <1>9 DEF Born
<1>11. \A k \in 1 .. 5 : w[k].op = "unlock" => Intact(w, k)
  <2>1. 4 - 3 = 1
    OBVIOUS
  <2> QED
    BY <1>8, <1>9, <2>1 DEF Intact
<1>12. w[1].req # Null
  BY <1>1, <1>2, <1>5, TaskIn, PromiseAssumption
<1>13. \A k \in 1 .. 5 : Later(w[k]) => k >= 2
  BY <1>8, <1>9, <1>12 DEF Later
<1>14. Put(x, w)
  BY <1>13, <1>5, <1>7, <1>8, <1>9, <1>10, <1>11 DEF Put, Singles
<1> QED
  BY <1>14 DEF w, s, u, d

LEMMA PutCall ==
    ASSUME NEW x, Proper(x), x.op = "call"
    PROVE  Put(x, After(x))
<1> DEFINE r == x.req
           d == <<Task("done", chain[r], r, x.to)>>
<1>1. r \in Request /\ x.to \in Ends /\ x.core \in Core
  BY DEF Proper
<1>2. After(x) = (IF x.to = Fulfilled THEN Fulfil(r) ELSE Refusal(x.core, r)) \o d
  BY DEF After
<1>3. kind[r] \in {"value", "void", "promise", "all", "range", "any"} /\ rethrows[r] \in BOOLEAN
  BY <1>1, Kinds
<1>4. Put(x, <<>> \o d)
  BY <1>1, PutNothing, PutTasks DEF Put
<1>5. CASE x.to = Fulfilled
  <2>0. After(x) = Fulfil(r) \o d
    BY <1>2, <1>5
  <2>1. CASE kind[r] = "void"
    <3>1. Fulfil(r) = <<>>
      BY <2>1 DEF Fulfil
    <3> QED
      BY <1>4, <2>0, <3>1
  <2>2. CASE kind[r] = "value"
    <3>1. Fulfil(r) = Chained(chain[r], Fulfilled)
      BY <2>2 DEF Fulfil
    <3>2. chain[r] \in Core /\ chain[r] \notin Own
      BY <1>1, <2>2, Kinds DEF Chaining
    <3>3. Put(x, Chained(chain[r], Fulfilled) \o d)
      BY <1>1, <3>2, PutChained DEF Ends
    <3> QED
      BY <2>0, <3>1, <3>3
  <2>3. CASE kind[r] = "promise"
    <3>1. Fulfil(r) = Then(inner[r], chainer[r])
      BY <2>3 DEF Fulfil
    <3> QED
      BY <1>1, <1>5, <2>0, <2>3, <3>1, PutThen
  <2>4. CASE kind[r] \in {"all", "range", "any"}
    <3> DEFINE y == Task("arrive", chain[r], r, Fulfilled)
    <3>1. Fulfil(r) = <<y>>
      BY <2>4 DEF Fulfil
    <3>2. IsJoin(r) /\ chain[r] \in Core
      BY <1>1, <2>4, Kinds
    <3>3. y \in Tasks /\ y.op = "arrive" /\ y.core = chain[r] /\ y.req = r
      BY <1>1, <3>2, TaskIn
    <3> HIDE DEF y
    <3>4. Proper(y) /\ ~Continues(y) /\ Born(x, y)
      BY <1>1, <1>5, <3>2, <3>3 DEF Proper, Continues, Born
    <3>5. Put(x, <<y>> \o d)
      BY <1>1, <3>3, <3>4, PutSingle DEF Later
    <3> QED
      BY <2>0, <3>1, <3>5
  <2> QED
    BY <1>3, <2>1, <2>2, <2>3, <2>4
<1>6. CASE x.to # Fulfilled
  <2>0. After(x) = Refusal(x.core, r) \o d
    BY <1>2, <1>6
  <2>1. CASE kind[r] \in {"all", "range", "any"}
    <3> DEFINE y == Task("refuse", chain[r], r, Rejected)
    <3>1. Refusal(x.core, r) = <<y>>
      BY <2>1 DEF Refusal, Joins
    <3>2. IsJoin(r) /\ chain[r] \in Core
      BY <1>1, <2>1, Kinds
    <3>3. y \in Tasks /\ y.op = "refuse" /\ y.core = chain[r] /\ y.req = r
      BY <1>1, <3>2, TaskIn
    <3> HIDE DEF y
    <3>4. Proper(y) /\ ~Continues(y) /\ Born(x, y)
      BY <1>1, <1>6, <3>2, <3>3 DEF Proper, Continues, Born
    <3>5. Put(x, <<y>> \o d)
      BY <1>1, <3>3, <3>4, PutSingle DEF Later
    <3> QED
      BY <2>0, <3>1, <3>5
  <2>2. CASE kind[r] \in {"value", "void", "promise"} /\ rethrows[r]
    <3>1. Refusal(x.core, r) = Chained(chain[r], Rejected)
      BY <2>2 DEF Refusal, Joins
    <3>2. chain[r] \in Core /\ chain[r] \notin Own
      BY <1>1, <2>2, Kinds DEF Chaining
    <3>3. Put(x, Chained(chain[r], Rejected) \o d)
      BY <1>1, <3>2, PutChained DEF Ends
    <3> QED
      BY <2>0, <3>1, <3>3
  <2>3. CASE kind[r] = "void" /\ ~rethrows[r]
    <3>1. Refusal(x.core, r) = <<>>
      BY <2>3 DEF Refusal, Joins
    <3> QED
      BY <1>4, <2>0, <3>1
  <2>4. CASE kind[r] = "value" /\ ~rethrows[r]
    <3> DEFINE y == Task("run", chain[r], Null, Rejected)
    <3>1. Refusal(x.core, r) = <<y>>
      BY <2>4 DEF Refusal, Joins
    <3>2. chain[r] \in Core /\ chain[r] \notin Own
      BY <1>1, <2>4, Kinds DEF Chaining
    <3>3. y \in Tasks /\ y.op = "run" /\ y.core = chain[r] /\ y.req = Null /\ y.to = Rejected
      BY <1>1, <3>2, TaskIn
    <3> HIDE DEF y
    <3>4. Proper(y) /\ ~Continues(y) /\ Born(x, y)
      BY <1>1, <3>2, <3>3 DEF Proper, Continues, Born, Ends
    <3>5. Put(x, <<y>> \o d)
      BY <1>1, <3>2, <3>3, <3>4, PutSingle DEF Later
    <3> QED
      BY <2>0, <3>1, <3>5
  <2>5. kind[r] = "promise" => rethrows[r]
    BY <1>1, UseAssumption DEF ChainsAreRight
  <2> QED
    BY <1>3, <2>1, <2>2, <2>3, <2>4, <2>5
<1> QED
  BY <1>5, <1>6

-------------------------------------------------------------------------------
LEMMA PutRun ==
    ASSUME Typed, NEW x, Proper(x), x.op = "run"
    PROVE  Put(x, After(x))
<1> DEFINE s == After(x)
           L == requests[x.core]
<1>1. x.core \in Core /\ x.to \in Ends /\ L \in Seq(Request)
  BY DEF Proper, Typed
<1>2. s = [i \in DOMAIN L |-> Task("call", x.core, L[i], x.to)] /\ DOMAIN L = 1 .. Len(L) /\ Len(L) \in Nat
  BY <1>1 DEF After
<1>3. \A i \in 1 .. Len(L) : L[i] \in Request
  BY <1>1
<1> HIDE DEF s, L
<1>4. \A i \in 1 .. Len(L) : s[i] = Task("call", x.core, L[i], x.to) /\ s[i] \in Tasks
  BY <1>1, <1>2, <1>3, TaskIn DEF Ends
<1>5. s \in Seq(Tasks) /\ Len(s) = Len(L)
  BY <1>2, <1>4
<1>6. \A i \in 1 .. Len(s) : s[i].op = "call" /\ s[i].req = L[i] /\ s[i].core = x.core /\ s[i].to = x.to
  BY <1>4, <1>5, TaskIn
<1>7. \A i \in 1 .. Len(s) : Proper(s[i])
  BY <1>1, <1>3, <1>4, <1>5, <1>6 DEF Proper
<1>8. \A i \in 1 .. Len(s) - 1 : Follows(s[i], s[i + 1])
  <2>1. \A i \in 1 .. Len(s) - 1 : i \in 1 .. Len(s) /\ i + 1 \in 1 .. Len(s)
    BY <1>2, <1>5
  <2> QED
    BY <1>6, <2>1 DEF Follows
<1>9. s # <<>> => Len(s) \in 1 .. Len(s)
  BY <1>2, <1>5
<1>10. Formed(s)
  BY <1>6, <1>7, <1>8, <1>9 DEF Formed, Continues
<1>11. \A i \in 1 .. Len(s) : Born(x, s[i])
  <2> SUFFICES ASSUME NEW i \in 1 .. Len(s) PROVE Born(x, s[i])
    OBVIOUS
  <2>1. i \in DOMAIN requests[x.core] /\ s[i] = Task("call", x.core, requests[x.core][i], x.to)
    BY <1>2, <1>4, <1>5 DEF L
  <2>2. s[i].op = "call"
    BY <1>6
  <2> QED
    BY <2>1, <2>2 DEF Born
<1> QED
  BY <1>5, <1>6, <1>9, <1>10, <1>11 DEF Put, Singles, Later, s

LEMMA PutAttach ==
    ASSUME Typed, NEW x, Proper(x), x.op = "attach"
    PROVE  Put(x, After(x))
<1>1. CASE state[x.core] = Pending
  <2>1. After(x) = <<>>
    BY <1>1 DEF After
  <2> QED
    BY <2>1, PutNothing
<1>2. CASE state[x.core] # Pending
  <2> DEFINE y == Task("call", x.core, x.req, state[x.core])
  <2>1. After(x) = <<y>>
    BY <1>2 DEF After
  <2>2. x.core \in Core /\ x.req \in Request /\ state[x.core] \in Ends
    BY <1>2 DEF Proper, Typed, Ends
  <2>3. y \in Tasks /\ y.op = "call" /\ y.core = x.core /\ y.req = x.req /\ y.to = state[x.core]
    BY <2>2, TaskIn DEF Ends
  <2>4. Proper(y) /\ ~Continues(y) /\ Born(x, y)
    <3>1. Proper(y) /\ ~Continues(y)
      <4> HIDE DEF y
      <4> QED
        BY <2>2, <2>3 DEF Proper, Continues
    <3>2. Born(x, y)
      <4>1. y.op # "settle" /\ y.op # "run" /\ y.op # "attach" /\ y.op # "append" /\ y.op # "arrive"
            /\ y.op # "refuse" /\ y.op # "count" /\ y.op # "complete" /\ y.op # "flag" /\ y.op # "done"
        BY <2>3
      <4>2. x.op = "attach" /\ y = Task("call", x.core, x.req, state[x.core]) /\ state[x.core] # Pending
        BY <1>2
      <4> HIDE DEF y
      <4> QED
        BY <4>1, <4>2 DEF Born
    <3> QED
      BY <3>1, <3>2
  <2> HIDE DEF y
  <2> DEFINE s == <<y>>
  <2>5. /\ s \in Seq(Tasks) /\ Formed(s) /\ Len(s) = 1 /\ s[1] = y
    BY <2>3, <2>4, PutOne DEF Later
  <2> HIDE DEF s
  <2>6. \A i \in 1 .. Len(s) : i = 1
    BY <2>5
  <2>7. Put(x, s)
    BY <2>3, <2>4, <2>5, <2>6 DEF Put, Singles, Later
  <2> QED
    BY <2>1, <2>7 DEF s
<1> QED
  BY <1>1, <1>2

(* The tasks of a Resolver or Rejection in front of others.                *)
LEMMA PutSettled ==
    ASSUME NEW x, x.op \in {"arrive", "complete", "refuse"}, NEW e \in Ends, x.core \in Own,
           e = Fulfilled => \/ x.op = "arrive" /\ kind[x.req] = "any"
                            \/ x.op = "complete" /\ arrived[x.core] = total[x.core],
           e = Rejected => x.op = "refuse"
    PROVE  Put(x, Settled(x.core, e))
<1> DEFINE s == Settled(x.core, e)
           c == x.core
<1>1. /\ s \in Seq(Tasks) /\ Len(s) = 5 /\ Formed(s)
      /\ s[1] = Task("check", c, Null, e) /\ s[2] = Task("lock", c, Null, e)
      /\ s[3] = Task("settle", c, Null, e) /\ s[4] = Task("run", c, Null, e)
      /\ s[5] = Task("unlock", c, Null, e)
  BY SettledFormed
<1> HIDE DEF s
<1>2. /\ s[1].op = "check" /\ s[2].op = "lock" /\ s[3].op = "settle" /\ s[4].op = "run" /\ s[5].op = "unlock"
      /\ s[3].core = c /\ s[4].core = c /\ s[3].to = e
  BY <1>1, TaskIn
<1>3. \A i \in 1 .. 5 : i = 1 \/ i = 2 \/ i = 3 \/ i = 4 \/ i = 5
  OBVIOUS
<1>4. \A i \in 1 .. 5 : Born(x, s[i])
  BY <1>2, <1>3 DEF Born
<1>5. \A i \in 1 .. 5 : s[i].op = "unlock" => Intact(s, i)
  <2>1. 5 - 3 = 2
    OBVIOUS
  <2> QED
    BY <1>2, <1>3, <2>1 DEF Intact
<1>6. \A i \in 1 .. 5 : Later(s[i]) => i >= 2
  BY <1>2, <1>3 DEF Later
<1>7. \A i, j \in 1 .. 5 : s[i].op = s[j].op /\ s[i].op \in Singles => i = j
  BY <1>2, <1>3 DEF Singles
<1>8. Put(x, s)
  BY <1>1, <1>2, <1>4, <1>5, <1>6, <1>7 DEF Put
<1> QED
  BY <1>8 DEF s

LEMMA PutComplete ==
    ASSUME NEW x, Proper(x), x.op = "complete"
    PROVE  Put(x, After(x))
<1>1. x.core \in Own
  BY Kinds DEF Proper
<1>2. CASE arrived[x.core] = total[x.core]
  <2>1. After(x) = Settled(x.core, Fulfilled)
    BY <1>2 DEF After
  <2> QED
    BY <1>1, <1>2, <2>1, PutSettled DEF Ends, Fulfilled, Rejected
<1>3. CASE arrived[x.core] # total[x.core]
  <2>1. After(x) = <<>>
    BY <1>3 DEF After
  <2> QED
    BY <2>1, PutNothing
<1> QED
  BY <1>2, <1>3

(* The note that a whenAll or whenAny is over.                             *)
LEMMA PutFlag ==
    ASSUME NEW x, Proper(x), x.op \in {"arrive", "refuse"}, NEW e \in Ends,
           x.op = "arrive" => kind[x.req] = "any"
    PROVE  LET y == Task("flag", x.core, x.req, e)
           IN  y \in Tasks /\ y.op = "flag" /\ Proper(y) /\ ~Continues(y) /\ Put(x, <<y>>)
<1> DEFINE y == Task("flag", x.core, x.req, e)
           s == <<y>>
<1>1. y \in Tasks /\ y.op = "flag" /\ y.core = x.core
  BY TaskIn DEF Proper, Ends
<1> HIDE DEF y
<1>2. Proper(y) /\ ~Continues(y) /\ Born(x, y)
  BY <1>1 DEF Proper, Continues, Born
<1>3. s \in Seq(Tasks) /\ Formed(s) /\ Len(s) = 1 /\ s[1] = y
  BY <1>1, <1>2, PutOne DEF Later
<1> HIDE DEF s
<1>4. \A i \in 1 .. Len(s) : i = 1
  BY <1>3
<1>5. Put(x, s)
  BY <1>1, <1>2, <1>3, <1>4 DEF Put, Singles, Later
<1> QED
  BY <1>1, <1>2, <1>5 DEF y, s

LEMMA PutRefuse ==
    ASSUME NEW x, Proper(x), x.op = "refuse"
    PROVE  Put(x, After(x))
<1>1. x.core \in Own /\ x.core \in Core
  BY Kinds DEF Proper
<1>2. CASE kind[x.req] = "range" /\ over[x.core]
  <2>1. After(x) = <<>>
    BY <1>2 DEF After
  <2> QED
    BY <2>1, PutNothing
<1>3. CASE ~(kind[x.req] = "range" /\ over[x.core])
  <2> DEFINE y == Task("flag", x.core, x.req, Rejected)
             s == <<y>>
             u == Settled(x.core, Rejected)
  <2>1. After(x) = s \o u
    BY <1>3 DEF After
  <2>2. y \in Tasks /\ y.op = "flag" /\ Proper(y) /\ ~Continues(y) /\ Put(x, s)
    BY PutFlag DEF Ends
  <2>3. u \in Seq(Tasks) /\ Put(x, u) /\ Len(u) = 5 /\ u[1].op = "check" /\ u[5].op = "unlock"
    <3>1. Put(x, u)
      BY <1>1, PutSettled DEF Ends, Fulfilled, Rejected
    <3>2. /\ u \in Seq(Tasks) /\ Len(u) = 5
          /\ u[1] = Task("check", x.core, Null, Rejected) /\ u[5] = Task("unlock", x.core, Null, Rejected)
      BY <1>1, SettledFormed DEF Ends
    <3> QED
      BY <3>1, <3>2, TaskIn
  <2>o. \A j \in 1 .. Len(u) : u[j].op # "flag"
    BY <1>1, SettledOps DEF Ends
  <2> HIDE DEF u, y, s
  <2>u. u # <<>>
    <3>1. Len(<<>>) = 0
      OBVIOUS
    <3>2. Len(u) # Len(<<>>)
      BY <2>3, <3>1
    <3> QED
      BY <3>2
  <2>4. s \in Seq(Tasks) /\ Len(s) = 1 /\ s[1] = y /\ s # <<>> /\ u # <<>>
    BY <2>2, <2>u DEF s
  <2> HIDE DEF s
  <2>5. Follows(s[Len(s)], u[1])
    BY <2>2, <2>3, <2>4 DEF Follows
  <2>6. \A i \in 1 .. Len(s) : \A j \in 1 .. Len(u) : ~(s[i].op = u[j].op /\ s[i].op \in Singles)
    <3>1. \A i \in 1 .. Len(s) : i = 1
      BY <2>4
    <3> QED
      BY <2>2, <2>4, <2>o, <3>1 DEF Singles
  <2>7. \A i \in 1 .. Len(u) : Later(u[i]) => i >= 2
    BY <2>3 DEF Put
  <2>8. Put(x, s \o u)
    <3>1. u[Len(u)].op = "unlock"
      BY <2>3
    <3> QED
      BY <2>2, <2>3, <2>4, <2>5, <2>6, <2>7, <3>1, PutJoin DEF s
  <2> QED
    BY <2>1, <2>8
<1> QED
  BY <1>2, <1>3

LEMMA PutArrive ==
    ASSUME NEW x, Proper(x), x.op = "arrive"
    PROVE  Put(x, After(x))
<1>1. x.core \in Own /\ x.core \in Core /\ x.req \in Request /\ IsJoin(x.req) /\ x.core = chain[x.req]
  BY Kinds DEF Proper
<1>2. CASE over[x.core]
  <2>1. After(x) = <<>>
    BY <1>2 DEF After
  <2> QED
    BY <2>1, PutNothing
<1>3. CASE ~over[x.core] /\ kind[x.req] # "any"
  <2> DEFINE a == Task("count", x.core, x.req, Fulfilled)
             b == Task("complete", x.core, x.req, Fulfilled)
             s == <<a, b>>
  <2>1. After(x) = s
    BY <1>3 DEF After
  <2>2. /\ a \in Tasks /\ a.op = "count" /\ a.core = x.core /\ a.req = x.req /\ a.to = Fulfilled
        /\ b \in Tasks /\ b.op = "complete" /\ b.core = x.core /\ b.req = x.req
        /\ b = Task("complete", a.core, a.req, a.to)
    BY <1>1, TaskIn
  <2> HIDE DEF a, b
  <2>3. Proper(a) /\ Proper(b) /\ ~Continues(b) /\ Born(x, a) /\ Born(x, b) /\ Follows(a, b)
    BY <1>1, <1>3, <2>2 DEF Proper, Continues, Born, Follows
  <2>4. s \in Seq(Tasks) /\ Len(s) = 2 /\ s[1] = a /\ s[2] = b
    BY <2>2
  <2> HIDE DEF s
  <2>5. (\A i \in 1 .. 2 : i = 1 \/ i = 2) /\ (\A i \in 1 .. 2 - 1 : i = 1) /\ 1 + 1 = 2
    OBVIOUS
  <2>6. Formed(s)
    BY <2>3, <2>4, <2>5 DEF Formed
  <2>7. Put(x, s)
    BY <2>2, <2>3, <2>4, <2>5, <2>6 DEF Put, Singles, Later
  <2> QED
    BY <2>1, <2>7
<1>4. CASE ~over[x.core] /\ kind[x.req] = "any"
  <2> DEFINE y == Task("flag", x.core, x.req, Fulfilled)
             s == Settled(x.core, Fulfilled)
             u == <<y>>
  <2>1. After(x) = s \o u
    BY <1>4 DEF After
  <2>2. y \in Tasks /\ y.op = "flag" /\ Proper(y) /\ ~Continues(y) /\ Put(x, u)
    BY <1>4, PutFlag DEF Ends
  <2>3. s \in Seq(Tasks) /\ Put(x, s) /\ Len(s) = 5 /\ s[5].op = "unlock" /\ s[5].core = x.core
    <3>1. Put(x, s)
      BY <1>1, <1>4, PutSettled DEF Ends, Fulfilled, Rejected
    <3>2. /\ s \in Seq(Tasks) /\ Len(s) = 5 /\ s[5] = Task("unlock", x.core, Null, Fulfilled)
      BY <1>1, SettledFormed DEF Ends
    <3> QED
      BY <3>1, <3>2, TaskIn
  <2>o. \A j \in 1 .. Len(s) : s[j].op # "flag"
    BY <1>1, SettledOps DEF Ends
  <2> HIDE DEF s, y
  <2>4. u \in Seq(Tasks) /\ Len(u) = 1 /\ u[1] = y /\ s # <<>> /\ u # <<>>
    <3>1. s # <<>>
      BY <2>3, PutNothing DEF Put
    <3> QED
      BY <2>2, <3>1
  <2> HIDE DEF u
  <2>5. Follows(s[Len(s)], u[1])
    BY <2>2, <2>3, <2>4 DEF Follows
  <2>6. \A j \in 1 .. Len(u) : j = 1
    BY <2>4
  <2>7. \A i \in 1 .. Len(s) : \A j \in 1 .. Len(u) : ~(s[i].op = u[j].op /\ s[i].op \in Singles)
    BY <2>2, <2>4, <2>6, <2>o DEF Singles
  <2>8. \A i \in 1 .. Len(u) : Later(u[i]) => i >= 2
    BY <2>2, <2>4, <2>6 DEF Later
  <2>9. Put(x, s \o u)
    <3>1. u[Len(u)].op = "flag"
      BY <2>2, <2>4
    <3> QED
      BY <2>2, <2>3, <2>4, <2>5, <2>7, <2>8, <3>1, PutJoin DEF u
  <2> QED
    BY <2>1, <2>9
<1> QED
  BY <1>2, <1>3, <1>4

(* What a task puts in its place is well formed.                           *)
LEMMA AfterIs ==
    ASSUME Typed, NEW x, Proper(x)
    PROVE  Put(x, After(x))
<1>1. CASE x.op \notin {"run", "attach", "call", "arrive", "complete", "refuse"}
  <2>1. After(x) = <<>>
    BY <1>1 DEF After
  <2> QED
    BY <2>1, PutNothing
<1> QED
  BY <1>1, PutRun, PutAttach, PutCall, PutArrive, PutComplete, PutRefuse

-------------------------------------------------------------------------------
(* A step of t leaves the tasks but the first where they were, counted     *)
(* from the end.                                                           *)
Shift(t, n, u, j) == IF u = t THEN (j + n) - 1 ELSE j

Fresh(t, x, u, i) == u = t /\ i \in 1 .. Len(After(x)) /\ todo'[u][i] = After(x)[i]

Rest(t, u, j) == j \in 1 .. Len(todo[u]) /\ ~(u = t /\ j = 1)

LEMMA Moves ==
    ASSUME Typed, Shape, NEW t \in Thread, NEW x, Moved(t, x)
    PROVE  /\ Proper(x) /\ Put(x, After(x)) /\ x = todo[t][1] /\ 1 \in 1 .. Len(todo[t])
           /\ todo' \in [Thread -> Seq(Tasks)] /\ Len(After(x)) \in Nat
           /\ \A k \in 1 .. Len(After(x)) :
                 k \in 1 .. Len(todo'[t]) /\ todo'[t][k] = After(x)[k]
           /\ \A u \in Thread : \A i \in 1 .. Len(todo'[u]) :
                 \/ Fresh(t, x, u, i)
                 \/ \E j \in 1 .. Len(todo[u]) :
                       /\ Rest(t, u, j) /\ i = Shift(t, Len(After(x)), u, j)
                       /\ todo'[u][i] = todo[u][j]
           /\ \A u \in Thread : \A j \in 1 .. Len(todo[u]) : Rest(t, u, j) =>
                 /\ Shift(t, Len(After(x)), u, j) \in 1 .. Len(todo'[u])
                 /\ todo'[u][Shift(t, Len(After(x)), u, j)] = todo[u][j]
<1> DEFINE s == After(x)
           h == todo[t]
           w == s \o Tail(h)
           n == Len(s)
<1>1. h \in Seq(Tasks) /\ h # <<>> /\ x = h[1] /\ Formed(h) /\ 1 \in 1 .. Len(h)
  <2>1. h \in Seq(Tasks) /\ h # <<>> /\ x = Head(h) /\ Formed(h)
    BY DEF Typed, Shape, Moved
  <2> HIDE DEF h
  <2> QED
    BY <2>1
<1>2. Proper(x)
  BY <1>1 DEF Formed
<1>3. Put(x, s)
  BY <1>2, AfterIs
<1>4. s \in Seq(Tasks) /\ n \in Nat
  BY <1>3 DEF Put
<1>5. /\ Tail(h) \in Seq(Tasks) /\ Len(Tail(h)) = Len(h) - 1
      /\ \A i \in 1 .. Len(h) - 1 : Tail(h)[i] = h[i + 1]
      /\ Len(h) \in Nat
  <2> HIDE DEF h
  <2> QED
    BY <1>1
<1>6. /\ w \in Seq(Tasks) /\ Len(w) = n + (Len(h) - 1)
      /\ \A i \in 1 .. n : w[i] = s[i]
      /\ \A i \in 1 .. Len(h) - 1 : w[n + i] = Tail(h)[i]
  <2>1. Tail(h) \in Seq(Tasks) /\ s \in Seq(Tasks)
    BY <1>4, <1>5
  <2> DEFINE v == Tail(h)
  <2>2. Len(v) = Len(h) - 1
    BY <1>5
  <2> HIDE DEF s, v
  <2>3. /\ s \o v \in Seq(Tasks) /\ Len(s \o v) = Len(s) + Len(v)
        /\ \A i \in 1 .. Len(s) : (s \o v)[i] = s[i]
        /\ \A i \in 1 .. Len(v) : (s \o v)[Len(s) + i] = v[i]
    BY <2>1, Joined DEF v
  <2> QED
    BY <2>2, <2>3 DEF v
<1>7. /\ todo' \in [Thread -> Seq(Tasks)] /\ todo'[t] = w
      /\ \A u \in Thread \ {t} : todo'[u] = todo[u]
  <2>1. todo' = [todo EXCEPT ![t] = s \o Tail(@)] /\ todo \in [Thread -> Seq(Tasks)]
    BY DEF Moved, Typed
  <2> QED
    BY <1>6, <2>1
<1> HIDE DEF s, w
<1>8. ASSUME NEW u \in Thread, NEW i \in 1 .. Len(todo'[u])
      PROVE  \/ u = t /\ i \in 1 .. n /\ todo'[u][i] = s[i]
             \/ \E j \in 1 .. Len(todo[u]) :
                   Rest(t, u, j) /\ i = Shift(t, n, u, j) /\ todo'[u][i] = todo[u][j]
  <2>1. CASE u # t
    <3>1. todo'[u] = todo[u]
      BY <1>7, <2>1
    <3>2. i \in 1 .. Len(todo[u]) /\ Rest(t, u, i) /\ i = Shift(t, n, u, i) /\ todo'[u][i] = todo[u][i]
      BY <2>1, <3>1 DEF Rest, Shift
    <3> QED
      BY <3>2
  <2>2. CASE u = t /\ i \in 1 .. n
    BY <1>6, <1>7, <2>2
  <2>3. CASE u = t /\ ~(i \in 1 .. n)
    <3> DEFINE m == i - n
               j == m + 1
    <3>0. n \in Nat /\ Len(h) \in Nat /\ i \in 1 .. n + (Len(h) - 1)
      BY <1>4, <1>5, <1>6, <1>7, <2>3
    <3> HIDE DEF n, h
    <3>1. m \in 1 .. Len(h) - 1 /\ n + m = i /\ j \in 1 .. Len(h) /\ j # 1 /\ i = (j + n) - 1
      BY <2>3, <3>0
    <3> HIDE DEF m
    <3>2. w[i] = h[j]
      BY <1>5, <1>6, <3>1 DEF n, h
    <3> HIDE DEF j
    <3>3. j \in 1 .. Len(todo[u]) /\ Rest(t, u, j) /\ i = Shift(t, n, u, j) /\ todo'[u][i] = todo[u][j]
      BY <1>7, <2>3, <3>1, <3>2 DEF Rest, Shift, h
    <3> QED
      BY <3>3
  <2> QED
    BY <2>1, <2>2, <2>3
<1>9. ASSUME NEW u \in Thread, NEW j \in 1 .. Len(todo[u]), Rest(t, u, j)
      PROVE  Shift(t, n, u, j) \in 1 .. Len(todo'[u]) /\ todo'[u][Shift(t, n, u, j)] = todo[u][j]
  <2>1. CASE u # t
    BY <1>7, <2>1 DEF Shift
  <2>2. CASE u = t
    <3> DEFINE m == j - 1
    <3>0. n \in Nat /\ Len(h) \in Nat /\ j \in 1 .. Len(h) /\ j # 1
      BY <1>4, <1>5, <1>9, <2>2 DEF Rest
    <3>5. Len(w) = n + (Len(h) - 1)
      BY <1>6
    <3> HIDE DEF n, h
    <3>1. m \in 1 .. Len(h) - 1 /\ m + 1 = j /\ n + m = (j + n) - 1 /\ n + m \in 1 .. Len(w)
      BY <3>0, <3>5
    <3> HIDE DEF m
    <3>2. w[n + m] = h[j]
      BY <1>5, <1>6, <3>1 DEF n, h
    <3>3. Shift(t, n, u, j) = n + m
      BY <2>2, <3>1 DEF Shift
    <3> QED
      BY <1>7, <2>2, <3>1, <3>2, <3>3 DEF h
  <2> QED
    BY <2>1, <2>2
<1>10. \A k \in 1 .. n : k \in 1 .. Len(todo'[t]) /\ todo'[t][k] = s[k]
  <2>1. n \in Nat /\ Len(h) \in Nat /\ Len(h) >= 1 /\ Len(w) = n + (Len(h) - 1)
    BY <1>1, <1>4, <1>5, <1>6
  <2>2. \A k \in 1 .. n : k \in 1 .. Len(w)
    <3> HIDE DEF n, h
    <3> QED
      BY <2>1
  <2> QED
    BY <1>6, <1>7, <2>2
<1> QED
  BY <1>1, <1>2, <1>3, <1>4, <1>7, <1>8, <1>9, <1>10 DEF s, Fresh

-------------------------------------------------------------------------------
(* What follows a lock.                                                    *)
LEMMA Section ==
    ASSUME NEW s \in Seq(Tasks), Formed(s), NEW m \in 1 .. Len(s), s[m].op = "lock"
    PROVE  /\ m + 3 \in 1 .. Len(s) /\ m + 1 \in 1 .. Len(s) /\ m + 2 \in 1 .. Len(s)
           /\ s[m + 3].op = "unlock" /\ s[m + 3].core = s[m].core
           /\ IF s[m].req = Null
              THEN /\ s[m + 1] = Task("settle", s[m].core, Null, s[m].to)
                   /\ s[m + 2] = Task("run", s[m].core, Null, s[m].to) /\ s[m].core \in Own
              ELSE /\ s[m + 1] = Task("attach", s[m].core, s[m].req, Null)
                   /\ s[m + 2] = Task("append", s[m].core, s[m].req, Null)
<1>0. Len(s) \in Nat
  OBVIOUS
<1>1. ASSUME NEW i \in 1 .. Len(s), Continues(s[i])
      PROVE  i + 1 \in 1 .. Len(s) /\ Follows(s[i], s[i + 1])
  <2>1. i # Len(s)
    BY <1>0, <1>1 DEF Formed
  <2>2. i \in 1 .. Len(s) - 1 /\ i + 1 \in 1 .. Len(s)
    BY <1>0, <2>1
  <2> QED
    BY <2>2 DEF Formed
<1>2. Proper(s[m])
  BY DEF Formed
<1>3. m + 1 \in 1 .. Len(s) /\ Follows(s[m], s[m + 1])
  BY <1>1 DEF Continues
<1>5. (m + 1) + 1 = m + 2 /\ (m + 2) + 1 = m + 3
  BY <1>0
<1>6. CASE s[m].req = Null
  <2> DEFINE a == Task("settle", s[m].core, Null, s[m].to)
             b == Task("run", s[m].core, Null, s[m].to)
  <2>1. s[m].core \in Own
    BY <1>2, <1>6 DEF Proper
  <2>2. s[m + 1] = a
    BY <1>3, <1>6 DEF Follows
  <2>3. a.op = "settle" /\ a.core = s[m].core /\ a.to = s[m].to
        /\ b.op = "run" /\ b.core = s[m].core /\ b.to = s[m].to
    BY TaskIn
  <2>4. m + 2 \in 1 .. Len(s) /\ Follows(s[m + 1], s[m + 2])
    BY <1>1, <1>3, <1>5, <2>1, <2>2, <2>3 DEF Continues
  <2>5. s[m + 2] = b
    BY <2>1, <2>2, <2>3, <2>4 DEF Follows
  <2>6. m + 3 \in 1 .. Len(s) /\ Follows(s[m + 2], s[m + 3])
    BY <1>1, <1>5, <2>1, <2>3, <2>4, <2>5 DEF Continues
  <2>7. s[m + 3] = Task("unlock", s[m].core, Null, s[m].to)
    BY <2>1, <2>3, <2>5, <2>6 DEF Follows
  <2> QED
    BY <1>3, <1>6, <2>1, <2>2, <2>4, <2>5, <2>6, <2>7, TaskIn
<1>7. CASE s[m].req # Null
  <2> DEFINE a == Task("attach", s[m].core, s[m].req, Null)
             b == Task("append", s[m].core, s[m].req, Null)
  <2>2. s[m + 1] = a
    BY <1>3, <1>7 DEF Follows
  <2>3. a.op = "attach" /\ a.core = s[m].core /\ a.req = s[m].req
        /\ b.op = "append" /\ b.core = s[m].core /\ b.req = s[m].req
    BY TaskIn
  <2>4. m + 2 \in 1 .. Len(s) /\ Follows(s[m + 1], s[m + 2])
    BY <1>1, <1>3, <1>5, <2>2, <2>3 DEF Continues
  <2>5. s[m + 2] = b
    BY <2>2, <2>3, <2>4 DEF Follows
  <2>6. m + 3 \in 1 .. Len(s) /\ Follows(s[m + 2], s[m + 3])
    BY <1>1, <1>5, <2>3, <2>4, <2>5 DEF Continues
  <2>7. s[m + 3] = Task("unlock", s[m].core, s[m].req, Null)
    BY <2>3, <2>5, <2>6 DEF Follows
  <2> QED
    BY <1>3, <1>7, <2>2, <2>4, <2>5, <2>6, <2>7, TaskIn
<1> QED
  BY <1>6, <1>7

LEMMA ShapeStep ==
    ASSUME Typed, Shape, NEW t \in Thread, NEW x, Moved(t, x)
    PROVE  Shape'
<1> DEFINE s == After(x)
           h == todo[t]
<1>1. /\ Proper(x) /\ Put(x, s) /\ x = h[1] /\ 1 \in 1 .. Len(h) /\ Formed(h) /\ h \in Seq(Tasks) /\ h # <<>>
      /\ todo' = [todo EXCEPT ![t] = s \o Tail(h)]
  BY Moves DEF Moved, Typed, Shape
<1> HIDE DEF s
<1>2. Formed(Tail(h)) /\ Tail(h) \in Seq(Tasks) /\ s \in Seq(Tasks) /\ Formed(s)
  BY <1>1, FormedTail DEF Put
<1>3. s # <<>> /\ Tail(h) # <<>> => Follows(s[Len(s)], Tail(h)[1])
  <2> SUFFICES ASSUME s # <<>>, Tail(h) # <<>> PROVE Follows(s[Len(s)], Tail(h)[1])
    OBVIOUS
  <2> DEFINE y == h[2]
  <2>1. Tail(h)[1] = y /\ 1 \in 1 .. Len(h) - 1 /\ 1 + 1 = 2
    <3> HIDE DEF h
    <3> QED
      BY <1>1
  <2>2. Follows(x, y)
    BY <1>1, <2>1 DEF Formed
  <2>3. /\ x.op \in {"run", "attach", "call", "arrive", "complete", "refuse"}
        /\ s[Len(s)].op \in {"unlock", "done", "call", "flag", "complete"}
        /\ x.op \in {"call", "attach"} => s[Len(s)].op \in {"call", "done"}
    BY <1>1 DEF Put
  <2> DEFINE z == s[Len(s)]
  <2> HIDE DEF y, z
  <2>4. Follows(z, y)
    BY <2>2, <2>3 DEF Follows, z
  <2> QED
    BY <2>1, <2>4 DEF z
<1>4. Formed(s \o Tail(h))
  BY <1>2, <1>3, FormedJoin
<1> QED
  BY <1>1, <1>4 DEF Shape, Typed

-------------------------------------------------------------------------------
LEMMA ShiftIs ==
    ASSUME NEW t, NEW n \in Nat, NEW u, NEW j \in Nat
    PROVE  /\ u = t => Shift(t, n, u, j) = (j + n) - 1
           /\ u # t => Shift(t, n, u, j) = j
           /\ \A i \in Nat : Shift(t, n, u, i) = Shift(t, n, u, j) => i = j
           /\ \A i \in Nat : i < j => Shift(t, n, u, i) < Shift(t, n, u, j)
  BY DEF Shift

LEMMA LockPuts == ASSUME NEW x, x.op = "lock" PROVE After(x) = <<>> /\ Len(After(x)) = 0
<1>1. After(x) = <<>>
  BY DEF After
<1> QED
  BY <1>1

LEMMA OpensOld ==
    ASSUME Typed, Shape, NEW t \in Thread, NEW x, Moved(t, x),
           NEW u \in Thread, NEW i \in 1 .. Len(todo'[u]), Open(todo'[u], i)
    PROVE  \E j \in 1 .. Len(todo[u]) :
              /\ Rest(t, u, j) /\ i = Shift(t, Len(After(x)), u, j) /\ todo'[u][i] = todo[u][j]
              /\ Open(todo[u], j) \/ (u = t /\ x.op = "lock" /\ j = 4)
<1> DEFINE s == After(x)
           n == Len(s)
<1>1. /\ Put(x, s) /\ x = todo[t][1] /\ n \in Nat /\ Len(todo'[u]) \in Nat /\ Len(todo[u]) \in Nat
      /\ \A k \in 1 .. n : k \in 1 .. Len(todo'[t]) /\ todo'[t][k] = s[k]
      /\ \A j \in 1 .. Len(todo[u]) : Rest(t, u, j) =>
                 /\ Shift(t, n, u, j) \in 1 .. Len(todo'[u])
                 /\ todo'[u][Shift(t, n, u, j)] = todo[u][j]
      /\ \/ Fresh(t, x, u, i)
         \/ \E j \in 1 .. Len(todo[u]) :
               /\ Rest(t, u, j) /\ i = Shift(t, n, u, j)
               /\ todo'[u][i] = todo[u][j]
  BY Moves DEF Typed
<1>2. todo'[u][i].op = "unlock" /\ ~Intact(todo'[u], i)
  BY DEF Open
<1>3. ~Fresh(t, x, u, i)
  <2> SUFFICES ASSUME Fresh(t, x, u, i) PROVE FALSE
    OBVIOUS
  <2>1. u = t /\ i \in 1 .. n /\ todo'[u][i] = s[i]
    BY DEF Fresh
  <2> HIDE DEF s
  <2>2. i >= 4 /\ s[i - 3].op = "lock"
    BY <1>1, <1>2, <2>1 DEF Put, Intact
  <2> DEFINE k == i - 3
  <2>3. k \in 1 .. n
    BY <1>1, <2>1, <2>2
  <2>4. todo'[t][k].op = "lock"
    BY <1>1, <2>2, <2>3
  <2> QED
    BY <1>2, <2>1, <2>2, <2>4 DEF Intact
<1>4. PICK j \in 1 .. Len(todo[u]) : Rest(t, u, j) /\ i = Shift(t, n, u, j) /\ todo'[u][i] = todo[u][j]
  BY <1>1, <1>3
<1> HIDE DEF n, s
<1>5. ASSUME ~Open(todo[u], j) PROVE u = t /\ x.op = "lock" /\ j = 4
  <2>1. todo[u][j].op = "unlock" /\ Intact(todo[u], j)
    BY <1>2, <1>4, <1>5 DEF Open
  <2>2. j >= 4 /\ todo[u][j - 3].op = "lock"
    BY <2>1 DEF Intact
  <2> DEFINE k == j - 3
  <2>3. k \in 1 .. Len(todo[u]) /\ k \in Nat /\ j \in Nat
    BY <1>1, <2>2
  <2>4. ASSUME Rest(t, u, k) PROVE FALSE
    <3>1. todo'[u][Shift(t, n, u, k)].op = "lock" /\ Shift(t, n, u, k) \in 1 .. Len(todo'[u])
      BY <1>1, <2>2, <2>3, <2>4
    <3>2. Shift(t, n, u, k) = i - 3
      <4>1. k = j - 3
        OBVIOUS
      <4> HIDE DEF k
      <4> QED
        BY <1>1, <1>4, <2>3, <4>1 DEF Shift
    <3>3. i >= 4
      BY <1>1, <3>1, <3>2
    <3> QED
      BY <1>2, <3>1, <3>2, <3>3 DEF Intact
  <2>5. u = t /\ k = 1
    BY <2>3, <2>4 DEF Rest
  <2>6. j = 4
    BY <1>1, <2>5
  <2> QED
    BY <1>1, <2>2, <2>5, <2>6
<1> QED
  BY <1>4, <1>5 DEF n, s

LEMMA OpensStay ==
    ASSUME Typed, Shape, NEW t \in Thread, NEW x, Moved(t, x),
           NEW u \in Thread, NEW j \in 1 .. Len(todo[u]), Open(todo[u], j), Rest(t, u, j)
    PROVE  LET i == Shift(t, Len(After(x)), u, j)
           IN  i \in 1 .. Len(todo'[u]) /\ Open(todo'[u], i) /\ todo'[u][i] = todo[u][j]
<1> DEFINE s == After(x)
           n == Len(s)
           i == Shift(t, n, u, j)
<1>1. /\ Put(x, s) /\ x = todo[t][1] /\ n \in Nat /\ Len(todo'[u]) \in Nat /\ Len(todo[u]) \in Nat
      /\ i \in 1 .. Len(todo'[u]) /\ todo'[u][i] = todo[u][j]
      /\ \A k \in 1 .. Len(todo'[u]) :
            \/ Fresh(t, x, u, k)
            \/ \E l \in 1 .. Len(todo[u]) :
               /\ Rest(t, u, l) /\ k = Shift(t, n, u, l)
               /\ todo'[u][k] = todo[u][l]
  BY Moves DEF Typed
<1>2. todo[u][j].op = "unlock" /\ ~Intact(todo[u], j)
  BY DEF Open
<1>3. s \in Seq(Tasks) /\ Formed(s)
  BY <1>1 DEF Put
<1>4. ASSUME Intact(todo'[u], i) PROVE FALSE
  <2>1. i >= 4 /\ todo'[u][i - 3].op = "lock"
    BY <1>4 DEF Intact
  <2> DEFINE k == i - 3
  <2>2. k \in 1 .. Len(todo'[u])
    BY <1>1, <2>1
  <2>3. CASE Fresh(t, x, u, k)
    <3>1. u = t /\ k \in 1 .. n /\ s[k].op = "lock"
      BY <2>1, <2>3 DEF Fresh
    <3>2. k + 3 \in 1 .. n
      BY <1>3, <3>1, Section
    <3>3. i <= n /\ i = (j + n) - 1 /\ j # 1
      <4>1. i = (j + n) - 1 /\ j # 1
        BY <3>1 DEF Shift, Rest
      <4>2. i \in Int /\ k = i - 3
        BY <1>1
      <4> HIDE DEF k, i, n
      <4> QED
        BY <1>1, <3>2, <4>1, <4>2
    <3> HIDE DEF i, n
    <3> QED
      BY <1>1, <3>3
  <2>4. CASE \E l \in 1 .. Len(todo[u]) :
               Rest(t, u, l) /\ k = Shift(t, n, u, l) /\ todo'[u][k] = todo[u][l]
    <3>1. PICK l \in 1 .. Len(todo[u]) :
               Rest(t, u, l) /\ k = Shift(t, n, u, l) /\ todo'[u][k] = todo[u][l]
      BY <2>4
    <3>2. l = j - 3
      <4>1. Shift(t, n, u, l) = Shift(t, n, u, j) - 3 /\ l \in Nat /\ j \in Nat
        BY <3>1
      <4> HIDE DEF n
      <4> QED
        BY <1>1, <4>1 DEF Shift
    <3>3. j >= 4 /\ todo[u][j - 3].op = "lock"
      BY <2>1, <3>1, <3>2
    <3> QED
      BY <1>2, <3>3 DEF Intact
  <2> QED
    BY <1>1, <2>2, <2>3, <2>4
<1> QED
  BY <1>1, <1>2, <1>4 DEF Open

LEMMA OpensNew ==
    ASSUME Typed, Shape, NEW t \in Thread, NEW x, Moved(t, x), x.op = "lock"
    PROVE  /\ 3 \in 1 .. Len(todo'[t]) /\ Open(todo'[t], 3) /\ todo'[t][3].core = x.core
           /\ todo[t][4].core = x.core
<1>1. x = todo[t][1] /\ 1 \in 1 .. Len(todo[t]) /\ todo[t] \in Seq(Tasks) /\ Formed(todo[t])
  BY Moves DEF Typed, Shape
<1>2. 4 \in 1 .. Len(todo[t]) /\ todo[t][4].op = "unlock" /\ todo[t][4].core = x.core
  <2>1. 1 + 3 = 4
    OBVIOUS
  <2> QED
    BY <1>1, <2>1, Section
<1>3. Rest(t, t, 4) /\ Len(After(x)) = 0 /\ Shift(t, 0, t, 4) = 3
  BY <1>2, LockPuts DEF Rest, Shift
<1>4. 3 \in 1 .. Len(todo'[t]) /\ todo'[t][3] = todo[t][4]
  BY <1>2, <1>3, Moves
<1> QED
  BY <1>2, <1>4 DEF Open, Intact

-------------------------------------------------------------------------------
(* An unlock that is under way is of a mutex that its thread holds, and    *)
(* the only one of it; a mutex that is held will be released.              *)
Held ==
    \A u \in Thread : \A k \in 1 .. Len(todo[u]) : Open(todo[u], k) =>
        /\ mtx[todo[u][k].core] = u
        /\ \A j \in 1 .. Len(todo[u]) :
              Open(todo[u], j) /\ todo[u][j].core = todo[u][k].core => j = k

Holders ==
    \A c \in Core : mtx[c] # Null =>
        \E k \in 1 .. Len(todo[mtx[c]]) :
            Open(todo[mtx[c]], k) /\ todo[mtx[c]][k].core = c

LEMMA UnlockIsOpen ==
    ASSUME Held, NEW t \in Thread, NEW x, x = todo[t][1], 1 \in 1 .. Len(todo[t]), x.op = "unlock"
    PROVE  Open(todo[t], 1) /\ mtx[x.core] = t
<1>1. Open(todo[t], 1)
  BY DEF Open, Intact
<1> QED
  BY <1>1 DEF Held

LEMMA HeldStep ==
    ASSUME Typed, Shape, Held, NEW t \in Thread, NEW x, Moved(t, x)
    PROVE  Held'
<1> DEFINE n == Len(After(x))
<1>1. /\ x = todo[t][1] /\ 1 \in 1 .. Len(todo[t]) /\ Proper(x) /\ n \in Nat
      /\ todo' \in [Thread -> Seq(Tasks)] /\ (x.core \in Core \/ x.op = "done")
  BY Moves DEF Proper
<1>2. mtx \in [Core -> Thread \cup {Null}] /\ Null \notin Thread /\ Null \notin Core
  BY PromiseAssumption DEF Typed
<1>3. /\ mtx' = IF x.op = "lock" THEN [mtx EXCEPT ![x.core] = t]
              ELSE IF x.op = "unlock" THEN [mtx EXCEPT ![x.core] = Null] ELSE mtx
      /\ x.op = "lock" => mtx[x.core] = Null
  BY DEF Moved, Effect
<1>4. ASSUME NEW u \in Thread, NEW j \in 1 .. Len(todo[u]), Open(todo[u], j), Rest(t, u, j)
      PROVE  mtx'[todo[u][j].core] = u /\ (x.op = "lock" => todo[u][j].core # x.core)
  <2>1. mtx[todo[u][j].core] = u
    BY <1>4 DEF Held
  <2>2. Proper(todo[u][j]) /\ todo[u][j].op = "unlock"
    BY <1>4 DEF Shape, Formed, Open
  <2>3. todo[u][j].core \in Core
    BY <2>2 DEF Proper
  <2>4. CASE x.op = "lock"
    BY <1>2, <1>3, <2>1, <2>3, <2>4
  <2>5. CASE x.op = "unlock"
    <3>1. Open(todo[t], 1) /\ mtx[x.core] = t
      BY <1>1, <2>5, UnlockIsOpen
    <3>2. todo[u][j].core = x.core => u = t /\ j = 1
      BY <1>1, <1>4, <2>1, <3>1 DEF Held
    <3>3. todo[u][j].core # x.core
      BY <1>4, <3>2 DEF Rest
    <3> QED
      BY <1>2, <1>3, <2>1, <2>3, <2>5, <3>3
  <2>6. CASE x.op # "lock" /\ x.op # "unlock"
    BY <1>3, <2>1, <2>6
  <2> QED
    BY <2>4, <2>5, <2>6
<1>5. x.op = "lock" => todo[t][4].core = x.core /\ mtx'[x.core] = t
  <2> SUFFICES ASSUME x.op = "lock" PROVE todo[t][4].core = x.core /\ mtx'[x.core] = t
    OBVIOUS
  <2>1. todo[t][4].core = x.core
    BY OpensNew
  <2>2. x.core \in Core
    BY <1>1
  <2> QED
    BY <1>2, <1>3, <2>1, <2>2
<1> SUFFICES ASSUME NEW u \in Thread, NEW k \in 1 .. Len(todo'[u]), Open(todo'[u], k)
             PROVE  /\ mtx'[todo'[u][k].core] = u
                    /\ \A i \in 1 .. Len(todo'[u]) :
                          Open(todo'[u], i) /\ todo'[u][i].core = todo'[u][k].core => i = k
  BY DEF Held
<1>6. PICK j \in 1 .. Len(todo[u]) :
         /\ Rest(t, u, j) /\ k = Shift(t, n, u, j) /\ todo'[u][k] = todo[u][j]
         /\ Open(todo[u], j) \/ (u = t /\ x.op = "lock" /\ j = 4)
  BY OpensOld
<1>7. mtx'[todo'[u][k].core] = u
  BY <1>4, <1>5, <1>6
<1>8. ASSUME NEW i \in 1 .. Len(todo'[u]), Open(todo'[u], i), todo'[u][i].core = todo'[u][k].core
      PROVE  i = k
  <2>1. PICK l \in 1 .. Len(todo[u]) :
         /\ Rest(t, u, l) /\ i = Shift(t, n, u, l) /\ todo'[u][i] = todo[u][l]
         /\ Open(todo[u], l) \/ (u = t /\ x.op = "lock" /\ l = 4)
    BY <1>8, OpensOld
  <2>2. todo[u][l].core = todo[u][j].core
    BY <1>6, <1>8, <2>1
  <2>3. CASE Open(todo[u], j) /\ Open(todo[u], l)
    BY <1>6, <2>1, <2>2, <2>3 DEF Held
  <2>4. CASE ~Open(todo[u], j)
    BY <1>4, <1>5, <1>6, <2>1, <2>2, <2>4
  <2>5. CASE ~Open(todo[u], l)
    BY <1>4, <1>5, <1>6, <2>1, <2>2, <2>5
  <2> QED
    BY <2>3, <2>4, <2>5
<1> QED
  BY <1>7, <1>8

LEMMA HoldersStep ==
    ASSUME Typed, Shape, Held, Holders, NEW t \in Thread, NEW x, Moved(t, x)
    PROVE  Holders'
<1> DEFINE n == Len(After(x))
<1>1. /\ x = todo[t][1] /\ 1 \in 1 .. Len(todo[t]) /\ Proper(x) /\ n \in Nat
  BY Moves
<1>2. mtx \in [Core -> Thread \cup {Null}] /\ Null \notin Thread
  BY PromiseAssumption DEF Typed
<1>3. /\ mtx' = IF x.op = "lock" THEN [mtx EXCEPT ![x.core] = t]
              ELSE IF x.op = "unlock" THEN [mtx EXCEPT ![x.core] = Null] ELSE mtx
      /\ x.op = "lock" => mtx[x.core] = Null
  BY DEF Moved, Effect
<1> SUFFICES ASSUME NEW c \in Core, mtx'[c] # Null
             PROVE  \E k \in 1 .. Len(todo'[mtx'[c]]) :
                       Open(todo'[mtx'[c]], k) /\ todo'[mtx'[c]][k].core = c
  BY DEF Holders
<1>4. CASE x.op = "lock" /\ c = x.core
  <2>1. mtx'[c] = t
    BY <1>2, <1>3, <1>4
  <2> QED
    BY <1>4, <2>1, OpensNew
<1>5. CASE ~(x.op = "lock" /\ c = x.core)
  <2>1. mtx'[c] = mtx[c] /\ mtx[c] # Null /\ mtx[c] \in Thread /\ ~(x.op = "unlock" /\ c = x.core)
    BY <1>2, <1>3, <1>5
  <2>2. PICK k \in 1 .. Len(todo[mtx[c]]) : Open(todo[mtx[c]], k) /\ todo[mtx[c]][k].core = c
    BY <2>1 DEF Holders
  <2>3. Rest(t, mtx[c], k)
    BY <1>1, <2>1, <2>2 DEF Rest, Open
  <2> DEFINE i == Shift(t, n, mtx[c], k)
  <2>4. i \in 1 .. Len(todo'[mtx[c]]) /\ Open(todo'[mtx[c]], i) /\ todo'[mtx[c]][i] = todo[mtx[c]][k]
    BY <2>1, <2>2, <2>3, OpensStay
  <2> QED
    BY <2>1, <2>2, <2>4
<1> QED
  BY <1>4, <1>5

-------------------------------------------------------------------------------
LEMMA CountersStep ==
    ASSUME Typed, Shape, NEW t \in Thread, Step(t)
    PROVE  /\ resolves' \in [Request -> Nat] /\ rejects' \in [Request -> Nat]
           /\ over' \in [Core -> BOOLEAN] /\ crashed' \in BOOLEAN
<1> USE DEF Typed
<1>1. CASE Check(t) \/ Call(t)
  BY <1>1 DEF Check, Call, Throws, Go
<1>2. CASE Lock(t) \/ Unlock(t) \/ Settle(t) \/ Run(t) \/ Attach(t) \/ AppendRequest(t)
  BY <1>2 DEF Lock, Unlock, Settle, Run, Attach, AppendRequest
<1>3. CASE Done(t)
  BY <1>3 DEF Done
<1>4. CASE Arrive(t) \/ Count(t) \/ Complete(t) \/ Refuse(t)
  BY <1>4 DEF Arrive, Count, Complete, Refuse
<1>5. CASE Flag(t)
  BY <1>5 DEF Flag
<1> QED
  BY <1>1, <1>2, <1>3, <1>4, <1>5 DEF Step

LEMMA TypedStep ==
    ASSUME Typed, Shape, NEW t \in Thread, Step(t)
    PROVE  Typed'
<1> DEFINE x == Head(todo[t])
<1>1. CASE crashed' = TRUE /\ UNCHANGED <<state, requests, mtx, arrived, todo, calls>>
  BY <1>1, CountersStep DEF Typed
<1>2. CASE Moved(t, x)
  <2>1. Proper(x) /\ todo' \in [Thread -> Seq(Tasks)]
    BY <1>2, Moves
  <2> HIDE DEF x
  <2>2. state' \in [Core -> {Pending, Fulfilled, Rejected}]
    BY <1>2, <2>1 DEF Moved, Effect, Typed, Proper, Ends
  <2>3. requests' \in [Core -> Seq(Request)]
    <3>1. CASE x.op = "append"
      <4>1. x.core \in Core /\ x.req \in Request
        BY <2>1, <3>1 DEF Proper
      <4>2. Append(requests[x.core], x.req) \in Seq(Request)
        BY <4>1 DEF Typed
      <4>3. requests' = [requests EXCEPT ![x.core] = Append(@, x.req)] /\ requests \in [Core -> Seq(Request)]
        BY <1>2, <3>1 DEF Moved, Effect, Typed
      <4> QED
        BY <4>1, <4>2, <4>3
    <3>2. CASE x.op # "append"
      BY <1>2, <3>2 DEF Moved, Effect, Typed
    <3> QED
      BY <3>1, <3>2
  <2>4. mtx' \in [Core -> Thread \cup {Null}]
    BY <1>2 DEF Moved, Effect, Typed
  <2>5. arrived' \in [Core -> Nat]
    <3>1. arrived \in [Core -> Nat] /\ \A k \in Nat : k + 1 \in Nat
      BY DEF Typed
    <3>2. arrived' = IF x.op = "count" THEN [arrived EXCEPT ![x.core] = @ + 1] ELSE arrived
      BY <1>2 DEF Moved, Effect
    <3> QED
      BY <3>1, <3>2
  <2>6. calls' \in [Request -> Nat]
    <3>1. calls \in [Request -> Nat] /\ \A k \in Nat : k + 1 \in Nat
      BY DEF Typed
    <3>2. calls' = IF x.op = "call" THEN [calls EXCEPT ![x.req] = @ + 1] ELSE calls
      BY <1>2 DEF Moved, Effect
    <3> QED
      BY <3>1, <3>2
  <2> QED
    BY <2>1, <2>2, <2>3, <2>4, <2>5, <2>6, CountersStep DEF Typed
<1> QED
  BY <1>1, <1>2, StepIs

-------------------------------------------------------------------------------
ScriptOps == {"check", "lock", "settle", "run", "unlock", "attach", "append"}

(* The tasks of a whole call.                                              *)
Call_Is(b) ==
    /\ b \in Seq(Tasks) /\ Formed(b) /\ Len(b) \in Nat /\ Len(b) >= 1
    /\ b[Len(b)].op = "unlock"
    /\ b[1].op = "check" \/ (b[1].op = "lock" /\ b[1].req # Null)
    /\ \A k \in 1 .. Len(b) :
          /\ b[k].op \in ScriptOps
          /\ b[k].op \in {"settle", "run"} => b[k].core \in Own
          /\ b[k].op = "unlock" => Intact(b, k)

LEMMA ThenIs ==
    ASSUME NEW c \in Core, NEW r \in Request, c = promiseOf[r]
    PROVE  Call_Is(Then(c, r))
<1> DEFINE b == Then(c, r)
<1>1. /\ b \in Seq(Tasks) /\ Len(b) = 4 /\ Formed(b)
      /\ b[1] = Task("lock", c, r, Null) /\ b[2] = Task("attach", c, r, Null)
      /\ b[3] = Task("append", c, r, Null) /\ b[4] = Task("unlock", c, r, Null)
  BY ThenFormed
<1> HIDE DEF b
<1>2. b[1].op = "lock" /\ b[1].req = r /\ b[2].op = "attach" /\ b[3].op = "append" /\ b[4].op = "unlock"
  BY <1>1, TaskIn
<1>3. r # Null
  BY PromiseAssumption
<1>4. (\A k \in 1 .. 4 : k = 1 \/ k = 2 \/ k = 3 \/ k = 4) /\ 4 - 3 = 1
  OBVIOUS
<1>5. Call_Is(b)
  BY <1>1, <1>2, <1>3, <1>4 DEF Call_Is, Intact, ScriptOps
<1> QED
  BY <1>5 DEF b

LEMMA SettledIs ==
    ASSUME NEW c \in Own, NEW e \in Ends
    PROVE  Call_Is(Settled(c, e))
<1> DEFINE b == Settled(c, e)
<1>1. /\ b \in Seq(Tasks) /\ Len(b) = 5 /\ Formed(b)
      /\ b[1] = Task("check", c, Null, e) /\ b[2] = Task("lock", c, Null, e)
      /\ b[3] = Task("settle", c, Null, e) /\ b[4] = Task("run", c, Null, e)
      /\ b[5] = Task("unlock", c, Null, e)
  BY SettledFormed
<1> HIDE DEF b
<1>2. /\ b[1].op = "check" /\ b[2].op = "lock" /\ b[3].op = "settle" /\ b[4].op = "run" /\ b[5].op = "unlock"
      /\ b[3].core = c /\ b[4].core = c
  BY <1>1, TaskIn
<1>4. (\A k \in 1 .. 5 : k = 1 \/ k = 2 \/ k = 3 \/ k = 4 \/ k = 5) /\ 5 - 3 = 2
  OBVIOUS
<1>5. Call_Is(b)
  BY <1>1, <1>2, <1>4 DEF Call_Is, Intact, ScriptOps
<1> QED
  BY <1>5 DEF b

LEMMA InACall ==
    ASSUME NEW script \in Scripts, NEW t \in Thread, NEW i \in 1 .. Len(script[t])
    PROVE  \E b : \E j \in 1 .. i :
              /\ Call_Is(b) /\ i < j + Len(b) /\ j + Len(b) <= Len(script[t]) + 1
              /\ \A k \in 1 .. Len(b) : script[t][(j + k) - 1] = b[k]
<1> DEFINE s == script[t]
<1>1. s \in Seq(Tasks) /\ Whole(s) /\ DOMAIN s = 1 .. Len(s) /\ Len(s) \in Nat
  <2>1. s \in Seq(Tasks) /\ Whole(s)
    BY UseAssumption DEF ScriptsAreRight
  <2> HIDE DEF s
  <2> QED
    BY <2>1
<1>2. PICK b \in Blocks, j \in 1 .. i :
        /\ i < j + Len(b) /\ j + Len(b) <= Len(s) + 1
        /\ \A k \in DOMAIN b : s[j + k - 1] = b[k]
  BY <1>1 DEF Whole
<1>3. CASE \E c \in Core, r \in Request : b = Then(c, r)
  <2>1. PICK c \in Core, r \in Request : b = Then(c, r)
    BY <1>3
  <2>2. /\ b[2] = Task("attach", c, r, Null) /\ Len(b) = 4 /\ DOMAIN b = 1 .. 4
    BY <2>1 DEF Then
  <2>3. j + 1 \in 1 .. Len(s) /\ s[j + 1] = b[2]
    <3>1. 2 \in DOMAIN b /\ j + 2 - 1 = j + 1
      BY <1>1, <2>2
    <3>2. j + 4 <= Len(s) + 1 /\ j \in Nat /\ j >= 1
      BY <1>2, <2>2
    <3> HIDE DEF s
    <3> QED
      BY <1>1, <1>2, <3>1, <3>2
  <2>4. AttachedBy(t, s[j + 1])
    <3>1. s[j + 1].op = "attach"
      BY <2>2, <2>3, TaskIn
    <3> QED
      BY <1>1, <2>3, <3>1, UseAssumption DEF ScriptsAreRight
  <2>5. promiseOf[r] = c
    BY <2>2, <2>3, <2>4, TaskIn DEF AttachedBy
  <2>6. Call_Is(b)
    BY <2>1, <2>5, ThenIs
  <2>7. \A k \in 1 .. Len(b) : s[(j + k) - 1] = b[k]
    BY <1>2, <2>2
  <2>8. i < j + Len(b) /\ j + Len(b) <= Len(s) + 1
    BY <1>2
  <2> HIDE DEF s
  <2>9. \E d : \E l \in 1 .. i :
              /\ Call_Is(d) /\ i < l + Len(d) /\ l + Len(d) <= Len(s) + 1
              /\ \A k \in 1 .. Len(d) : s[(l + k) - 1] = d[k]
    BY <2>6, <2>7, <2>8
  <2> QED
    BY <2>9 DEF s
<1>4. CASE \E c \in Own, e \in Ends : b = Settled(c, e)
  <2>1. Call_Is(b)
    BY <1>4, SettledIs
  <2>2. DOMAIN b = 1 .. Len(b)
    BY <2>1 DEF Call_Is
  <2>7. \A k \in 1 .. Len(b) : s[(j + k) - 1] = b[k]
    BY <1>2, <2>2
  <2>8. i < j + Len(b) /\ j + Len(b) <= Len(s) + 1
    BY <1>2
  <2> HIDE DEF s
  <2>9. \E d : \E l \in 1 .. i :
              /\ Call_Is(d) /\ i < l + Len(d) /\ l + Len(d) <= Len(s) + 1
              /\ \A k \in 1 .. Len(d) : s[(l + k) - 1] = d[k]
    BY <2>1, <2>7, <2>8
  <2> QED
    BY <2>9 DEF s
<1> QED
  BY <1>2, <1>3, <1>4 DEF Blocks, Ends

LEMMA ScriptIs ==
    ASSUME NEW script \in Scripts, NEW t \in Thread
    PROVE  LET s == script[t]
           IN  /\ s \in Seq(Tasks) /\ Formed(s)
               /\ s # <<>> => s[1].op = "check" \/ (s[1].op = "lock" /\ s[1].req # Null)
               /\ \A k \in 1 .. Len(s) :
                     /\ s[k].op \in ScriptOps
                     /\ s[k].op \in {"settle", "run"} => s[k].core \in Own
                     /\ ~Open(s, k)
<1> DEFINE s == script[t]
<1>1. s \in Seq(Tasks) /\ Len(s) \in Nat
  <2>1. s \in Seq(Tasks)
    BY UseAssumption
  <2> HIDE DEF s
  <2> QED
    BY <2>1
<1>2. ASSUME NEW i \in 1 .. Len(s)
      PROVE  \E b : \E j \in 1 .. i :
                /\ Call_Is(b) /\ i < j + Len(b) /\ j + Len(b) <= Len(s) + 1
                /\ \A k \in 1 .. Len(b) : s[(j + k) - 1] = b[k]
  BY InACall
<1> HIDE DEF s
(* A position in a block.                                                  *)
<1>3. ASSUME NEW i \in 1 .. Len(s), NEW j \in 1 .. i, NEW b, Call_Is(b),
             i < j + Len(b), j + Len(b) <= Len(s) + 1,
             \A k \in 1 .. Len(b) : s[(j + k) - 1] = b[k]
      PROVE  \E k \in 1 .. Len(b) : k = (i - j) + 1 /\ s[i] = b[k]
  <2> DEFINE k == (i - j) + 1
  <2>1. k \in 1 .. Len(b) /\ (j + k) - 1 = i
    BY <1>1, <1>3 DEF Call_Is
  <2> QED
    BY <1>3, <2>1
<1>4. ASSUME NEW i \in 1 .. Len(s)
      PROVE  /\ Proper(s[i]) /\ s[i].op \in ScriptOps
             /\ s[i].op \in {"settle", "run"} => s[i].core \in Own
             /\ ~Open(s, i)
             /\ i = 1 => s[1].op = "check" \/ (s[1].op = "lock" /\ s[1].req # Null)
  <2>1. PICK b : \E j \in 1 .. i :
           /\ Call_Is(b) /\ i < j + Len(b) /\ j + Len(b) <= Len(s) + 1
           /\ \A k \in 1 .. Len(b) : s[(j + k) - 1] = b[k]
    BY <1>2
  <2>2. PICK j \in 1 .. i :
           /\ Call_Is(b) /\ i < j + Len(b) /\ j + Len(b) <= Len(s) + 1
           /\ \A k \in 1 .. Len(b) : s[(j + k) - 1] = b[k]
    BY <2>1
  <2>3. PICK k \in 1 .. Len(b) : k = (i - j) + 1 /\ s[i] = b[k]
    BY <1>3, <2>2
  <2>4. /\ Proper(b[k]) /\ b[k].op \in ScriptOps
        /\ b[k].op \in {"settle", "run"} => b[k].core \in Own
        /\ b[k].op = "unlock" => Intact(b, k)
    BY <2>2 DEF Call_Is, Formed
  <2>5. ASSUME s[i].op = "unlock" PROVE Intact(s, i)
    <3>1. k >= 4 /\ b[k - 3].op = "lock"
      BY <2>3, <2>4, <2>5 DEF Intact
    <3> DEFINE m == k - 3
    <3>2. m \in 1 .. Len(b) /\ (j + m) - 1 = i - 3 /\ i >= 4
      BY <1>1, <2>2, <2>3, <3>1 DEF Call_Is
    <3> HIDE DEF m
    <3>3. s[i - 3] = b[m]
      BY <2>2, <3>2
    <3> QED
      BY <3>1, <3>2, <3>3 DEF Intact, m
  <2>6. i = 1 => k = 1
    BY <1>1, <2>2, <2>3
  <2> QED
    BY <2>2, <2>3, <2>4, <2>5, <2>6 DEF Open, Call_Is
<1>5. ASSUME NEW i \in 1 .. Len(s) - 1
      PROVE  Follows(s[i], s[i + 1])
  <2>0. i \in 1 .. Len(s) /\ i + 1 \in 1 .. Len(s)
    BY <1>1
  <2>1. PICK b : \E j \in 1 .. i + 1 :
           /\ Call_Is(b) /\ i + 1 < j + Len(b) /\ j + Len(b) <= Len(s) + 1
           /\ \A k \in 1 .. Len(b) : s[(j + k) - 1] = b[k]
    BY <1>2, <2>0
  <2>2. PICK j \in 1 .. i + 1 :
           /\ Call_Is(b) /\ i + 1 < j + Len(b) /\ j + Len(b) <= Len(s) + 1
           /\ \A k \in 1 .. Len(b) : s[(j + k) - 1] = b[k]
    BY <2>1
  <2>3. Len(b) \in Nat /\ j \in Nat /\ i \in Nat
    BY <2>0, <2>2 DEF Call_Is
  <2>4. CASE j # i + 1
    <3> DEFINE m == (i - j) + 1
    <3>0. j <= i /\ i + 1 < j + Len(b)
      BY <2>2, <2>3, <2>4
    <3>1. m \in 1 .. Len(b) - 1 /\ m \in 1 .. Len(b) /\ m + 1 \in 1 .. Len(b)
          /\ (j + m) - 1 = i /\ (j + (m + 1)) - 1 = i + 1
      <4> DEFINE l == Len(b)
      <4>1. l \in Nat
        BY <2>3
      <4>2. i + 1 < j + l
        BY <3>0
      <4> HIDE DEF l
      <4>3. m \in 1 .. l - 1 /\ m \in 1 .. l /\ m + 1 \in 1 .. l
          /\ (j + m) - 1 = i /\ (j + (m + 1)) - 1 = i + 1
        BY <2>3, <3>0, <4>1, <4>2
      <4> QED
        BY <4>3 DEF l
    <3> HIDE DEF m
    <3>2. s[i] = b[m] /\ s[i + 1] = b[m + 1]
      BY <2>2, <3>1
    <3> QED
      BY <2>2, <3>1, <3>2 DEF Call_Is, Formed
  <2>5. CASE j = i + 1
    <3>1. s[i + 1] = b[1]
      <4>1. 1 \in 1 .. Len(b) /\ (j + 1) - 1 = i + 1
        BY <2>2, <2>3, <2>5 DEF Call_Is
      <4> QED
        BY <2>2, <4>1
    <3>2. s[i + 1].op = "check" \/ (s[i + 1].op = "lock" /\ s[i + 1].req # Null)
      BY <2>2, <3>1 DEF Call_Is
    <3>3. PICK d : \E h \in 1 .. i :
           /\ Call_Is(d) /\ i < h + Len(d) /\ h + Len(d) <= Len(s) + 1
           /\ \A k \in 1 .. Len(d) : s[(h + k) - 1] = d[k]
      BY <1>2, <2>0
    <3>4. PICK h \in 1 .. i :
           /\ Call_Is(d) /\ i < h + Len(d) /\ h + Len(d) <= Len(s) + 1
           /\ \A k \in 1 .. Len(d) : s[(h + k) - 1] = d[k]
      BY <3>3
    <3>5. Len(d) \in Nat /\ h \in Nat
      BY <3>4 DEF Call_Is
    <3> DEFINE m == (i - h) + 1
    <3>6. m \in 1 .. Len(d) /\ (h + m) - 1 = i
      BY <2>3, <3>4, <3>5
    <3>7. CASE m = Len(d)
      <4>1. s[i] = d[Len(d)]
        BY <3>4, <3>6, <3>7
      <4>2. s[i].op = "unlock"
        BY <3>4, <4>1 DEF Call_Is
      <4> QED
        BY <3>2, <4>2 DEF Follows
    <3>8. CASE m # Len(d)
      <4>1. m \in 1 .. Len(d) - 1 /\ m + 1 \in 1 .. Len(d) /\ (h + (m + 1)) - 1 = i + 1
        BY <2>3, <3>5, <3>6, <3>8
      <4> HIDE DEF m
      <4>2. s[i] = d[m] /\ s[i + 1] = d[m + 1]
        BY <3>4, <3>6, <4>1
      <4> QED
        BY <3>4, <4>1, <4>2 DEF Call_Is, Formed
    <3> QED
      BY <3>7, <3>8
  <2> QED
    BY <2>4, <2>5
<1>6. ASSUME s # <<>> PROVE ~Continues(s[Len(s)]) /\ 1 \in 1 .. Len(s)
  <2>0. Len(s) \in 1 .. Len(s) /\ 1 \in 1 .. Len(s)
    BY <1>1, <1>6
  <2>1. PICK b : \E j \in 1 .. Len(s) :
           /\ Call_Is(b) /\ Len(s) < j + Len(b) /\ j + Len(b) <= Len(s) + 1
           /\ \A k \in 1 .. Len(b) : s[(j + k) - 1] = b[k]
    BY <1>2, <2>0
  <2>2. PICK j \in 1 .. Len(s) :
           /\ Call_Is(b) /\ Len(s) < j + Len(b) /\ j + Len(b) <= Len(s) + 1
           /\ \A k \in 1 .. Len(b) : s[(j + k) - 1] = b[k]
    BY <2>1
  <2>3. Len(b) \in 1 .. Len(b) /\ (j + Len(b)) - 1 = Len(s)
    BY <1>1, <2>2 DEF Call_Is
  <2>4. s[Len(s)] = b[Len(b)]
    BY <2>2, <2>3
  <2> QED
    BY <2>0, <2>2, <2>4 DEF Call_Is, Continues
<1>7. Formed(s)
  BY <1>4, <1>5, <1>6 DEF Formed
<1> QED
  BY <1>1, <1>4, <1>6, <1>7 DEF s

-------------------------------------------------------------------------------
LEMMA TypedInit == Init => Typed /\ Shape /\ Held /\ Holders
<1> SUFFICES ASSUME Init PROVE Typed /\ Shape /\ Held /\ Holders
  OBVIOUS
<1>1. todo \in Scripts /\ todo \in [Thread -> Seq(Tasks)]
  BY UseAssumption DEF Init
<1>2. Typed
  <2>1. <<>> \in Seq(Request) /\ 0 \in Nat
    OBVIOUS
  <2> QED
    BY <1>1, <2>1 DEF Init, Typed
<1>3. Shape /\ Held
  BY <1>1, ScriptIs DEF Shape, Held
<1>4. Holders
  BY DEF Init, Holders
<1> QED
  BY <1>2, <1>3, <1>4

Safe == Typed /\ Shape /\ Held /\ Holders

LEMMA Stutters ==
    ASSUME NEW t \in Thread, Step(t), ~Moved(t, Head(todo[t]))
    PROVE  crashed' = TRUE /\ UNCHANGED <<state, requests, mtx, arrived, todo, calls>>
  BY StepIs

LEMMA SafeStep == Safe /\ [Next]_vars => Safe'
<1> SUFFICES ASSUME Safe, [Next]_vars PROVE Safe'
  OBVIOUS
<1>1. ASSUME NEW t \in Thread, Step(t) PROVE Safe'
  <2>1. Typed'
    BY <1>1, TypedStep DEF Safe
  <2>2. CASE Moved(t, Head(todo[t]))
    BY <2>1, <2>2, ShapeStep, HeldStep, HoldersStep DEF Safe
  <2>3. CASE ~Moved(t, Head(todo[t]))
    <3>1. UNCHANGED <<state, requests, mtx, arrived, todo, calls>>
      BY <1>1, <2>3, Stutters
    <3> QED
      BY <2>1, <3>1 DEF Safe, Shape, Held, Holders
  <2> QED
    BY <2>2, <2>3
<1>2. CASE UNCHANGED vars
  BY <1>2 DEF Safe, Typed, Shape, Held, Holders, vars
<1> QED
  BY <1>1, <1>2 DEF Next, Stop

LEMMA SafeAlways == Spec => []Safe
<1>1. Init => Safe
  BY TypedInit DEF Safe
<1> QED
  BY <1>1, SafeStep, PTL DEF Spec

(* The variables have their types, and the mutex of a core is held by the  *)
(* thread that will release it: a return that leaves it locked would stop  *)
(* every later then() (the lock_guard of Resolver, Rejection and then()).  *)
THEOREM TypeCorrect == Spec => []TypeOK
<1>1. Safe => TypeOK
  <2> SUFFICES ASSUME Safe PROVE TypeOK
    OBVIOUS
  <2>1. ASSUME NEW c \in Core, mtx[c] # Null
        PROVE  \E i \in DOMAIN todo[mtx[c]] : todo[mtx[c]][i].op = "unlock" /\ todo[mtx[c]][i].core = c
    <3>1. mtx[c] \in Thread /\ todo[mtx[c]] \in Seq(Tasks)
      BY <2>1 DEF Safe, Typed
    <3>2. PICK k \in 1 .. Len(todo[mtx[c]]) :
            Open(todo[mtx[c]], k) /\ todo[mtx[c]][k].core = c
      BY <2>1 DEF Safe, Holders
    <3> QED
      BY <3>1, <3>2 DEF Open
  <2> QED
    BY <2>1 DEF Safe, Typed, TypeOK
<1> QED
  BY <1>1, SafeAlways, PTL

-------------------------------------------------------------------------------
(* Tasks that wait.                                                        *)
Waits(u, S) == \E i \in 1 .. Len(todo[u]) : todo[u][i] \in S

Somewhere(S) == \E u \in Thread : Waits(u, S)

Once(S) ==
    \A u, v \in Thread : \A i \in 1 .. Len(todo[u]), j \in 1 .. Len(todo[v]) :
        todo[u][i] \in S /\ todo[v][j] \in S => u = v /\ i = j

Puts(x, S) == \E k \in 1 .. Len(After(x)) : After(x)[k] \in S

LEMMA Comes ==
    ASSUME Typed, Shape, NEW t \in Thread, NEW x, Moved(t, x), NEW S,
           NEW u \in Thread, Waits(u, S)'
    PROVE  Waits(u, S) \/ (u = t /\ Puts(x, S))
<1>1. PICK i \in 1 .. Len(todo'[u]) : todo'[u][i] \in S
  BY DEF Waits
<1>2. \/ Fresh(t, x, u, i)
      \/ \E j \in 1 .. Len(todo[u]) : todo'[u][i] = todo[u][j]
  BY Moves
<1>3. CASE Fresh(t, x, u, i)
  BY <1>1, <1>3 DEF Fresh, Puts
<1> QED
  BY <1>1, <1>2, <1>3 DEF Waits

LEMMA Goes ==
    ASSUME Typed, Shape, NEW t \in Thread, NEW x, Moved(t, x), NEW S,
           NEW u \in Thread, Waits(u, S)
    PROVE  Waits(u, S)' \/ (u = t /\ x \in S)
<1>1. PICK j \in 1 .. Len(todo[u]) : todo[u][j] \in S
  BY DEF Waits
<1>2. CASE Rest(t, u, j)
  <2>1. /\ Shift(t, Len(After(x)), u, j) \in 1 .. Len(todo'[u])
        /\ todo'[u][Shift(t, Len(After(x)), u, j)] = todo[u][j]
    BY <1>2, Moves
  <2> QED
    BY <1>1, <2>1 DEF Waits
<1>3. CASE ~Rest(t, u, j)
  BY <1>1, <1>3, Moves DEF Rest
<1> QED
  BY <1>2, <1>3

LEMMA IsPut ==
    ASSUME Typed, Shape, NEW t \in Thread, NEW x, Moved(t, x), NEW S, Puts(x, S)
    PROVE  Waits(t, S)'
  BY Moves DEF Puts, Waits

LEMMA First ==
    ASSUME Typed, Shape, NEW t \in Thread, NEW x, Moved(t, x), NEW S, x \in S
    PROVE  Waits(t, S)
  BY Moves DEF Waits

(* A set of tasks of which at most one waits.                              *)
LEMMA OnceStays ==
    ASSUME Typed, Shape, NEW t \in Thread, NEW x, Moved(t, x), NEW S, Once(S),
           \A k, m \in 1 .. Len(After(x)) : After(x)[k] \in S /\ After(x)[m] \in S => k = m,
           x \in S \/ ~Somewhere(S) \/ ~Puts(x, S)
    PROVE  Once(S)'
<1> DEFINE n == Len(After(x))
<1> SUFFICES ASSUME NEW u \in Thread, NEW v \in Thread,
                    NEW i \in 1 .. Len(todo'[u]), NEW j \in 1 .. Len(todo'[v]),
                    todo'[u][i] \in S, todo'[v][j] \in S
             PROVE  u = v /\ i = j
  BY DEF Once
<1>1. /\ x = todo[t][1] /\ 1 \in 1 .. Len(todo[t]) /\ n \in Nat
      /\ \/ Fresh(t, x, u, i)
         \/ \E k \in 1 .. Len(todo[u]) : Rest(t, u, k) /\ i = Shift(t, n, u, k) /\ todo'[u][i] = todo[u][k]
      /\ \/ Fresh(t, x, v, j)
         \/ \E k \in 1 .. Len(todo[v]) : Rest(t, v, k) /\ j = Shift(t, n, v, k) /\ todo'[v][j] = todo[v][k]
  BY Moves
(* One that waited already and one that is put.                            *)
<1>2. ASSUME NEW w \in Thread, NEW k \in 1 .. Len(todo[w]), Rest(t, w, k), todo[w][k] \in S
      PROVE  ~Puts(x, S)
  <2>1. Somewhere(S)
    BY <1>2 DEF Somewhere, Waits
  <2>2. x \notin S
    BY <1>1, <1>2 DEF Once, Rest
  <2> QED
    BY <2>1, <2>2
<1> HIDE DEF n
<1>3. CASE Fresh(t, x, u, i) /\ Fresh(t, x, v, j)
  BY <1>3 DEF Fresh
<1>4. CASE Fresh(t, x, u, i) /\ ~Fresh(t, x, v, j)
  BY <1>1, <1>2, <1>4 DEF Fresh, Puts
<1>5. CASE ~Fresh(t, x, u, i) /\ Fresh(t, x, v, j)
  BY <1>1, <1>2, <1>5 DEF Fresh, Puts
<1>6. CASE ~Fresh(t, x, u, i) /\ ~Fresh(t, x, v, j)
  <2>1. PICK k \in 1 .. Len(todo[u]) : Rest(t, u, k) /\ i = Shift(t, n, u, k) /\ todo'[u][i] = todo[u][k]
    BY <1>1, <1>6
  <2>2. PICK m \in 1 .. Len(todo[v]) : Rest(t, v, m) /\ j = Shift(t, n, v, m) /\ todo'[v][j] = todo[v][m]
    BY <1>1, <1>6
  <2>3. u = v /\ k = m
    BY <2>1, <2>2 DEF Once
  <2> QED
    BY <2>1, <2>2, <2>3
<1> QED
  BY <1>3, <1>4, <1>5, <1>6

LEMMA OnceGone ==
    ASSUME Typed, Shape, NEW t \in Thread, NEW x, Moved(t, x), NEW S, Once(S), x \in S
    PROVE  /\ \A u \in Thread : \A k \in 1 .. Len(todo[u]) : todo[u][k] \in S => u = t /\ k = 1
           /\ ~Puts(x, S) => ~Somewhere(S)'
<1>1. x = todo[t][1] /\ 1 \in 1 .. Len(todo[t])
  BY Moves
<1>2. \A u \in Thread : \A k \in 1 .. Len(todo[u]) : todo[u][k] \in S => u = t /\ k = 1
  BY <1>1 DEF Once
<1>3. ASSUME ~Puts(x, S), Somewhere(S)' PROVE FALSE
  <2>1. PICK u \in Thread : Waits(u, S)'
    BY <1>3 DEF Somewhere
  <2>2. PICK i \in 1 .. Len(todo'[u]) : todo'[u][i] \in S
    BY <2>1 DEF Waits
  <2>3. ~Fresh(t, x, u, i)
    BY <1>3, <2>2 DEF Fresh, Puts
  <2>4. \E j \in 1 .. Len(todo[u]) : Rest(t, u, j) /\ todo'[u][i] = todo[u][j]
    BY <2>3, Moves
  <2> QED
    BY <1>2, <2>2, <2>4 DEF Rest
<1> QED
  BY <1>2, <1>3

LEMMA SomewhereGoes ==
    ASSUME Typed, Shape, NEW t \in Thread, NEW x, Moved(t, x), NEW S
    PROVE  /\ Somewhere(S) /\ x \notin S => Somewhere(S)'
           /\ Somewhere(S)' => Somewhere(S) \/ Puts(x, S)
           /\ Puts(x, S) => Somewhere(S)'
           /\ x \in S => Somewhere(S)
  BY Goes, Comes, IsPut, First DEF Somewhere

-------------------------------------------------------------------------------
(* The first task, and those that follow it.                               *)
LEMMA HeadFollows ==
    ASSUME Typed, Shape, NEW u \in Thread, 1 \in 1 .. Len(todo[u]), Continues(todo[u][1])
    PROVE  2 \in 1 .. Len(todo[u]) /\ Follows(todo[u][1], todo[u][2])
<1> DEFINE s == todo[u]
<1>1. s \in Seq(Tasks) /\ Formed(s) /\ 1 \in 1 .. Len(s) /\ Continues(s[1])
  BY DEF Typed, Shape
<1> HIDE DEF s
<1>2. Len(s) \in Nat /\ Len(s) >= 1 /\ s # <<>>
  BY <1>1
<1>3. Len(s) # 1
  BY <1>1, <1>2 DEF Formed
<1>4. 1 \in 1 .. Len(s) - 1 /\ 2 \in 1 .. Len(s) /\ 1 + 1 = 2
  <2>1. \A l \in Nat : l >= 1 /\ l # 1 => 1 \in 1 .. l - 1 /\ 2 \in 1 .. l
    OBVIOUS
  <2>2. 1 + 1 = 2
    OBVIOUS
  <2> QED
    BY <1>2, <1>3, <2>1, <2>2
<1>5. Follows(s[1], s[2])
  BY <1>1, <1>4 DEF Formed
<1> QED
  BY <1>4, <1>5 DEF s

HeadIs(u, ops, c) ==
    1 \in 1 .. Len(todo[u]) /\ todo[u][1].op \in ops /\ todo[u][1].core = c

(* A thread between lock and unlock holds the mutex.                       *)
LEMMA HeadHolds ==
    ASSUME Safe, NEW u \in Thread, NEW c,
           HeadIs(u, {"attach", "append", "unlock"}, c) \/ (c \in Own /\ HeadIs(u, {"settle", "run"}, c))
    PROVE  mtx[c] = u /\ \E k \in 1 .. Len(todo[u]) : Open(todo[u], k) /\ k <= 3 /\ todo[u][k].core = c
<1> DEFINE s == todo[u]
           y == s[1]
<1>1. s \in Seq(Tasks) /\ Formed(s) /\ Typed /\ Shape /\ Held
  BY DEF Safe, Typed, Shape
<1>2. 1 \in 1 .. Len(s) /\ y.core = c
  BY DEF HeadIs
<1>3. ASSUME NEW k \in 1 .. Len(s), k <= 3, s[k].op = "unlock", s[k].core = c
      PROVE  Open(s, k) /\ mtx[c] = u
  <2>1. Open(s, k)
    BY <1>3 DEF Open, Intact
  <2> QED
    BY <1>1, <1>3, <2>1 DEF Held
<1>4. CASE y.op = "unlock"
  BY <1>2, <1>3, <1>4
<1>5. CASE y.op \in {"run", "append"}
  <2>1. y.op = "run" => c \in Own
    BY <1>5 DEF HeadIs
  <2>2. 2 \in 1 .. Len(s) /\ Follows(y, s[2])
    BY <1>1, <1>2, <1>5, <2>1, HeadFollows DEF Continues
  <2>3. s[2].op = "unlock" /\ s[2].core = c
    BY <1>2, <1>5, <2>1, <2>2, TaskIn DEF Follows
  <2> QED
    BY <1>3, <2>2, <2>3
<1>6. CASE y.op \in {"settle", "attach"}
  <2>1. y.op = "settle" => c \in Own
    BY <1>6 DEF HeadIs
  <2>2. 2 \in 1 .. Len(s) /\ Follows(y, s[2])
    BY <1>1, <1>2, <1>6, <2>1, HeadFollows DEF Continues
  <2>3. s[2].op \in {"run", "append"} /\ s[2].core = c /\ (s[2].op = "run" => c \in Own)
    BY <1>2, <1>6, <2>1, <2>2, TaskIn DEF Follows
  <2>4. Continues(s[2])
    BY <2>3 DEF Continues
  <2>5. 3 \in 1 .. Len(s) /\ Follows(s[2], s[3])
    <3> HIDE DEF s
    <3>1. Len(s) \in Nat /\ Len(s) >= 2 /\ s # <<>>
      BY <1>1, <2>2
    <3>2. Len(s) # 2
      BY <1>1, <2>4, <3>1 DEF Formed
    <3>3. 2 \in 1 .. Len(s) - 1 /\ 3 \in 1 .. Len(s) /\ 2 + 1 = 3
      <4>1. \A l \in Nat : l >= 2 /\ l # 2 => 2 \in 1 .. l - 1 /\ 3 \in 1 .. l
        OBVIOUS
      <4>2. 2 + 1 = 3
        OBVIOUS
      <4> QED
        BY <3>1, <3>2, <4>1, <4>2
    <3>4. Follows(s[2], s[2 + 1])
      BY <1>1, <3>3 DEF Formed
    <3> QED
      BY <3>3, <3>4
  <2>6. s[3].op = "unlock" /\ s[3].core = c
    BY <2>3, <2>5, TaskIn DEF Follows
  <2> QED
    BY <1>3, <2>5, <2>6
<1> QED
  BY <1>4, <1>5, <1>6 DEF HeadIs

(* What comes first after a step.                                          *)
LEMMA NewHead ==
    ASSUME Typed, Shape, NEW t \in Thread, NEW x, Moved(t, x),
           NEW u \in Thread, 1 \in 1 .. Len(todo'[u])
    PROVE  \/ u # t /\ 1 \in 1 .. Len(todo[u]) /\ todo'[u][1] = todo[u][1]
           \/ u = t /\ 1 \in 1 .. Len(After(x)) /\ todo'[u][1] = After(x)[1]
           \/ u = t /\ 2 \in 1 .. Len(todo[u]) /\ todo'[u][1] = todo[u][2] /\ Follows(x, todo[u][2])
<1> DEFINE n == Len(After(x))
<1>1. /\ n \in Nat /\ x = todo[t][1] /\ 1 \in 1 .. Len(todo[t])
      /\ \/ Fresh(t, x, u, 1)
         \/ \E j \in 1 .. Len(todo[u]) :
               Rest(t, u, j) /\ 1 = Shift(t, n, u, j) /\ todo'[u][1] = todo[u][j]
  BY Moves
<1>2. CASE Fresh(t, x, u, 1)
  BY <1>2 DEF Fresh
<1>3. CASE ~Fresh(t, x, u, 1)
  <2>1. PICK j \in 1 .. Len(todo[u]) :
               Rest(t, u, j) /\ 1 = Shift(t, n, u, j) /\ todo'[u][1] = todo[u][j]
    BY <1>1, <1>3
  <2> HIDE DEF n
  <2>2. CASE u # t
    <3>1. j = 1
      BY <2>1, <2>2 DEF Shift
    <3> QED
      BY <2>1, <2>2, <3>1
  <2>3. CASE u = t
    <3>1. 1 = (j + n) - 1 /\ j # 1
      BY <2>1, <2>3 DEF Shift, Rest
    <3>2. j = 2
      BY <1>1, <3>1
    <3>3. Follows(x, todo[t][2])
      <4>1. Formed(todo[t]) /\ Len(todo[t]) \in Nat
        BY DEF Shape, Typed
      <4>2. 1 \in 1 .. Len(todo[t]) - 1 /\ 1 + 1 = 2
        BY <2>3, <3>2, <4>1
      <4> QED
        BY <1>1, <4>1, <4>2 DEF Formed
    <3> QED
      BY <2>1, <2>3, <3>2, <3>3
  <2> QED
    BY <2>2, <2>3
<1> QED
  BY <1>2, <1>3

(* A task that puts nothing in its place leaves the second one first.      *)
LEMMA SecondFirst ==
    ASSUME Typed, Shape, NEW t \in Thread, NEW x, Moved(t, x), Continues(x), After(x) = <<>>
    PROVE  1 \in 1 .. Len(todo'[t]) /\ todo'[t][1] = todo[t][2] /\ Follows(x, todo[t][2])
<1>1. x = todo[t][1] /\ 1 \in 1 .. Len(todo[t]) /\ Len(After(x)) = 0
  <2>1. Len(<<>>) = 0
    OBVIOUS
  <2> QED
    BY <2>1, Moves
<1>2. 2 \in 1 .. Len(todo[t]) /\ Follows(x, todo[t][2])
  BY <1>1, HeadFollows
<1>3. Rest(t, t, 2) /\ Shift(t, 0, t, 2) = 1
  BY <1>2 DEF Rest, Shift
<1>4. 1 \in 1 .. Len(todo'[t]) /\ todo'[t][1] = todo[t][2]
  BY <1>1, <1>2, <1>3, Moves
<1> QED
  BY <1>2, <1>4

-------------------------------------------------------------------------------
(* The tasks about a continuation, and those about a core.                 *)
Of(ops, r) == {y \in Tasks : y.op \in ops /\ y.req = r}
On(ops, c) == {y \in Tasks : y.op \in ops /\ y.core = c}

AttachOf(r) == Of({"attach"}, r)
AppendOf(r) == Of({"append"}, r)
CallOf(r) == Of({"call"}, r)

Attached(r) == \E n \in 1 .. Len(requests[promiseOf[r]]) : requests[promiseOf[r]][n] = r

(* The continuations of the cores that are settled through a Resolver.     *)
Kept == {r \in Request : promiseOf[r] \in Own}

Running(u, c) == HeadIs(u, {"run"}, c)

-------------------------------------------------------------------------------
(* A continuation is attached once, to its promise.                        *)
AttachedOnce == \A r \in Request : Once(AttachOf(r)) /\ Once(AppendOf(r))

Listed ==
    \A c \in Core : \A n \in 1 .. Len(requests[c]) :
        /\ promiseOf[requests[c][n]] = c /\ ~Somewhere(AppendOf(requests[c][n]))
        /\ \A m \in 1 .. Len(requests[c]) : requests[c][m] = requests[c][n] => m = n

(* The continuation that a callback attaches, after the callback.          *)
AttachedAfter ==
    \A q \in Request :
        kind[q] = "promise" /\ (Attached(chainer[q]) \/ Somewhere(AppendOf(chainer[q]))) =>
            calls[q] >= 1

(* A continuation is called by the thread that holds the mutex, once.      *)
CallHeld(u, i) ==
    LET x == todo[u][i]
    IN  /\ x.core = promiseOf[x.req] /\ x.to = state[x.core] /\ calls[x.req] = 0
        /\ \E k \in 1 .. Len(todo[u]) : k > i /\ Open(todo[u], k) /\ todo[u][k].core = x.core

CallsHeld ==
    \A u \in Thread : \A i \in 1 .. Len(todo[u]) :
        todo[u][i].op = "call" /\ todo[u][i].req \in Kept => CallHeld(u, i)

CalledOnce == \A r \in Kept : Once(CallOf(r)) /\ calls[r] \in {0, 1}

CalledLater == \A r \in Kept : Somewhere(AttachOf(r)) => calls[r] = 0 /\ ~Somewhere(CallOf(r))

CalledSettled == \A r \in Kept : state[promiseOf[r]] = Pending => calls[r] = 0

CalledKnown ==
    \A r \in Kept : calls[r] > 0 \/ Somewhere(CallOf(r)) => Attached(r) \/ Somewhere(AppendOf(r))

(* None is forgotten by the thread that settles, nor by the one that       *)
(* attaches.                                                               *)
NoneLost ==
    \A c \in Own : state[c] # Pending => \A n \in 1 .. Len(requests[c]) :
        \/ calls[requests[c][n]] = 1
        \/ Somewhere(CallOf(requests[c][n]))
        \/ \E u \in Thread : Running(u, c)

RunsAll ==
    \A c \in Own : \A u \in Thread : Running(u, c) =>
        /\ state[c] = todo[u][1].to
        /\ \A n \in 1 .. Len(requests[c]) :
              calls[requests[c][n]] = 0 /\ ~Somewhere(CallOf(requests[c][n]))

AppendWaits(u, r) == 1 \in 1 .. Len(todo[u]) /\ todo[u][1] \in AppendOf(r)

Decided ==
    \A r \in Kept : Somewhere(AppendOf(r)) /\ ~Somewhere(AttachOf(r)) =>
        \/ calls[r] = 1
        \/ Somewhere(CallOf(r))
        \/ state[promiseOf[r]] = Pending /\ \E u \in Thread : AppendWaits(u, r)

-------------------------------------------------------------------------------
(* A core is settled by one thread, and once.                              *)
Works == {"settle", "arrive", "count", "complete", "refuse"}
Work(u, c) == Waits(u, On(Works, c))

Unsettled ==
    \A c \in Own : \A u \in Thread :
        HeadIs(u, {"settle"}, c) \/ (HeadIs(u, {"lock"}, c) /\ todo[u][1].req = Null) =>
            state[c] = Pending

OneWorks == \A c \in Own : \A u, v \in Thread : Work(u, c) /\ Work(v, c) => u = v

WorksOnce ==
    \A r \in Request : \A u \in Thread :
        IsJoin(r) /\ resolver[chain[r]] = Null /\ Work(u, chain[r]) => calls[r] = 1

ResolverWorks ==
    \A u \in Thread : \A c \in Own :
        Waits(u, On(Works \cup {"run"}, c)) => resolver[c] \in {u, Null}

ResolverCalls ==
    \A u \in Thread : \A r \in Request :
        IsJoin(r) /\ Waits(u, Of({"call", "attach"}, r)) => resolver[chain[r]] \in {u, Null}

Attaching == AttachedOnce /\ Listed /\ AttachedAfter
Calling == CallsHeld /\ CalledOnce /\ CalledLater /\ CalledSettled /\ CalledKnown
Settling == NoneLost /\ RunsAll /\ Decided
Working == Unsettled /\ OneWorks /\ WorksOnce /\ ResolverWorks /\ ResolverCalls

Inv == Safe /\ Attaching /\ Calling /\ Settling /\ Working

-------------------------------------------------------------------------------
LEMMA HeadTask ==
    ASSUME Typed, Shape, NEW t \in Thread, NEW x, Moved(t, x)
    PROVE  /\ x = todo[t][1] /\ 1 \in 1 .. Len(todo[t]) /\ Proper(x) /\ x \in Tasks
           /\ \A S : x \in S => Waits(t, S) /\ Somewhere(S)
           /\ \A k \in 1 .. Len(After(x)) : Proper(After(x)[k]) /\ After(x)[k] \in Tasks /\ Born(x, After(x)[k])
           /\ \A c, op : x.op = op /\ x.core = c => HeadIs(t, {op}, c)
<1>1. x = todo[t][1] /\ 1 \in 1 .. Len(todo[t]) /\ Proper(x) /\ Put(x, After(x))
  BY Moves
<1>2. \A k \in 1 .. Len(After(x)) : Proper(After(x)[k]) /\ Born(x, After(x)[k])
  BY <1>1 DEF Put, Formed
<1>3. \A k \in 1 .. Len(After(x)) : After(x)[k] \in Tasks
  BY <1>2 DEF Proper
<1>4. \A S : x \in S => Waits(t, S)
  BY <1>1 DEF Waits
<1> QED
  BY <1>1, <1>2, <1>3, <1>4 DEF Proper, Somewhere, HeadIs

(* What is put in the place of a task.                                     *)
LEMMA PutsCall ==
    ASSUME Typed, Shape, NEW t \in Thread, NEW x, Moved(t, x), NEW r, Puts(x, CallOf(r))
    PROVE  \/ x.op = "attach" /\ x.req = r /\ state[x.core] # Pending
           \/ x.op = "run" /\ \E n \in 1 .. Len(requests[x.core]) : requests[x.core][n] = r
<1>1. PICK k \in 1 .. Len(After(x)) : After(x)[k].op = "call" /\ After(x)[k].req = r
  BY DEF Puts, CallOf, Of
<1>2. Born(x, After(x)[k]) /\ Proper(x)
  BY HeadTask
<1>3. CASE x.op = "attach"
  BY <1>1, <1>2, <1>3, TaskIn DEF Born
<1>4. CASE x.op = "run"
  <2>1. PICK n \in DOMAIN requests[x.core] : After(x)[k] = Task("call", x.core, requests[x.core][n], x.to)
    BY <1>1, <1>2, <1>4 DEF Born
  <2>2. DOMAIN requests[x.core] = 1 .. Len(requests[x.core])
    BY <1>2, <1>4 DEF Typed, Proper
  <2> QED
    BY <1>1, <1>4, <2>1, <2>2, TaskIn
<1> QED
  BY <1>1, <1>2, <1>3, <1>4 DEF Born

LEMMA PutsAttach ==
    ASSUME Typed, Shape, NEW t \in Thread, NEW x, Moved(t, x), NEW r,
           Puts(x, AttachOf(r)) \/ Puts(x, AppendOf(r))
    PROVE  /\ x.op = "call" /\ x.to = Fulfilled /\ x.req \in Kept /\ kind[x.req] = "promise"
           /\ r = chainer[x.req] /\ r \in Request /\ ~IsJoin(r)
           /\ Puts(x, AttachOf(r))
<1>1. PICK k \in 1 .. Len(After(x)) : After(x)[k].op \in {"attach", "append"} /\ After(x)[k].req = r
  BY DEF Puts, AttachOf, AppendOf, Of
<1>2. x.op = "call" /\ x.to = Fulfilled /\ kind[x.req] = "promise" /\ r = chainer[x.req] /\ Proper(x)
  BY <1>1, HeadTask DEF Born
<1>3. x.req \in Request
  BY <1>2 DEF Proper
<1>4. x.req \in Kept /\ r \in Request /\ ~IsJoin(r) /\ inner[x.req] = promiseOf[r] /\ promiseOf[r] \in Core
  BY <1>2, <1>3, UseAssumption DEF ChainsAreRight, Kept
<1> DEFINE s == Then(inner[x.req], r)
           d == <<Task("done", chain[x.req], x.req, x.to)>>
           y == Task("attach", inner[x.req], r, Null)
<1>5. After(x) = s \o d
  BY <1>2 DEF After, Fulfil
<1>6. s \in Seq(Tasks) /\ Len(s) = 4 /\ s[2] = y
  BY <1>4, ThenFormed
<1>7. d \in Seq(Tasks) /\ Len(d) = 1
  <2>1. Task("done", chain[x.req], x.req, x.to) \in Tasks
    BY <1>2, <1>3, PutDone DEF Ends
  <2> QED
    BY <2>1
<1> HIDE DEF s, d
<1>8. 2 \in 1 .. Len(s \o d) /\ (s \o d)[2] = s[2]
  <2>1. 2 \in 1 .. 4 /\ 4 + 1 = 5 /\ 2 \in 1 .. 5
    OBVIOUS
  <2>2. 2 \in 1 .. Len(s)
    BY <1>6, <2>1
  <2>3. Len(s \o d) = Len(s) + Len(d) /\ \A i \in 1 .. Len(s) : (s \o d)[i] = s[i]
    BY <1>6, <1>7, Joined
  <2>4. Len(s \o d) = 5
    BY <1>6, <1>7, <2>1, <2>3
  <2> QED
    BY <2>1, <2>2, <2>3, <2>4
<1>9. y \in AttachOf(r)
  BY <1>4, TaskIn DEF AttachOf, Of
<1> QED
  BY <1>2, <1>4, <1>5, <1>6, <1>8, <1>9 DEF Puts

(* Who puts work on a core.                                                *)
LEMMA PutsWork ==
    ASSUME Typed, Shape, NEW t \in Thread, NEW x, Moved(t, x), NEW c \in Own,
           Puts(x, On(Works \cup {"run"}, c))
    PROVE  \/ x \in On(Works, c)
           \/ /\ x.op = "call" /\ x.req \in Request /\ IsJoin(x.req) /\ chain[x.req] = c
<1>1. PICK k \in 1 .. Len(After(x)) : After(x)[k].op \in Works \cup {"run"} /\ After(x)[k].core = c
  BY DEF Puts, On
<1>2. Born(x, After(x)[k]) /\ Proper(x) /\ x \in Tasks
  BY <1>1, HeadTask
<1>3. CASE After(x)[k].op \in {"arrive", "refuse"}
  BY <1>1, <1>2, <1>3 DEF Born, Proper
<1>4. CASE After(x)[k].op \in {"count", "complete"}
  BY <1>1, <1>2, <1>4 DEF Born, On, Works
<1>5. CASE After(x)[k].op \in {"settle", "run"}
  BY <1>1, <1>2, <1>5 DEF Born, On, Works
<1> QED
  BY <1>1, <1>3, <1>4, <1>5 DEF Works

(* The append follows the attach.                                          *)
LEMMA AttachThenAppend ==
    ASSUME Typed, Shape, NEW u \in Thread, NEW i \in 1 .. Len(todo[u]), NEW r, todo[u][i] \in AttachOf(r)
    PROVE  i + 1 \in 1 .. Len(todo[u]) /\ todo[u][i + 1] \in AppendOf(r)
<1> DEFINE s == todo[u]
<1>1. s \in Seq(Tasks) /\ Formed(s) /\ i \in 1 .. Len(s) /\ s[i].op = "attach" /\ s[i].req = r
  BY DEF Typed, Shape, AttachOf, Of
<1> HIDE DEF s
<1>2. Len(s) \in Nat /\ s # <<>> /\ i # Len(s)
  <2>1. Len(s) \in Nat /\ Len(s) # 0 /\ Len(<<>>) = 0
    BY <1>1
  <2> QED
    BY <1>1, <2>1 DEF Formed, Continues
<1>3. i \in 1 .. Len(s) - 1 /\ i + 1 \in 1 .. Len(s)
  BY <1>1, <1>2
<1>4. Follows(s[i], s[i + 1]) /\ s[i + 1] \in Tasks
  BY <1>1, <1>3 DEF Formed
<1>5. s[i + 1].op = "append" /\ s[i + 1].req = r
  BY <1>1, <1>4, TaskIn DEF Follows
<1> QED
  BY <1>3, <1>4, <1>5 DEF s, AppendOf, Of

LEMMA AttachHasAppend ==
    ASSUME Typed, Shape, NEW r, Somewhere(AttachOf(r))
    PROVE  Somewhere(AppendOf(r))
<1>1. PICK u \in Thread : \E i \in 1 .. Len(todo[u]) : todo[u][i] \in AttachOf(r)
  BY DEF Somewhere, Waits
<1> QED
  BY <1>1, AttachThenAppend DEF Somewhere, Waits

-------------------------------------------------------------------------------
(* What a step does, where the invariant holds.                            *)
LEMMA Basics == Inv => Typed /\ Shape /\ Held /\ Safe
  BY DEF Inv, Safe

LEMMA TheKept ==
    /\ \A r \in Kept : r \in Request /\ promiseOf[r] \in Own /\ promiseOf[r] \in Core /\ promiseOf[r] # Null
    /\ \A r \in Request : IsJoin(r) => r \in Kept /\ chain[r] \in Own /\ chain[r] \in Core
  BY PromiseAssumption, UseAssumption DEF Kept, Own, JoinsAreRight

LEMMA CallHead ==
    ASSUME Inv, NEW t \in Thread, NEW x, Moved(t, x), x.op = "call", x.req \in Kept
    PROVE  /\ x.core = promiseOf[x.req] /\ x.to = state[x.core] /\ calls[x.req] = 0 /\ x.to \in Ends
           /\ state[promiseOf[x.req]] # Pending
<1>1. CallHeld(t, 1) /\ Proper(x) /\ x = todo[t][1]
  BY Basics, HeadTask DEF Inv, Calling, CallsHeld
<1> QED
  BY <1>1 DEF CallHeld, Proper, Ends, Pending, Fulfilled, Rejected

LEMMA SettleHead ==
    ASSUME Inv, NEW t \in Thread, NEW x, Moved(t, x), x.op = "settle", x.core \in Own
    PROVE  state[x.core] = Pending /\ mtx[x.core] = t /\ x.to \in Ends
<1>1. HeadIs(t, {"settle"}, x.core) /\ Proper(x)
  BY Basics, HeadTask
<1>2. HeadIs(t, {"settle", "run"}, x.core)
  BY <1>1 DEF HeadIs
<1> QED
  BY <1>1, <1>2, Basics, HeadHolds DEF Inv, Working, Unsettled, Proper

LEMMA MutexHead ==
    ASSUME Inv, NEW t \in Thread, NEW x, Moved(t, x), x.op \in {"attach", "append"} \/ (x.op = "run" /\ x.core \in Own)
    PROVE  /\ mtx[x.core] = t
           /\ \E k \in 1 .. Len(todo[t]) : Open(todo[t], k) /\ todo[t][k].core = x.core /\ k # 1
<1>1. x = todo[t][1] /\ 1 \in 1 .. Len(todo[t])
  BY Basics, HeadTask
<1>2. HeadIs(t, {"attach", "append", "unlock"}, x.core) \/ (x.core \in Own /\ HeadIs(t, {"settle", "run"}, x.core))
  BY <1>1 DEF HeadIs
<1>3. mtx[x.core] = t /\ \E k \in 1 .. Len(todo[t]) : Open(todo[t], k) /\ k <= 3 /\ todo[t][k].core = x.core
  BY <1>2, Basics, HeadHolds
<1> QED
  BY <1>1, <1>3 DEF Open

LEMMA CallsAre ==
    ASSUME Inv, NEW t \in Thread, NEW x, Moved(t, x), NEW r \in Request
    PROVE  /\ calls[r] \in Nat
           /\ x \in CallOf(r) => calls'[r] = calls[r] + 1
           /\ x \notin CallOf(r) => calls'[r] = calls[r]
           /\ calls[r] > 0 => calls'[r] > 0
           /\ r \in Kept /\ x \in CallOf(r) => calls[r] = 0 /\ calls'[r] = 1
           /\ r \in Kept /\ calls[r] = 1 => calls'[r] = 1
<1>1. x \in Tasks /\ Proper(x) /\ Typed
  BY Basics, HeadTask
<1>2. calls' = (IF x.op = "call" THEN [calls EXCEPT ![x.req] = @ + 1] ELSE calls) /\ calls \in [Request -> Nat]
  BY <1>1 DEF Moved, Effect, Typed
<1>3. x \in CallOf(r) <=> x.op = "call" /\ x.req = r
  BY <1>1 DEF CallOf, Of
<1>4. calls[r] \in Nat /\ (x \in CallOf(r) => calls'[r] = calls[r] + 1) /\ (x \notin CallOf(r) => calls'[r] = calls[r])
  BY <1>2, <1>3
<1>5. r \in Kept /\ x \in CallOf(r) => calls[r] = 0
  BY <1>3, CallHead
<1> HIDE DEF Kept
<1>6. calls[r] > 0 => calls'[r] > 0
  BY <1>4
<1>7. 0 + 1 = 1 /\ 0 # 1
  OBVIOUS
<1> QED
  BY <1>4, <1>5, <1>6, <1>7

LEMMA StateIs ==
    ASSUME Inv, NEW t \in Thread, NEW x, Moved(t, x), NEW c \in Core
    PROVE  /\ x \in On({"settle"}, c) => state'[c] = x.to /\ x.to \in Ends
           /\ x \notin On({"settle"}, c) => state'[c] = state[c]
           /\ c \in Own /\ state[c] # Pending => state'[c] = state[c] /\ x \notin On({"settle"}, c)
           /\ state'[c] = Pending => state[c] = Pending
<1>1. x \in Tasks /\ Proper(x) /\ Typed
  BY Basics, HeadTask
<1>2. state' = (IF x.op = "settle" THEN [state EXCEPT ![x.core] = x.to] ELSE state)
      /\ state \in [Core -> {Pending, Fulfilled, Rejected}]
  BY <1>1 DEF Moved, Effect, Typed
<1>3. x \in On({"settle"}, c) <=> x.op = "settle" /\ x.core = c
  BY <1>1 DEF On
<1>4. x.op = "settle" => x.to \in Ends
  BY <1>1 DEF Proper
<1>5. x \in On({"settle"}, c) /\ c \in Own => state[c] = Pending
  BY <1>3, SettleHead
<1>6. Pending \notin Ends
  BY DEF Pending, Ends, Fulfilled, Rejected
<1> QED
  BY <1>2, <1>3, <1>4, <1>5, <1>6

LEMMA RequestsAre ==
    ASSUME Inv, NEW t \in Thread, NEW x, Moved(t, x), NEW c \in Core
    PROVE  /\ Len(requests[c]) \in Nat
           /\ x \notin On({"append"}, c) => requests'[c] = requests[c]
           /\ x \in On({"append"}, c) =>
                 /\ Len(requests'[c]) = Len(requests[c]) + 1
                 /\ \A n \in 1 .. Len(requests[c]) : requests'[c][n] = requests[c][n]
                 /\ requests'[c][Len(requests[c]) + 1] = x.req
           /\ \A n \in 1 .. Len(requests[c]) : n \in 1 .. Len(requests'[c]) /\ requests'[c][n] = requests[c][n]
           /\ \A n \in 1 .. Len(requests'[c]) :
                 \/ n \in 1 .. Len(requests[c]) /\ requests'[c][n] = requests[c][n]
                 \/ n = Len(requests[c]) + 1 /\ requests'[c][n] = x.req /\ x \in On({"append"}, c)
           /\ \A n \in 1 .. Len(requests[c]) : requests[c][n] \in Request
<1>1. x \in Tasks /\ Proper(x) /\ Typed
  BY Basics, HeadTask
<1>2. requests' = (IF x.op = "append" THEN [requests EXCEPT ![x.core] = Append(@, x.req)] ELSE requests)
      /\ requests \in [Core -> Seq(Request)]
  BY <1>1 DEF Moved, Effect, Typed
<1>3. x \in On({"append"}, c) <=> x.op = "append" /\ x.core = c
  BY <1>1 DEF On
<1> DEFINE s == requests[c]
           v == requests'[c]
<1>4. s \in Seq(Request) /\ (x \notin On({"append"}, c) => v = s) /\ (x \in On({"append"}, c) => v = Append(s, x.req))
  BY <1>2, <1>3
<1>5. x \in On({"append"}, c) => x.req \in Request
  BY <1>1, <1>3 DEF Proper
<1> HIDE DEF s, v
<1>6. Len(s) \in Nat /\ \A n \in 1 .. Len(s) : s[n] \in Request
  BY <1>4
<1>7. x \in On({"append"}, c) =>
         /\ Len(v) = Len(s) + 1
         /\ \A n \in 1 .. Len(s) : v[n] = s[n]
         /\ v[Len(s) + 1] = x.req
  BY <1>4, <1>5
<1>8. \A n \in 1 .. Len(s) + 1 : n \in 1 .. Len(s) \/ n = Len(s) + 1
  BY <1>6
<1>9. \A n \in 1 .. Len(s) : n \in 1 .. Len(s) + 1
  BY <1>6
<1> QED
  BY <1>4, <1>6, <1>7, <1>8, <1>9 DEF s, v

LEMMA AttachedIs ==
    ASSUME Inv, NEW t \in Thread, NEW x, Moved(t, x), NEW r \in Request
    PROVE  /\ Attached(r) => Attached(r)'
           /\ x \in AppendOf(r) => Attached(r)'
           /\ Attached(r)' => Attached(r) \/ x \in AppendOf(r)
<1>1. promiseOf[r] \in Core
  BY UseAssumption
<1>2. x \in Tasks /\ Proper(x)
  BY Basics, HeadTask
<1>3. x \in AppendOf(r) => x \in On({"append"}, promiseOf[r]) /\ x.req = r
  BY <1>2 DEF AppendOf, Of, On, Proper
<1>4. x \in On({"append"}, promiseOf[r]) /\ x.req = r => x \in AppendOf(r)
  BY DEF AppendOf, Of, On
<1> DEFINE s == requests[promiseOf[r]]
           v == requests'[promiseOf[r]]
<1>5. /\ Len(s) \in Nat
      /\ x \in On({"append"}, promiseOf[r]) => Len(v) = Len(s) + 1 /\ v[Len(s) + 1] = x.req
      /\ \A n \in 1 .. Len(s) : n \in 1 .. Len(v) /\ v[n] = s[n]
      /\ \A n \in 1 .. Len(v) :
                 \/ n \in 1 .. Len(s) /\ v[n] = s[n]
                 \/ n = Len(s) + 1 /\ v[n] = x.req /\ x \in On({"append"}, promiseOf[r])
  BY <1>1, RequestsAre
<1>6. Attached(r) <=> \E n \in 1 .. Len(s) : s[n] = r
  BY DEF Attached
<1>7. Attached(r)' <=> \E n \in 1 .. Len(v) : v[n] = r
  BY DEF Attached
<1> HIDE DEF s, v
<1>8. Len(s) + 1 \in 1 .. Len(s) + 1
  BY <1>5
<1> QED
  BY <1>3, <1>4, <1>5, <1>6, <1>7, <1>8

LEMMA InList ==
    ASSUME Inv, NEW c \in Core, NEW n \in 1 .. Len(requests[c])
    PROVE  /\ requests[c][n] \in Request /\ promiseOf[requests[c][n]] = c /\ Attached(requests[c][n])
           /\ ~Somewhere(AppendOf(requests[c][n])) /\ ~Somewhere(AttachOf(requests[c][n]))
<1>1. Typed /\ Shape /\ Listed
  BY Basics DEF Inv, Attaching
<1>2. requests[c][n] \in Request
  BY <1>1 DEF Typed
<1>3. promiseOf[requests[c][n]] = c /\ ~Somewhere(AppendOf(requests[c][n]))
  BY <1>1 DEF Listed
<1> QED
  BY <1>1, <1>2, <1>3, AttachHasAppend DEF Attached

(* A callback attaches a continuation that nobody knew.                    *)
LEMMA NewRequest ==
    ASSUME Inv, NEW t \in Thread, NEW x, Moved(t, x), NEW r, Puts(x, AttachOf(r)) \/ Puts(x, AppendOf(r))
    PROVE  /\ x.op = "call" /\ r \in Request /\ ~IsJoin(r) /\ x.req \in Kept /\ kind[x.req] = "promise" /\ r = chainer[x.req]
           /\ ~Attached(r) /\ ~Somewhere(AppendOf(r)) /\ ~Somewhere(AttachOf(r)) /\ Puts(x, AttachOf(r))
           /\ r \in Kept => calls[r] = 0 /\ ~Somewhere(CallOf(r))
           /\ x \notin CallOf(r)
<1>1. /\ x.op = "call" /\ r \in Request /\ ~IsJoin(r) /\ x.req \in Kept /\ kind[x.req] = "promise"
      /\ r = chainer[x.req] /\ x \in Tasks /\ x.req \in Request /\ Puts(x, AttachOf(r))
  BY Basics, PutsAttach, HeadTask, TheKept
<1>2. calls[x.req] = 0
  BY <1>1, CallHead
<1>3. ~Attached(r) /\ ~Somewhere(AppendOf(r))
  BY <1>1, <1>2 DEF Inv, Attaching, AttachedAfter
<1>4. ~Somewhere(AttachOf(r))
  BY <1>3, AttachHasAppend, Basics
<1>5. ASSUME r \in Kept PROVE calls[r] = 0 /\ ~Somewhere(CallOf(r))
  <2>1. ~(calls[r] > 0 \/ Somewhere(CallOf(r)))
    BY <1>3, <1>5 DEF Inv, Calling, CalledKnown
  <2>2. calls[r] \in Nat
    BY <1>1, CallsAre
  <2> QED
    BY <2>1, <2>2
<1>6. x \notin CallOf(r)
  <2> SUFFICES ASSUME x \in CallOf(r) PROVE FALSE
    OBVIOUS
  <2>1. r \in Kept
    BY <1>1 DEF CallOf, Of
  <2> QED
    BY <1>5, <2>1, HeadTask, Basics
<1> QED
  BY <1>1, <1>3, <1>4, <1>5, <1>6

-------------------------------------------------------------------------------
LEMMA AttachedOnceStep == ASSUME Inv, NEW t \in Thread, NEW x, Moved(t, x) PROVE AttachedOnce'
<1> SUFFICES ASSUME NEW r \in Request PROVE Once(AttachOf(r))' /\ Once(AppendOf(r))'
  BY DEF AttachedOnce, AttachOf, AppendOf, Of
<1>1. Typed /\ Shape /\ Once(AttachOf(r)) /\ Once(AppendOf(r)) /\ Put(x, After(x))
  BY Basics, Moves DEF Inv, Attaching, AttachedOnce
<1>2. \A k, m \in 1 .. Len(After(x)) : After(x)[k] \in AttachOf(r) /\ After(x)[m] \in AttachOf(r) => k = m
  BY <1>1 DEF Put, AttachOf, Of, Singles
<1>3. \A k, m \in 1 .. Len(After(x)) : After(x)[k] \in AppendOf(r) /\ After(x)[m] \in AppendOf(r) => k = m
  BY <1>1 DEF Put, AppendOf, Of, Singles
<1>4. ~Somewhere(AttachOf(r)) \/ ~Puts(x, AttachOf(r))
  BY NewRequest
<1>5. ~Somewhere(AppendOf(r)) \/ ~Puts(x, AppendOf(r))
  BY NewRequest
<1>6. Once(AttachOf(r))'
  BY <1>1, <1>2, <1>4, OnceStays
<1>7. Once(AppendOf(r))'
  BY <1>1, <1>3, <1>5, OnceStays
<1> QED
  BY <1>6, <1>7

(* What waits, or does not, after a step.                                  *)
LEMMA AppendWaitsAfter ==
    ASSUME Inv, NEW t \in Thread, NEW x, Moved(t, x), NEW r
    PROVE  /\ Somewhere(AppendOf(r))' => Somewhere(AppendOf(r)) \/ Puts(x, AppendOf(r))
           /\ Somewhere(AppendOf(r)) /\ x \notin AppendOf(r) => Somewhere(AppendOf(r))'
           /\ r \in Request /\ x \in AppendOf(r) => ~Somewhere(AppendOf(r))'
           /\ Somewhere(AttachOf(r))' => Somewhere(AttachOf(r)) \/ Puts(x, AttachOf(r))
           /\ Somewhere(AttachOf(r)) /\ x \notin AttachOf(r) => Somewhere(AttachOf(r))'
           /\ r \in Request /\ x \in AttachOf(r) => ~Somewhere(AttachOf(r))'
           /\ Somewhere(CallOf(r))' => Somewhere(CallOf(r)) \/ Puts(x, CallOf(r))
           /\ Somewhere(CallOf(r)) /\ x \notin CallOf(r) => Somewhere(CallOf(r))'
           /\ Puts(x, AppendOf(r)) => Somewhere(AppendOf(r))' /\ Somewhere(AttachOf(r))'
           /\ Puts(x, CallOf(r)) => Somewhere(CallOf(r))'
<1>1. Typed /\ Shape
  BY Basics
<1>2. ASSUME r \in Request, x \in AppendOf(r) PROVE ~Somewhere(AppendOf(r))'
  <2>1. ~Puts(x, AppendOf(r))
    BY <1>2, NewRequest DEF AppendOf, Of
  <2>2. Once(AppendOf(r))
    BY <1>2 DEF Inv, Attaching, AttachedOnce
  <2> QED
    BY <1>1, <1>2, <2>1, <2>2, OnceGone
<1>3. ASSUME r \in Request, x \in AttachOf(r) PROVE ~Somewhere(AttachOf(r))'
  <2>1. ~Puts(x, AttachOf(r))
    BY <1>3, NewRequest DEF AttachOf, Of
  <2>2. Once(AttachOf(r))
    BY <1>3 DEF Inv, Attaching, AttachedOnce
  <2> QED
    BY <1>1, <1>3, <2>1, <2>2, OnceGone
<1>4. Puts(x, AppendOf(r)) => Puts(x, AttachOf(r))
  BY NewRequest
<1>5. /\ Somewhere(AppendOf(r)) /\ x \notin AppendOf(r) => Somewhere(AppendOf(r))'
      /\ Somewhere(AppendOf(r))' => Somewhere(AppendOf(r)) \/ Puts(x, AppendOf(r))
      /\ Puts(x, AppendOf(r)) => Somewhere(AppendOf(r))'
  BY <1>1, SomewhereGoes
<1>6. /\ Somewhere(AttachOf(r)) /\ x \notin AttachOf(r) => Somewhere(AttachOf(r))'
      /\ Somewhere(AttachOf(r))' => Somewhere(AttachOf(r)) \/ Puts(x, AttachOf(r))
      /\ Puts(x, AttachOf(r)) => Somewhere(AttachOf(r))'
  BY <1>1, SomewhereGoes
<1>7. /\ Somewhere(CallOf(r)) /\ x \notin CallOf(r) => Somewhere(CallOf(r))'
      /\ Somewhere(CallOf(r))' => Somewhere(CallOf(r)) \/ Puts(x, CallOf(r))
      /\ Puts(x, CallOf(r)) => Somewhere(CallOf(r))'
  BY <1>1, SomewhereGoes
<1> QED
  BY <1>2, <1>3, <1>4, <1>5, <1>6, <1>7

LEMMA ListedStep == ASSUME Inv, NEW t \in Thread, NEW x, Moved(t, x) PROVE Listed'
<1>0. ASSUME \A c \in Core : \A n \in 1 .. Len(requests'[c]) : \A r : r = requests'[c][n] =>
                /\ promiseOf[r] = c /\ ~Somewhere(AppendOf(r))'
                /\ \A m \in 1 .. Len(requests'[c]) : requests'[c][m] = r => m = n
      PROVE  Listed'
  BY <1>0 DEF Listed, Somewhere, Waits, AppendOf, Of
<1> SUFFICES ASSUME NEW c \in Core, NEW n \in 1 .. Len(requests'[c]), NEW r, r = requests'[c][n]
             PROVE  /\ promiseOf[r] = c /\ ~Somewhere(AppendOf(r))'
                    /\ \A m \in 1 .. Len(requests'[c]) : requests'[c][m] = r => m = n
  BY <1>0
<1>1. Listed /\ x \in Tasks /\ Proper(x)
  BY Basics, HeadTask DEF Inv, Attaching
(* One that was there before is not the one that is appended.              *)
<1>2. ASSUME NEW m \in 1 .. Len(requests[c]), x \in On({"append"}, c)
      PROVE  requests[c][m] # x.req
  <2>1. x \in AppendOf(x.req)
    BY <1>1, <1>2 DEF On, AppendOf, Of
  <2> QED
    BY <2>1, Basics, HeadTask, InList, <1>2
<1>3. CASE n \in 1 .. Len(requests[c]) /\ r = requests[c][n]
  <2>1. promiseOf[r] = c /\ r \in Request /\ Attached(r) /\ ~Somewhere(AppendOf(r))
    BY <1>3, InList
  <2>2. ~Puts(x, AppendOf(r))
    BY <2>1, NewRequest
  <2>3. ~Somewhere(AppendOf(r))'
    BY <2>1, <2>2, AppendWaitsAfter
  <2>4. \A m \in 1 .. Len(requests'[c]) : requests'[c][m] = r => m = n
    BY <1>1, <1>2, <1>3, RequestsAre DEF Listed
  <2> QED
    BY <2>1, <2>3, <2>4
<1>4. CASE n = Len(requests[c]) + 1 /\ r = x.req /\ x \in On({"append"}, c)
  <2>1. r \in Request /\ promiseOf[r] = c /\ x \in AppendOf(r)
    BY <1>1, <1>4 DEF Proper, On, AppendOf, Of
  <2>3. ~Somewhere(AppendOf(r))'
    BY <2>1, AppendWaitsAfter
  <2>4. \A m \in 1 .. Len(requests'[c]) : requests'[c][m] = r => m = n
    BY <1>2, <1>4, RequestsAre
  <2> QED
    BY <2>1, <2>3, <2>4
<1> QED
  BY <1>3, <1>4, RequestsAre

LEMMA AttachedAfterStep == ASSUME Inv, NEW t \in Thread, NEW x, Moved(t, x) PROVE AttachedAfter'
<1> SUFFICES ASSUME NEW q \in Request, kind[q] = "promise", (Attached(chainer[q]) \/ Somewhere(AppendOf(chainer[q])))'
             PROVE  calls'[q] >= 1
  BY DEF AttachedAfter
<1> DEFINE r == chainer[q]
<1>1. r \in Request
  BY UseAssumption DEF ChainsAreRight
<1>2. Attached(r)' \/ Somewhere(AppendOf(r))'
  OBVIOUS
<1> HIDE DEF r
<1>3. calls[q] \in Nat /\ (calls[q] > 0 => calls'[q] > 0) /\ (x \in CallOf(q) => calls'[q] = calls[q] + 1) /\ (x \notin CallOf(q) => calls'[q] = calls[q])
  BY CallsAre
<1>4. CASE Attached(r) \/ Somewhere(AppendOf(r))
  <2>1. calls[q] >= 1
    BY <1>4 DEF Inv, Attaching, AttachedAfter, r
  <2> QED
    BY <1>3, <2>1
<1>5. CASE ~(Attached(r) \/ Somewhere(AppendOf(r)))
  <2>1. Puts(x, AppendOf(r))
    BY <1>1, <1>2, <1>5, AttachedIs, AppendWaitsAfter, HeadTask, Basics
  <2>2. x.op = "call" /\ kind[x.req] = "promise" /\ r = chainer[x.req] /\ x.req \in Request /\ x \in Tasks
    BY <2>1, NewRequest, HeadTask, Basics, TheKept
  <2>3. x.req = q
    BY <2>2, UseAssumption DEF ChainsAreRight, r
  <2>4. x \in CallOf(q)
    BY <2>2, <2>3 DEF CallOf, Of
  <2> QED
    BY <1>3, <2>4
<1> QED
  BY <1>4, <1>5

-------------------------------------------------------------------------------
(* A call that is put in the place of a task.                              *)
LEMMA NewCall ==
    ASSUME Inv, NEW t \in Thread, NEW x, Moved(t, x), NEW r \in Kept, Puts(x, CallOf(r))
    PROVE  /\ x.op \in {"attach", "run"} /\ x.core = promiseOf[r] /\ state[x.core] # Pending
           /\ calls[r] = 0 /\ ~Somewhere(CallOf(r))
           /\ x.op = "attach" => x \in AttachOf(r)
           /\ x.op = "run" => Attached(r) /\ Running(t, x.core) /\ x.to = state[x.core]
<1>1. x \in Tasks /\ Proper(x) /\ Typed /\ Shape /\ r \in Request
  BY Basics, HeadTask, TheKept
<1>2. CASE x.op = "attach" /\ x.req = r /\ state[x.core] # Pending
  <2>1. x \in AttachOf(r)
    BY <1>1, <1>2 DEF AttachOf, Of
  <2>2. Somewhere(AttachOf(r))
    BY <1>1, <2>1, HeadTask
  <2> QED
    BY <1>1, <1>2, <2>1, <2>2 DEF Proper, Inv, Calling, CalledLater
<1>3. CASE x.op = "run" /\ \E n \in 1 .. Len(requests[x.core]) : requests[x.core][n] = r
  <2>1. x.core \in Core
    BY <1>1, <1>3 DEF Proper
  <2>2. promiseOf[r] = x.core /\ Attached(r)
    BY <1>3, <2>1, InList
  <2>3. Running(t, x.core) /\ x.core \in Own /\ x = todo[t][1]
    BY <1>1, <1>3, <2>2, HeadTask, TheKept DEF Running
  <2>4. state[x.core] = x.to /\ calls[r] = 0 /\ ~Somewhere(CallOf(r))
    BY <1>3, <2>3 DEF Inv, Settling, RunsAll
  <2>5. x.to # Pending
    BY <1>1, <1>3 DEF Proper, Ends, Pending, Fulfilled, Rejected
  <2> QED
    BY <1>3, <2>2, <2>3, <2>4, <2>5
<1> QED
  BY <1>1, <1>2, <1>3, PutsCall

LEMMA OneCall ==
    ASSUME Inv, NEW t \in Thread, NEW x, Moved(t, x), NEW r \in Kept
    PROVE  \A k, m \in 1 .. Len(After(x)) : After(x)[k] \in CallOf(r) /\ After(x)[m] \in CallOf(r) => k = m
<1> SUFFICES ASSUME NEW k \in 1 .. Len(After(x)), NEW m \in 1 .. Len(After(x)),
                    After(x)[k] \in CallOf(r), After(x)[m] \in CallOf(r)
             PROVE  k = m
  OBVIOUS
<1>1. Puts(x, CallOf(r)) /\ x \in Tasks /\ Proper(x) /\ Typed
  BY Basics, HeadTask DEF Puts
<1>2. CASE x.op = "attach"
  <2>1. After(x) = <<Task("call", x.core, x.req, state[x.core])>>
    BY <1>1, <1>2, NewCall DEF After
  <2>2. Len(After(x)) = 1
    BY <2>1
  <2> QED
    BY <2>2
<1>3. CASE x.op = "run"
  <2> DEFINE L == requests[x.core]
  <2>1. x.core \in Core
    BY <1>1, <1>3 DEF Proper
  <2>2. L \in Seq(Request)
    BY <1>1, <2>1 DEF Typed
  <2>3. After(x) = [i \in DOMAIN L |-> Task("call", x.core, L[i], x.to)]
    BY <1>3 DEF After
  <2>4. DOMAIN L = 1 .. Len(L) /\ Len(L) \in Nat
    <3> HIDE DEF L
    <3> QED
      BY <2>2
  <2>5. Len(After(x)) = Len(L)
    <3>1. DOMAIN After(x) = 1 .. Len(L) /\ After(x) \in Seq(Tasks)
      BY <1>1, <2>3, <2>4, AfterIs DEF Put
    <3> HIDE DEF L
    <3> QED
      BY <2>4, <3>1
  <2>6. After(x)[k].req = L[k] /\ After(x)[m].req = L[m] /\ k \in 1 .. Len(L) /\ m \in 1 .. Len(L)
    BY <2>3, <2>4, <2>5, TaskIn
  <2>7. L[k] = L[m]
    BY <2>6 DEF CallOf, Of
  <2>8. Listed
    BY DEF Inv, Attaching
  <2> QED
    BY <2>1, <2>6, <2>7, <2>8 DEF Listed
<1> QED
  BY <1>1, <1>2, <1>3, NewCall

LEMMA CalledOnceStep == ASSUME Inv, NEW t \in Thread, NEW x, Moved(t, x) PROVE CalledOnce'
<1> SUFFICES ASSUME NEW r \in Kept PROVE Once(CallOf(r))' /\ calls'[r] \in {0, 1}
  BY DEF CalledOnce, CallOf, Of, Kept
<1>1. Typed /\ Shape /\ Once(CallOf(r)) /\ calls[r] \in {0, 1} /\ r \in Request
  BY Basics, TheKept DEF Inv, Calling, CalledOnce
<1>2. ~Somewhere(CallOf(r)) \/ ~Puts(x, CallOf(r))
  BY NewCall
<1>3. Once(CallOf(r))'
  BY <1>1, <1>2, OneCall, OnceStays
<1> QED
  BY <1>1, <1>3, CallsAre

LEMMA CalledLaterStep == ASSUME Inv, NEW t \in Thread, NEW x, Moved(t, x) PROVE CalledLater'
<1> SUFFICES ASSUME NEW r \in Kept, Somewhere(AttachOf(r))' PROVE calls'[r] = 0 /\ ~Somewhere(CallOf(r))'
  BY DEF CalledLater, AttachOf, Of, Kept, CallOf
<1>1. r \in Request /\ Typed /\ Shape
  BY TheKept, Basics
<1>2. CASE Somewhere(AttachOf(r))
  <2>1. calls[r] = 0 /\ ~Somewhere(CallOf(r))
    BY <1>2 DEF Inv, Calling, CalledLater
  <2>2. x \notin CallOf(r) /\ x \notin AttachOf(r)
    BY <1>1, <2>1, HeadTask, AppendWaitsAfter
  <2>3. ~Attached(r)
    BY <1>2, <1>1, TheKept, InList DEF Attached
  <2>4. ~Puts(x, CallOf(r))
    BY <2>2, <2>3, NewCall
  <2> QED
    BY <1>1, <2>1, <2>2, <2>4, CallsAre, AppendWaitsAfter
<1>3. CASE ~Somewhere(AttachOf(r))
  <2>1. Puts(x, AttachOf(r))
    BY <1>3, AppendWaitsAfter
  <2>2. calls[r] = 0 /\ ~Somewhere(CallOf(r)) /\ x \notin CallOf(r) /\ x.op = "call"
    BY <2>1, NewRequest
  <2>3. ~Puts(x, CallOf(r))
    BY <2>2, NewCall
  <2> QED
    BY <1>1, <2>2, <2>3, CallsAre, AppendWaitsAfter
<1> QED
  BY <1>2, <1>3

LEMMA CalledSettledStep == ASSUME Inv, NEW t \in Thread, NEW x, Moved(t, x) PROVE CalledSettled'
<1> SUFFICES ASSUME NEW r \in Kept, state'[promiseOf[r]] = Pending PROVE calls'[r] = 0
  BY DEF CalledSettled, Kept
<1>1. r \in Request /\ promiseOf[r] \in Core /\ Typed /\ Shape /\ x \in Tasks
  BY TheKept, Basics, HeadTask
<1>2. state[promiseOf[r]] = Pending /\ calls[r] = 0
  BY <1>1, StateIs DEF Inv, Calling, CalledSettled
<1>3. x \notin CallOf(r)
  <2> SUFFICES ASSUME x \in CallOf(r) PROVE FALSE
    OBVIOUS
  <2>1. x.op = "call" /\ x.req = r
    BY DEF CallOf, Of
  <2> QED
    BY <1>2, <2>1, CallHead
<1> QED
  BY <1>1, <1>2, <1>3, CallsAre

LEMMA CalledKnownStep == ASSUME Inv, NEW t \in Thread, NEW x, Moved(t, x) PROVE CalledKnown'
<1> SUFFICES ASSUME NEW r \in Kept, calls'[r] > 0 \/ Somewhere(CallOf(r))'
             PROVE  Attached(r)' \/ Somewhere(AppendOf(r))'
  BY DEF CalledKnown, Kept, CallOf, AppendOf, Of
<1>1. r \in Request /\ Typed /\ Shape
  BY TheKept, Basics
<1>2. ASSUME Attached(r) \/ Somewhere(AppendOf(r)) PROVE Attached(r)' \/ Somewhere(AppendOf(r))'
  BY <1>1, <1>2, AttachedIs, AppendWaitsAfter
<1>3. CASE calls[r] > 0 \/ Somewhere(CallOf(r))
  BY <1>2, <1>3 DEF Inv, Calling, CalledKnown
<1>4. CASE ~(calls[r] > 0 \/ Somewhere(CallOf(r)))
  <2>1. x \notin CallOf(r)
    BY <1>1, <1>4, HeadTask
  <2>2. calls'[r] = calls[r]
    BY <1>1, <2>1, CallsAre
  <2>3. Puts(x, CallOf(r))
    BY <1>4, <2>2, AppendWaitsAfter
  <2>4. Attached(r) \/ x \in AttachOf(r)
    BY <2>3, NewCall
  <2>5. x \in AttachOf(r) => Somewhere(AppendOf(r))
    BY <1>1, HeadTask, AttachHasAppend
  <2> QED
    BY <1>2, <2>4, <2>5
<1> QED
  BY <1>3, <1>4

-------------------------------------------------------------------------------
LEMMA CallsHeldStep == ASSUME Inv, NEW t \in Thread, NEW x, Moved(t, x) PROVE CallsHeld'
<1> DEFINE n == Len(After(x))
<1> SUFFICES ASSUME NEW u \in Thread, NEW i \in 1 .. Len(todo'[u]),
                    todo'[u][i].op = "call", todo'[u][i].req \in Kept
             PROVE  CallHeld(u, i)'
  BY DEF CallsHeld, Kept
<1>1. /\ Typed /\ Shape /\ n \in Nat /\ x = todo[t][1] /\ 1 \in 1 .. Len(todo[t])
      /\ x \in Tasks /\ Proper(x) /\ \A v \in Thread : Len(todo[v]) \in Nat
      /\ \/ Fresh(t, x, u, i)
         \/ \E j \in 1 .. Len(todo[u]) : Rest(t, u, j) /\ i = Shift(t, n, u, j) /\ todo'[u][i] = todo[u][j]
  <2>1. Typed /\ Shape
    BY Basics
  <2>3. \A v \in Thread : Len(todo[v]) \in Nat
    BY <2>1 DEF Typed
  <2> QED
    BY <2>1, <2>3, Moves, HeadTask
<1> DEFINE y == todo'[u][i]
           r == y.req
<1>2. r \in Request /\ r \in Kept /\ promiseOf[r] \in Own /\ promiseOf[r] \in Core
  BY TheKept
<1>3. ASSUME y.core = promiseOf[r], y.to = state[y.core], state[y.core] # Pending, calls[r] = 0, x \notin CallOf(r),
             \E k \in 1 .. Len(todo'[u]) : k > i /\ Open(todo'[u], k) /\ todo'[u][k].core = y.core
      PROVE  CallHeld(u, i)'
  <2>1. y.to = state'[y.core] /\ calls'[r] = 0
    BY <1>2, <1>3, StateIs, CallsAre
  <2> QED
    BY <1>3, <2>1 DEF CallHeld
<1> HIDE DEF n
<1>4. CASE Fresh(t, x, u, i)
  <2>1. u = t /\ i \in 1 .. n /\ y = After(x)[i] /\ Born(x, y) /\ y \in Tasks
    BY <1>1, <1>4, HeadTask DEF Fresh, n
  <2>2. Puts(x, CallOf(r))
    BY <2>1 DEF Puts, CallOf, Of, n
  <2> HIDE DEF y
  <2>3. y.op = "call"
    BY DEF y
  <2>4. /\ x.op \in {"attach", "run"} /\ x.core = promiseOf[r] /\ state[x.core] # Pending /\ calls[r] = 0
        /\ x.op = "run" => x.to = state[x.core]
    BY <1>2, <2>2, NewCall
  <2>5. y.core = x.core /\ y.to = state[x.core]
    <3>1. CASE x.op = "attach"
      <4>1. y = Task("call", x.core, x.req, state[x.core])
        BY <2>1, <2>3, <3>1 DEF Born
      <4> QED
        BY <4>1, TaskIn
    <3>2. CASE x.op = "run"
      <4>1. PICK m \in DOMAIN requests[x.core] : y = Task("call", x.core, requests[x.core][m], x.to)
        BY <2>1, <2>3, <3>2 DEF Born
      <4> QED
        BY <2>4, <3>2, <4>1, TaskIn
    <3> QED
      BY <2>4, <3>1, <3>2
  <2>6. x \notin CallOf(r)
    BY <2>4 DEF CallOf, Of
  <2>7. PICK k \in 1 .. Len(todo[t]) : Open(todo[t], k) /\ todo[t][k].core = x.core /\ k # 1
    BY <1>2, <2>4, MutexHead
  <2> DEFINE m == Shift(t, n, t, k)
  <2>8. m \in 1 .. Len(todo'[t]) /\ Open(todo'[t], m) /\ todo'[t][m] = todo[t][k]
    <3>1. Rest(t, t, k)
      BY <2>7 DEF Rest
    <3> QED
      BY <1>1, <2>7, <3>1, OpensStay DEF n
  <2>9. m > i
    <3>1. k \in Nat /\ k >= 2 /\ i \in Nat /\ i <= n
      BY <1>1, <2>1, <2>7
    <3>2. m = (k + n) - 1
      BY DEF Shift
    <3> QED
      BY <1>1, <3>1, <3>2
  <2> HIDE DEF m
  <2>10. \E l \in 1 .. Len(todo'[u]) : l > i /\ Open(todo'[u], l) /\ todo'[u][l].core = y.core
    BY <2>1, <2>5, <2>7, <2>8, <2>9
  <2> QED
    BY <1>3, <2>4, <2>5, <2>6, <2>10 DEF y
<1>5. CASE ~Fresh(t, x, u, i)
  <2>1. PICK j \in 1 .. Len(todo[u]) : Rest(t, u, j) /\ i = Shift(t, n, u, j) /\ y = todo[u][j]
    BY <1>1, <1>5
  <2>2. CallHeld(u, j)
    BY <1>2, <2>1 DEF Inv, Calling, CallsHeld
  <2>3. y \in Tasks /\ y.to \in Ends /\ y \in CallOf(r)
    <3>1. Proper(todo[u][j])
      BY <1>1 DEF Shape, Formed
    <3> QED
      BY <2>1, <3>1 DEF Proper, CallOf, Of
  <2> HIDE DEF y
  <2>4. y.core = promiseOf[r] /\ y.to = state[y.core] /\ calls[r] = 0 /\ state[y.core] # Pending
    BY <2>1, <2>2, <2>3 DEF CallHeld, Ends, Pending, Fulfilled, Rejected
  <2>5. x \notin CallOf(r)
    <3>1. Once(CallOf(r))
      BY <1>2 DEF Inv, Calling, CalledOnce
    <3> QED
      BY <1>1, <2>1, <2>3, <3>1 DEF Once, Rest
  <2>6. PICK k \in 1 .. Len(todo[u]) : k > j /\ Open(todo[u], k) /\ todo[u][k].core = y.core
    BY <2>1, <2>2 DEF CallHeld
  <2>7. j \in Nat /\ k \in Nat /\ Rest(t, u, k)
    <3>1. j \in Nat /\ k \in Nat /\ j >= 1 /\ k # 1
      BY <1>1, <2>6
    <3> QED
      BY <3>1 DEF Rest
  <2> DEFINE m == Shift(t, n, u, k)
  <2>8. m \in 1 .. Len(todo'[u]) /\ Open(todo'[u], m) /\ todo'[u][m] = todo[u][k]
    BY <1>1, <2>6, <2>7, OpensStay DEF n
  <2>9. m > i
    <3>1. CASE u = t
      <4>1. m = (k + n) - 1 /\ i = (j + n) - 1
        BY <2>1, <3>1 DEF Shift
      <4> QED
        BY <1>1, <2>6, <2>7, <4>1
    <3>2. CASE u # t
      <4>1. m = k /\ i = j
        BY <2>1, <3>2 DEF Shift
      <4> QED
        BY <2>6, <4>1
    <3> QED
      BY <3>1, <3>2
  <2> HIDE DEF m
  <2>10. \E l \in 1 .. Len(todo'[u]) : l > i /\ Open(todo'[u], l) /\ todo'[u][l].core = y.core
    BY <2>6, <2>8, <2>9
  <2> QED
    BY <1>3, <2>4, <2>5, <2>10 DEF y
<1> QED
  BY <1>4, <1>5

-------------------------------------------------------------------------------
(* A continuation of a core whose continuations a thread runs.             *)
LEMMA RunningIs ==
    ASSUME Inv, NEW u \in Thread, NEW c \in Own, Running(u, c)
    PROVE  mtx[c] = u /\ state[c] # Pending
<1>1. HeadIs(u, {"settle", "run"}, c)
  BY DEF Running, HeadIs
<1>2. mtx[c] = u
  BY <1>1, Basics, HeadHolds
<1>3. state[c] = todo[u][1].to
  BY DEF Inv, Settling, RunsAll
<1>4. todo[u][1].to \in Ends
  BY Basics DEF Running, HeadIs, Shape, Formed, Proper
<1> QED
  BY <1>2, <1>3, <1>4 DEF Ends, Pending, Fulfilled, Rejected

LEMMA HeadStays ==
    ASSUME Typed, Shape, NEW t \in Thread, NEW x, Moved(t, x), NEW u \in Thread, u # t
    PROVE  todo'[u] = todo[u]
  BY DEF Moved, Typed

(* A thread begins to run the continuations when it has settled the core.  *)
LEMMA RunsNext ==
    ASSUME Inv, NEW t \in Thread, NEW x, Moved(t, x), NEW u \in Thread, NEW c \in Own, Running(u, c)'
    PROVE  \/ u # t /\ Running(u, c) /\ todo'[u][1] = todo[u][1]
           \/ u = t /\ x \in On({"settle"}, c) /\ todo'[u][1].to = x.to
<1>1. 1 \in 1 .. Len(todo'[u]) /\ todo'[u][1].op = "run" /\ todo'[u][1].core = c /\ Typed /\ Shape
  BY Basics DEF Running, HeadIs
<1>2. CASE u # t
  BY <1>1, <1>2, HeadStays DEF Running, HeadIs
<1>3. CASE u = t /\ 1 \in 1 .. Len(After(x)) /\ todo'[u][1] = After(x)[1]
  <2>1. Put(x, After(x))
    BY <1>1, Moves
  <2>2. Later(After(x)[1])
    BY <1>1, <1>3 DEF Later
  <2>3. 1 >= 2
    BY <1>3, <2>1, <2>2 DEF Put
  <2> QED
    BY <2>3
<1>4. CASE u = t /\ 2 \in 1 .. Len(todo[u]) /\ todo'[u][1] = todo[u][2] /\ Follows(x, todo[u][2])
  <2>1. x.op = "settle" /\ x.core = c /\ x \in Tasks
    BY <1>1, <1>4, HeadTask DEF Follows
  <2>2. todo'[u][1] = Task("run", x.core, Null, x.to)
    BY <1>4, <2>1 DEF Follows
  <2> QED
    BY <1>4, <2>1, <2>2, TaskIn DEF On
<1> QED
  BY <1>1, <1>2, <1>3, <1>4, NewHead

LEMMA RunsAllStep == ASSUME Inv, NEW t \in Thread, NEW x, Moved(t, x) PROVE RunsAll'
<1>0. ASSUME \A c \in Own : \A u \in Thread : Running(u, c)' =>
                /\ state'[c] = todo'[u][1].to
                /\ \A n \in 1 .. Len(requests'[c]) : \A r : r = requests'[c][n] =>
                     calls'[r] = 0 /\ ~Somewhere(CallOf(r))'
      PROVE  RunsAll'
  BY <1>0 DEF RunsAll, Somewhere, Waits, CallOf, Of
<1> SUFFICES ASSUME NEW c \in Own, NEW u \in Thread, Running(u, c)'
             PROVE  /\ state'[c] = todo'[u][1].to
                    /\ \A n \in 1 .. Len(requests'[c]) : \A r : r = requests'[c][n] =>
                          calls'[r] = 0 /\ ~Somewhere(CallOf(r))'
  BY <1>0
<1>1. c \in Core /\ Typed /\ Shape /\ x \in Tasks
  BY Basics, HeadTask DEF Own
(* One that is not called, and its thread does not go on to call it.       *)
<1>2. ASSUME NEW r \in Kept, calls[r] = 0, ~Somewhere(CallOf(r)), ~Puts(x, CallOf(r))
      PROVE  calls'[r] = 0 /\ ~Somewhere(CallOf(r))'
  BY <1>1, <1>2, CallsAre, TheKept, HeadTask, AppendWaitsAfter
<1>3. CASE u # t /\ Running(u, c) /\ todo'[u][1] = todo[u][1]
  <2>1. mtx[c] = u /\ state[c] # Pending /\ state[c] = todo[u][1].to
    BY <1>3, RunningIs DEF Inv, Settling, RunsAll
  <2>2. state'[c] = state[c]
    BY <1>1, <2>1, StateIs
  <2>3. x.op \in {"attach", "append", "run"} => x.core # c
    BY <1>3, <2>1, MutexHead
  <2>4. requests'[c] = requests[c]
    BY <1>1, <2>3, RequestsAre DEF On
  <2>5. ASSUME NEW n \in 1 .. Len(requests[c]), NEW r, r = requests[c][n]
        PROVE  calls'[r] = 0 /\ ~Somewhere(CallOf(r))'
    <3>1. promiseOf[r] = c /\ r \in Kept
      BY <1>1, <2>5, InList DEF Kept
    <3>2. calls[r] = 0 /\ ~Somewhere(CallOf(r))
      BY <1>3, <2>5 DEF Inv, Settling, RunsAll
    <3>3. ~Puts(x, CallOf(r))
      BY <2>3, <3>1, NewCall
    <3> QED
      BY <1>2, <3>1, <3>2, <3>3
  <2> QED
    BY <1>3, <2>1, <2>2, <2>4, <2>5
<1>4. CASE u = t /\ x \in On({"settle"}, c) /\ todo'[u][1].to = x.to
  <2>1. state[c] = Pending /\ state'[c] = x.to /\ x.op = "settle" /\ x.core = c
    BY <1>1, <1>4, SettleHead, StateIs DEF On
  <2>2. requests'[c] = requests[c]
    BY <1>1, <2>1, RequestsAre DEF On
  <2>3. ASSUME NEW n \in 1 .. Len(requests[c]), NEW r, r = requests[c][n]
        PROVE  calls'[r] = 0 /\ ~Somewhere(CallOf(r))'
    <3>1. promiseOf[r] = c /\ r \in Kept
      BY <1>1, <2>3, InList DEF Kept
    <3>2. calls[r] = 0
      BY <2>1, <3>1 DEF Inv, Calling, CalledSettled
    <3>3. ~Somewhere(CallOf(r))
      <4> SUFFICES ASSUME Somewhere(CallOf(r)) PROVE FALSE
        OBVIOUS
      <4>0. PICK v \in Thread : \E i \in 1 .. Len(todo[v]) : todo[v][i] \in CallOf(r)
        BY DEF Somewhere, Waits
      <4>1. PICK i \in 1 .. Len(todo[v]) : todo[v][i] \in CallOf(r)
        BY <4>0
      <4>2. CallHeld(v, i) /\ todo[v][i].req = r /\ todo[v][i].op = "call"
        BY <3>1, <4>1 DEF Inv, Calling, CallsHeld, CallOf, Of
      <4>3. todo[v][i].to = Pending
        BY <2>1, <3>1, <4>2 DEF CallHeld
      <4>4. todo[v][i].to \in Ends
        BY <1>1, <4>2 DEF Shape, Formed, Proper
      <4> QED
        BY <4>3, <4>4 DEF Ends, Pending, Fulfilled, Rejected
    <3>4. ~Puts(x, CallOf(r))
      BY <2>1, <3>1, NewCall
    <3> QED
      BY <1>2, <3>1, <3>2, <3>3, <3>4
  <2> QED
    BY <1>4, <2>1, <2>2, <2>3
<1> QED
  BY <1>3, <1>4, RunsNext

-------------------------------------------------------------------------------
LEMMA NoneLostStep == ASSUME Inv, NEW t \in Thread, NEW x, Moved(t, x) PROVE NoneLost'
<1>0. ASSUME \A c \in Own : state'[c] # Pending => \A n \in 1 .. Len(requests'[c]) : \A r : r = requests'[c][n] =>
                calls'[r] = 1 \/ Somewhere(CallOf(r))' \/ \E u \in Thread : Running(u, c)'
      PROVE  NoneLost'
  BY <1>0 DEF NoneLost, Somewhere, Waits, CallOf, Of
<1> SUFFICES ASSUME NEW c \in Own, state'[c] # Pending, NEW n \in 1 .. Len(requests'[c]), NEW r, r = requests'[c][n]
             PROVE  calls'[r] = 1 \/ Somewhere(CallOf(r))' \/ \E u \in Thread : Running(u, c)'
  BY <1>0
<1>1. c \in Core /\ Typed /\ Shape /\ x \in Tasks /\ Proper(x)
  BY Basics, HeadTask DEF Own
<1>2. CASE state[c] = Pending
  <2>1. x.op = "settle" /\ x.core = c
    BY <1>1, <1>2, StateIs DEF On
  <2>2. After(x) = <<>> /\ Continues(x)
    BY <2>1 DEF After, Continues
  <2>3. 1 \in 1 .. Len(todo'[t]) /\ todo'[t][1] = todo[t][2] /\ Follows(x, todo[t][2])
    BY <1>1, <2>2, SecondFirst
  <2>4. todo'[t][1] = Task("run", c, Null, x.to)
    BY <2>1, <2>3 DEF Follows
  <2>5. Running(t, c)'
    BY <2>3, <2>4, TaskIn DEF Running, HeadIs
  <2> QED
    BY <2>5
<1>3. CASE state[c] # Pending
  <2>1. ASSUME NEW q \in Kept, calls[q] = 1 \/ Somewhere(CallOf(q)) PROVE calls'[q] = 1 \/ Somewhere(CallOf(q))'
    BY <2>1, TheKept, CallsAre, AppendWaitsAfter
  <2>2. CASE n \in 1 .. Len(requests[c]) /\ r = requests[c][n]
    <3>1. r \in Kept
      BY <1>1, <2>2, InList DEF Kept
    <3>2. CASE calls[r] = 1 \/ Somewhere(CallOf(r))
      BY <2>1, <3>1, <3>2
    <3>3. ASSUME NEW u \in Thread, Running(u, c), u # t PROVE Running(u, c)'
      BY <1>1, <3>3, HeadStays DEF Running, HeadIs
    <3>4. CASE Running(t, c)
      <4>1. x.op = "run" /\ x.core = c
        BY <1>1, <3>4, HeadTask DEF Running, HeadIs
      <4> DEFINE L == requests[c]
      <4>2. L \in Seq(Request)
        BY <1>1 DEF Typed
      <4>3. After(x) = [i \in DOMAIN L |-> Task("call", c, L[i], x.to)]
        BY <4>1 DEF After
      <4>4. DOMAIN L = 1 .. Len(L) /\ Len(L) \in Nat
        <5> HIDE DEF L
        <5> QED
          BY <4>2
      <4>5. Len(After(x)) = Len(L)
        <5>1. DOMAIN After(x) = 1 .. Len(L) /\ After(x) \in Seq(Tasks)
          BY <1>1, <4>3, <4>4, AfterIs DEF Put
        <5> HIDE DEF L
        <5> QED
          BY <4>4, <5>1
      <4>6. n \in 1 .. Len(After(x)) /\ After(x)[n] = Task("call", c, r, x.to)
        BY <2>2, <4>3, <4>4, <4>5
      <4>7. After(x)[n] \in CallOf(r)
        BY <1>1, <4>6, HeadTask, TaskIn DEF CallOf, Of
      <4>8. Puts(x, CallOf(r))
        BY <4>6, <4>7 DEF Puts
      <4> QED
        BY <4>8, AppendWaitsAfter
    <3> QED
      BY <1>3, <2>2, <3>2, <3>3, <3>4 DEF Inv, Settling, NoneLost
  <2>3. CASE r = x.req /\ x \in On({"append"}, c)
    <3>1. x \in AppendOf(r) /\ r \in Kept /\ r \in Request /\ promiseOf[r] = c
      BY <1>1, <2>3 DEF On, AppendOf, Of, Proper, Kept
    <3>2. ~Somewhere(AttachOf(r))
      <4> SUFFICES ASSUME Somewhere(AttachOf(r)) PROVE FALSE
        OBVIOUS
      <4>1. PICK v \in Thread : \E j \in 1 .. Len(todo[v]) : todo[v][j] \in AttachOf(r)
        BY DEF Somewhere, Waits
      <4>2. PICK j \in 1 .. Len(todo[v]) : todo[v][j] \in AttachOf(r)
        BY <4>1
      <4>3. j + 1 \in 1 .. Len(todo[v]) /\ todo[v][j + 1] \in AppendOf(r)
        BY <1>1, <4>2, AttachThenAppend
      <4>4. Once(AppendOf(r))
        BY <3>1 DEF Inv, Attaching, AttachedOnce
      <4>5. j + 1 = 1
        BY <1>1, <3>1, <4>3, <4>4, OnceGone
      <4> QED
        BY <4>2, <4>5
    <3>3. calls[r] = 1 \/ Somewhere(CallOf(r))
      BY <1>1, <1>3, <3>1, <3>2, HeadTask DEF Inv, Settling, Decided
    <3> QED
      BY <2>1, <3>1, <3>3
  <2> QED
    BY <1>1, <2>2, <2>3, RequestsAre
<1> QED
  BY <1>2, <1>3

LEMMA DecidedStep == ASSUME Inv, NEW t \in Thread, NEW x, Moved(t, x) PROVE Decided'
<1> SUFFICES ASSUME NEW r \in Kept, Somewhere(AppendOf(r))', ~Somewhere(AttachOf(r))'
             PROVE  \/ calls'[r] = 1
                    \/ Somewhere(CallOf(r))'
                    \/ state'[promiseOf[r]] = Pending /\ \E u \in Thread : AppendWaits(u, r)'
  BY DEF Decided, Kept, AppendOf, AttachOf, CallOf, Of
<1>1. r \in Request /\ promiseOf[r] \in Own /\ promiseOf[r] \in Core /\ Typed /\ Shape /\ x \in Tasks /\ Proper(x)
      /\ x = todo[t][1] /\ 1 \in 1 .. Len(todo[t])
  BY TheKept, Basics, HeadTask
<1>2. Somewhere(AppendOf(r)) /\ x \notin AppendOf(r)
  BY <1>1, AppendWaitsAfter
<1>3. CASE Somewhere(AttachOf(r))
  <2>1. x \in AttachOf(r)
    BY <1>3, AppendWaitsAfter
  <2>2. x.op = "attach" /\ x.req = r /\ x.core = promiseOf[r]
    BY <1>1, <2>1 DEF AttachOf, Of, Proper
  <2>3. CASE state[x.core] = Pending
    <3>1. After(x) = <<>> /\ Continues(x)
      BY <2>2, <2>3 DEF After, Continues
    <3>2. 1 \in 1 .. Len(todo'[t]) /\ todo'[t][1] = todo[t][2] /\ Follows(x, todo[t][2])
      BY <1>1, <3>1, SecondFirst
    <3>3. todo'[t][1] = Task("append", promiseOf[r], r, Null)
      BY <2>2, <3>2 DEF Follows
    <3>4. todo'[t][1] \in AppendOf(r)
      BY <1>1, <3>3, TaskIn DEF AppendOf, Of
    <3>5. state'[promiseOf[r]] = Pending
      BY <1>1, <2>2, <2>3, StateIs DEF On
    <3> QED
      BY <3>2, <3>4, <3>5 DEF AppendWaits
  <2>4. CASE state[x.core] # Pending
    <3> DEFINE y == Task("call", x.core, x.req, state[x.core])
    <3>1. After(x) = <<y>>
      BY <2>2, <2>4 DEF After
    <3>2. y \in CallOf(r)
      <4>1. y \in Tasks
        <5>1. 1 \in 1 .. Len(After(x)) /\ After(x)[1] = y
          <6> HIDE DEF y
          <6>1. Len(<<y>>) = 1 /\ <<y>>[1] = y /\ 1 \in 1 .. 1
            OBVIOUS
          <6> QED
            BY <3>1, <6>1
        <5> QED
          BY <1>1, <5>1, HeadTask
      <4> QED
        BY <2>2, <4>1, TaskIn DEF CallOf, Of
    <3> HIDE DEF y
    <3>3. Len(<<y>>) = 1 /\ <<y>>[1] = y /\ 1 \in 1 .. 1
      OBVIOUS
    <3>4. Puts(x, CallOf(r))
      BY <3>1, <3>2, <3>3 DEF Puts
    <3> QED
      BY <3>4, AppendWaitsAfter
  <2> QED
    BY <2>3, <2>4
<1>4. CASE ~Somewhere(AttachOf(r))
  <2>1. \/ calls[r] = 1
        \/ Somewhere(CallOf(r))
        \/ state[promiseOf[r]] = Pending /\ \E u \in Thread : AppendWaits(u, r)
    BY <1>2, <1>4 DEF Inv, Settling, Decided
  <2>2. CASE calls[r] = 1 \/ Somewhere(CallOf(r))
    BY <1>1, <2>2, CallsAre, AppendWaitsAfter
  <2>3. ASSUME NEW u \in Thread, AppendWaits(u, r), state[promiseOf[r]] = Pending
        PROVE  state'[promiseOf[r]] = Pending /\ AppendWaits(u, r)'
    <3>1. u # t
      BY <1>1, <1>2, <2>3 DEF AppendWaits
    <3>2. AppendWaits(u, r)'
      BY <1>1, <2>3, <3>1, HeadStays DEF AppendWaits
    <3>3. HeadIs(u, {"attach", "append", "unlock"}, promiseOf[r])
      BY <1>1, <2>3 DEF AppendWaits, AppendOf, Of, HeadIs, Shape, Formed, Proper
    <3>4. mtx[promiseOf[r]] = u
      BY <3>3, Basics, HeadHolds
    <3>5. x \notin On({"settle"}, promiseOf[r])
      BY <1>1, <3>1, <3>4, SettleHead DEF On
    <3> QED
      BY <1>1, <2>3, <3>2, <3>5, StateIs
  <2> QED
    BY <2>1, <2>2, <2>3
<1> QED
  BY <1>3, <1>4

-------------------------------------------------------------------------------
LEMMA UnsettledWorks ==
    ASSUME Typed, Shape, NEW u \in Thread, NEW c \in Own,
           HeadIs(u, {"settle"}, c) \/ (HeadIs(u, {"lock"}, c) /\ todo[u][1].req = Null)
    PROVE  Work(u, c)
<1>1. 1 \in 1 .. Len(todo[u]) /\ todo[u][1].core = c /\ todo[u] \in Seq(Tasks)
  BY DEF HeadIs, Typed
<1>2. CASE todo[u][1].op = "settle"
  BY <1>1, <1>2 DEF Work, Waits, On, Works
<1>3. CASE todo[u][1].op = "lock" /\ todo[u][1].req = Null
  <2>1. 2 \in 1 .. Len(todo[u]) /\ Follows(todo[u][1], todo[u][2])
    BY <1>1, <1>3, HeadFollows DEF Continues
  <2>2. todo[u][2] = Task("settle", c, Null, todo[u][1].to) /\ todo[u][2] \in Tasks
    BY <1>1, <1>3, <2>1 DEF Follows
  <2>3. todo[u][2] \in On(Works, c)
    BY <2>2, TaskIn DEF On, Works
  <2> QED
    BY <2>1, <2>3 DEF Work, Waits
<1> QED
  BY <1>2, <1>3 DEF HeadIs

LEMMA UnsettledStep == ASSUME Inv, NEW t \in Thread, NEW x, Moved(t, x) PROVE Unsettled'
<1> SUFFICES ASSUME NEW c \in Own, NEW u \in Thread,
                    HeadIs(u, {"settle"}, c)' \/ (HeadIs(u, {"lock"}, c)' /\ todo'[u][1].req = Null)
             PROVE  state'[c] = Pending
  BY DEF Unsettled, HeadIs
<1> DEFINE y == todo'[u][1]
<1>1. /\ 1 \in 1 .. Len(todo'[u]) /\ y.core = c /\ (y.op = "settle" \/ (y.op = "lock" /\ y.req = Null))
      /\ c \in Core /\ Typed /\ Shape /\ Unsettled /\ OneWorks
  BY Basics DEF HeadIs, Own, Inv, Working
<1>2. CASE u # t /\ 1 \in 1 .. Len(todo[u]) /\ y = todo[u][1]
  <2>1. HeadIs(u, {"settle"}, c) \/ (HeadIs(u, {"lock"}, c) /\ todo[u][1].req = Null)
    BY <1>1, <1>2 DEF HeadIs
  <2>2. state[c] = Pending /\ Work(u, c)
    BY <1>1, <2>1, UnsettledWorks DEF Unsettled
  <2>3. x \notin On({"settle"}, c)
    <3>1. x \in On({"settle"}, c) => x \in On(Works, c)
      BY DEF On, Works
    <3>2. x \in On(Works, c) => Work(t, c)
      BY <1>1, HeadTask DEF Work
    <3> QED
      BY <1>1, <1>2, <2>2, <3>1, <3>2 DEF OneWorks
  <2> QED
    BY <1>1, <2>2, <2>3, StateIs
<1>3. CASE u = t /\ 1 \in 1 .. Len(After(x)) /\ y = After(x)[1]
  <2>1. Put(x, After(x))
    BY <1>1, Moves
  <2>2. Later(After(x)[1])
    BY <1>1, <1>3 DEF Later
  <2>3. 1 >= 2
    BY <1>3, <2>1, <2>2 DEF Put
  <2> QED
    BY <2>3
<1>4. CASE u = t /\ 2 \in 1 .. Len(todo[u]) /\ y = todo[u][2] /\ Follows(x, todo[u][2])
  <2>0. x = todo[t][1] /\ 1 \in 1 .. Len(todo[t])
    BY <1>1, HeadTask
  <2>1. Follows(x, y)
    BY <1>4
  <2> HIDE DEF y
  <2>2. CASE y.op = "settle"
    <3>1. x.op = "lock"
      BY <1>1, <2>1, <2>2 DEF Follows
    <3>2. x.req = Null /\ x.core = c
      BY <1>1, <2>1, <2>2, <3>1, TaskIn DEF Follows
    <3>3. state[c] = Pending
      BY <1>1, <2>0, <3>1, <3>2 DEF Unsettled, HeadIs
    <3> QED
      BY <1>1, <3>1, <3>3, StateIs DEF On
  <2>3. CASE y.op = "lock" /\ y.req = Null
    <3>1. x.op = "check"
      BY <2>1, <2>3 DEF Follows
    <3>2. x.core = c
      BY <1>1, <2>1, <3>1, TaskIn DEF Follows
    <3>3. state[c] = Pending
      BY <3>1, <3>2 DEF Moved, Effect
    <3> QED
      BY <1>1, <3>1, <3>3, StateIs DEF On
  <2> QED
    BY <1>1, <2>2, <2>3
<1> QED
  BY <1>1, <1>2, <1>3, <1>4, NewHead

(* Work that comes to a core comes to the thread that already has it.      *)
LEMMA NewWork ==
    ASSUME Inv, NEW t \in Thread, NEW x, Moved(t, x), NEW u \in Thread, NEW c \in Own, Work(u, c)'
    PROVE  \/ Work(u, c)
           \/ /\ u = t /\ x.op = "call" /\ x.req \in Request /\ IsJoin(x.req) /\ chain[x.req] = c
              /\ x \in CallOf(x.req) /\ calls[x.req] = 0
              /\ \A v \in Thread : Work(v, c) => v = t
<1>1. Typed /\ Shape /\ x \in Tasks
  BY Basics, HeadTask
<1>2. Work(u, c) \/ (u = t /\ Puts(x, On(Works, c)))
  BY <1>1, Comes DEF Work
<1>3. ASSUME u = t, Puts(x, On(Works, c)), ~Work(t, c)
      PROVE  /\ x.op = "call" /\ x.req \in Request /\ IsJoin(x.req) /\ chain[x.req] = c
             /\ x \in CallOf(x.req) /\ calls[x.req] = 0
             /\ \A v \in Thread : Work(v, c) => v = t
  <2>1. Puts(x, On(Works \cup {"run"}, c))
    BY <1>3 DEF Puts, On
  <2>2. x \notin On(Works, c)
    BY <1>1, <1>3, HeadTask DEF Work
  <2>3. x.op = "call" /\ x.req \in Request /\ IsJoin(x.req) /\ chain[x.req] = c
    BY <1>1, <2>1, <2>2, PutsWork
  <2>4. x.req \in Kept /\ x \in CallOf(x.req)
    BY <1>1, <2>3, TheKept DEF CallOf, Of
  <2>5. calls[x.req] = 0
    BY <2>3, <2>4, CallHead
  <2>6. ASSUME NEW v \in Thread, Work(v, c) PROVE v = t
    <3>1. resolver[c] # Null
      BY <2>3, <2>5, <2>6 DEF Inv, Working, WorksOnce
    <3>2. Waits(v, On(Works \cup {"run"}, c))
      BY <2>6 DEF Work, Waits, On
    <3>3. resolver[c] = v
      BY <3>1, <3>2 DEF Inv, Working, ResolverWorks
    <3>4. x \in Of({"call", "attach"}, x.req)
      BY <1>1, <2>3 DEF Of
    <3>5. resolver[c] = t
      BY <1>1, <2>3, <3>1, <3>4, HeadTask DEF Inv, Working, ResolverCalls
    <3> QED
      BY <3>3, <3>5
  <2> QED
    BY <2>3, <2>4, <2>5, <2>6
<1> QED
  BY <1>2, <1>3

LEMMA OneWorksStep == ASSUME Inv, NEW t \in Thread, NEW x, Moved(t, x) PROVE OneWorks'
<1> SUFFICES ASSUME NEW c \in Own, NEW u \in Thread, NEW v \in Thread, Work(u, c)', Work(v, c)'
             PROVE  u = v
  BY DEF OneWorks, Own, Chains
<1>1. Work(u, c) /\ Work(v, c) => u = v
  BY DEF Inv, Working, OneWorks
<1> QED
  BY <1>1, NewWork

LEMMA WorksOnceStep == ASSUME Inv, NEW t \in Thread, NEW x, Moved(t, x) PROVE WorksOnce'
<1> SUFFICES ASSUME NEW r \in Request, NEW u \in Thread, IsJoin(r), resolver[chain[r]] = Null, Work(u, chain[r])'
             PROVE  calls'[r] = 1
  BY DEF WorksOnce, Work, On
<1>1. r \in Kept /\ chain[r] \in Own
  BY TheKept
<1>2. CASE Work(u, chain[r])
  <2>1. calls[r] = 1
    BY <1>2 DEF Inv, Working, WorksOnce
  <2> QED
    BY <1>1, <2>1, CallsAre
<1>3. CASE ~Work(u, chain[r])
  <2>1. x.req \in JoinsOf(chain[r]) /\ x \in CallOf(x.req)
    BY <1>1, <1>3, NewWork DEF JoinsOf
  <2>2. JoinsOf(chain[r]) = {r}
    BY UseAssumption DEF JoinsAreRight
  <2>3. x \in CallOf(r)
    BY <2>1, <2>2
  <2> QED
    BY <1>1, <2>3, CallsAre
<1> QED
  BY <1>2, <1>3

LEMMA ResolverWorksStep == ASSUME Inv, NEW t \in Thread, NEW x, Moved(t, x) PROVE ResolverWorks'
<1> SUFFICES ASSUME NEW u \in Thread, NEW c \in Own, Waits(u, On(Works \cup {"run"}, c))'
             PROVE  resolver[c] \in {u, Null}
  BY DEF ResolverWorks, On, Own, Chains
<1>1. Typed /\ Shape /\ x \in Tasks
  BY Basics, HeadTask
<1>2. CASE Waits(u, On(Works \cup {"run"}, c))
  BY <1>2 DEF Inv, Working, ResolverWorks
<1>3. CASE u = t /\ Puts(x, On(Works \cup {"run"}, c))
  <2>1. CASE x \in On(Works, c)
    <3>1. x \in On(Works \cup {"run"}, c)
      BY <2>1 DEF On
    <3> QED
      BY <1>1, <1>3, <3>1, HeadTask DEF Inv, Working, ResolverWorks
  <2>2. CASE x.op = "call" /\ x.req \in Request /\ IsJoin(x.req) /\ chain[x.req] = c
    <3>1. x \in Of({"call", "attach"}, x.req)
      BY <1>1, <2>2 DEF Of
    <3> QED
      BY <1>1, <1>3, <2>2, <3>1, HeadTask DEF Inv, Working, ResolverCalls
  <2> QED
    BY <1>1, <1>3, <2>1, <2>2, PutsWork
<1> QED
  BY <1>1, <1>2, <1>3, Comes

LEMMA ResolverCallsStep == ASSUME Inv, NEW t \in Thread, NEW x, Moved(t, x) PROVE ResolverCalls'
<1> SUFFICES ASSUME NEW u \in Thread, NEW r \in Request, IsJoin(r), Waits(u, Of({"call", "attach"}, r))'
             PROVE  resolver[chain[r]] \in {u, Null}
  BY DEF ResolverCalls, Of
<1>1. Typed /\ Shape /\ x \in Tasks /\ r \in Kept
  BY Basics, HeadTask, TheKept
<1>2. CASE Waits(u, Of({"call", "attach"}, r))
  BY <1>2 DEF Inv, Working, ResolverCalls
<1>3. CASE u = t /\ Puts(x, Of({"call", "attach"}, r))
  <2>1. Puts(x, CallOf(r)) \/ Puts(x, AttachOf(r))
    BY <1>3 DEF Puts, Of, CallOf, AttachOf
  <2>2. Puts(x, CallOf(r))
    BY <2>1, NewRequest
  <2>3. CASE x \in AttachOf(r)
    <3>1. x \in Of({"call", "attach"}, r)
      BY <2>3 DEF Of, AttachOf
    <3> QED
      BY <1>1, <1>3, <3>1, HeadTask DEF Inv, Working, ResolverCalls
  <2>4. CASE x.op = "run" /\ x.core = promiseOf[r]
    <3>1. x \in On(Works \cup {"run"}, promiseOf[r]) /\ promiseOf[r] \in Own
      BY <1>1, <2>4, TheKept DEF On
    <3>2. resolver[promiseOf[r]] \in {t, Null}
      BY <1>1, <3>1, HeadTask DEF Inv, Working, ResolverWorks
    <3>3. resolver[chain[r]] = Null \/ resolver[promiseOf[r]] = resolver[chain[r]]
      BY UseAssumption DEF JoinsAreRight
    <3> QED
      BY <1>3, <3>2, <3>3
  <2> QED
    BY <1>1, <2>2, <2>3, <2>4, NewCall
<1> QED
  BY <1>1, <1>2, <1>3, Comes

-------------------------------------------------------------------------------
(* Before the first step.                                                  *)
LEMMA AtFirst ==
    ASSUME Init
    PROVE  /\ todo \in Scripts /\ Typed /\ Shape /\ Safe
           /\ \A u \in Thread : \A i \in 1 .. Len(todo[u]) :
                 /\ todo[u][i] \in Tasks /\ todo[u][i].op \in ScriptOps
                 /\ todo[u][i].op = "settle" => ResolvedBy(u, todo[u][i]) /\ todo[u][i].core \in Own
                 /\ todo[u][i].op = "attach" =>
                       /\ AttachedBy(u, todo[u][i])
                       /\ \A v \in Thread : \A j \in 1 .. Len(todo[v]) :
                             todo[v][j].op = "attach" /\ todo[v][j].req = todo[u][i].req => v = u /\ i = j
           /\ \A u \in Thread : 1 \in 1 .. Len(todo[u]) => todo[u][1].op \in {"check", "lock"}
<1>1. todo \in Scripts /\ Typed /\ Shape /\ Safe
  BY TypedInit DEF Init, Safe
<1>2. ASSUME NEW u \in Thread, NEW i \in 1 .. Len(todo[u])
      PROVE  /\ todo[u][i] \in Tasks /\ todo[u][i].op \in ScriptOps
             /\ todo[u][i].op \in {"settle", "run"} => todo[u][i].core \in Own
  <2>1. todo[u] \in Seq(Tasks)
    BY <1>1 DEF Typed
  <2> QED
    BY <1>1, <2>1, ScriptIs
<1>3. \A u \in Thread : DOMAIN todo[u] = 1 .. Len(todo[u]) /\ (1 \in 1 .. Len(todo[u]) => todo[u] # <<>>)
  <2> SUFFICES ASSUME NEW u \in Thread
               PROVE  DOMAIN todo[u] = 1 .. Len(todo[u]) /\ (1 \in 1 .. Len(todo[u]) => todo[u] # <<>>)
    OBVIOUS
  <2> DEFINE s == todo[u]
  <2>1. s \in Seq(Tasks)
    BY <1>1 DEF Typed
  <2> HIDE DEF s
  <2>2. DOMAIN s = 1 .. Len(s) /\ Len(<<>>) = 0 /\ 1 \notin 1 .. 0
    BY <2>1
  <2> QED
    BY <2>2 DEF s
<1>4. \A u \in Thread : 1 \in 1 .. Len(todo[u]) => todo[u][1].op \in {"check", "lock"}
  BY <1>1, <1>3, ScriptIs
<1>5. \A u \in Thread : \A i \in 1 .. Len(todo[u]) :
         /\ todo[u][i].op = "settle" => ResolvedBy(u, todo[u][i])
         /\ todo[u][i].op = "attach" =>
               /\ AttachedBy(u, todo[u][i])
               /\ \A v \in Thread : \A j \in 1 .. Len(todo[v]) :
                     todo[v][j].op = "attach" /\ todo[v][j].req = todo[u][i].req => v = u /\ i = j
  BY <1>1, <1>3, UseAssumption DEF ScriptsAreRight
<1> QED
  BY <1>1, <1>2, <1>4, <1>5

(* A task that has one before it.                                          *)
LEMMA Before ==
    ASSUME Init, NEW u \in Thread, NEW i \in 1 .. Len(todo[u]), todo[u][i].op \in {"append", "run"}
    PROVE  i - 1 \in 1 .. Len(todo[u]) /\ Follows(todo[u][i - 1], todo[u][i])
<1>1. Typed /\ Shape /\ todo[u] \in Seq(Tasks) /\ Len(todo[u]) \in Nat
  BY AtFirst DEF Typed
<1>2. i # 1
  BY AtFirst
<1> DEFINE n == Len(todo[u])
           k == i - 1
<1>3. n \in Nat
  BY <1>1
<1> HIDE DEF n
<1>4. k \in 1 .. n - 1 /\ k \in 1 .. n /\ k + 1 = i
  <2>1. i \in 1 .. n
    BY DEF n
  <2> QED
    BY <1>2, <1>3, <2>1
<1> HIDE DEF k
<1>5. Follows(todo[u][k], todo[u][k + 1])
  BY <1>1, <1>4 DEF Shape, Formed, n
<1> QED
  BY <1>4, <1>5 DEF n, k

LEMMA AttachBefore ==
    ASSUME Init, NEW u \in Thread, NEW r, NEW i \in 1 .. Len(todo[u]), todo[u][i] \in AppendOf(r)
    PROVE  i - 1 \in 1 .. Len(todo[u]) /\ todo[u][i - 1] \in AttachOf(r)
<1>1. todo[u][i].op = "append" /\ todo[u][i].req = r
  BY DEF AppendOf, Of
<1>2. i - 1 \in 1 .. Len(todo[u]) /\ Follows(todo[u][i - 1], todo[u][i])
  BY <1>1, Before
<1> DEFINE y == todo[u][i - 1]
<1>3. y \in Tasks /\ y.op \in ScriptOps
  BY <1>2, AtFirst
<1>4. y.op = "attach"
  BY <1>1, <1>2, <1>3 DEF Follows, ScriptOps
<1>5. y.req = r
  BY <1>1, <1>2, <1>4, TaskIn DEF Follows
<1> QED
  BY <1>2, <1>3, <1>4, <1>5 DEF AttachOf, Of

LEMMA SettleBefore ==
    ASSUME Init, NEW u \in Thread, NEW c \in Own, Waits(u, On(Works \cup {"run"}, c))
    PROVE  resolver[c] = u /\ JoinsOf(c) = {}
<1>1. PICK i \in 1 .. Len(todo[u]) : todo[u][i].op \in Works \cup {"run"} /\ todo[u][i].core = c
  BY DEF Waits, On
<1>2. todo[u][i].op \in {"settle", "run"}
  BY <1>1, AtFirst DEF ScriptOps, Works
<1>3. CASE todo[u][i].op = "settle"
  BY <1>1, <1>3, AtFirst DEF ResolvedBy
<1>4. CASE todo[u][i].op = "run"
  <2>1. i - 1 \in 1 .. Len(todo[u]) /\ Follows(todo[u][i - 1], todo[u][i])
    BY <1>4, Before
  <2>2. todo[u][i - 1].op = "settle" /\ todo[u][i - 1].core = c
    BY <1>1, <1>4, <2>1 DEF Follows
  <2> QED
    BY <2>1, <2>2, AtFirst DEF ResolvedBy
<1> QED
  BY <1>2, <1>3, <1>4

LEMMA NothingCalled ==
    ASSUME Init, NEW ops, NEW r, ops \cap ScriptOps = {}
    PROVE  ~Somewhere(Of(ops, r))
  BY AtFirst DEF Somewhere, Waits, Of

LEMMA InvInit == Init => Inv
<1> SUFFICES ASSUME Init PROVE Inv
  OBVIOUS
<1>1. /\ Safe /\ Typed /\ Shape
      /\ state = [c \in Core |-> Pending] /\ requests = [c \in Core |-> <<>>] /\ calls = [r \in Request |-> 0]
  BY AtFirst DEF Init
<1>2. \A r : ~Somewhere(CallOf(r))
  <2>1. {"call"} \cap ScriptOps = {}
    BY DEF ScriptOps
  <2> QED
    BY <2>1, NothingCalled DEF CallOf
<1>3. \A c \in Core : \A n : n \notin 1 .. Len(requests[c])
  <2>1. \A n : n \notin 1 .. Len(<<>>)
    OBVIOUS
  <2> QED
    BY <1>1, <2>1
<1>4. \A r \in Request : ~Attached(r)
  BY <1>3, UseAssumption DEF Attached
<1>5. \A u \in Thread : \A c : ~Running(u, c)
  BY AtFirst DEF Running, HeadIs
<1>6. \A r : Somewhere(AppendOf(r)) => Somewhere(AttachOf(r))
  BY AttachBefore DEF Somewhere, Waits
<1>7. \A c \in Own : state[c] = Pending /\ c \in Core
  BY <1>1 DEF Own
<1>8. \A r \in Request : calls[r] = 0
  BY <1>1
<1>9. AttachedOnce
  <2> SUFFICES ASSUME NEW r \in Request PROVE Once(AttachOf(r)) /\ Once(AppendOf(r))
    BY DEF AttachedOnce
  <2>1. Once(AttachOf(r))
    BY AtFirst DEF Once, AttachOf, Of
  <2>2. ASSUME NEW u \in Thread, NEW v \in Thread, NEW i \in 1 .. Len(todo[u]), NEW j \in 1 .. Len(todo[v]),
               todo[u][i] \in AppendOf(r), todo[v][j] \in AppendOf(r)
        PROVE  u = v /\ i = j
    <3>1. /\ i - 1 \in 1 .. Len(todo[u]) /\ todo[u][i - 1] \in AttachOf(r)
          /\ j - 1 \in 1 .. Len(todo[v]) /\ todo[v][j - 1] \in AttachOf(r)
      BY <2>2, AttachBefore
    <3>2. u = v /\ i - 1 = j - 1
      BY <2>1, <3>1 DEF Once
    <3>3. i \in Nat /\ j \in Nat
      BY <1>1 DEF Typed
    <3> QED
      BY <3>2, <3>3
  <2> QED
    BY <2>1, <2>2 DEF Once
<1>10. Listed
  BY <1>3 DEF Listed
<1>11. AttachedAfter
  <2> SUFFICES ASSUME NEW q \in Request, kind[q] = "promise", Attached(chainer[q]) \/ Somewhere(AppendOf(chainer[q]))
               PROVE  FALSE
    BY DEF AttachedAfter
  <2>1. chainer[q] \in Request /\ chainer[q] \in Chainers
    BY UseAssumption DEF ChainsAreRight, Chainers
  <2>2. Somewhere(AttachOf(chainer[q]))
    BY <1>4, <1>6, <2>1
  <2>3. \E u \in Thread : \E i \in 1 .. Len(todo[u]) : AttachedBy(u, todo[u][i]) /\ todo[u][i].req = chainer[q]
    BY <2>2, AtFirst DEF Somewhere, Waits, AttachOf, Of
  <2> QED
    BY <2>1, <2>3 DEF AttachedBy
<1>12. CallsHeld
  <2> SUFFICES ASSUME NEW u \in Thread, NEW i \in 1 .. Len(todo[u]), todo[u][i].op = "call" PROVE FALSE
    BY DEF CallsHeld
  <2> QED
    BY AtFirst DEF ScriptOps
<1>13. CalledOnce /\ CalledLater /\ CalledSettled /\ CalledKnown
  <2>1. \A r : Once(CallOf(r))
    BY <1>2 DEF Once, Somewhere, Waits
  <2>2. \A r \in Kept : calls[r] = 0
    BY <1>8, TheKept
  <2> QED
    BY <1>2, <2>1, <2>2 DEF CalledOnce, CalledLater, CalledSettled, CalledKnown
<1>14. NoneLost /\ RunsAll /\ Decided
  BY <1>5, <1>6, <1>7 DEF NoneLost, RunsAll, Decided
<1>15. Unsettled
  BY <1>7 DEF Unsettled
<1>16. \A u \in Thread, c \in Own : Work(u, c) => resolver[c] = u /\ JoinsOf(c) = {}
  <2> SUFFICES ASSUME NEW u \in Thread, NEW c \in Own, Work(u, c) PROVE resolver[c] = u /\ JoinsOf(c) = {}
    OBVIOUS
  <2>1. Waits(u, On(Works \cup {"run"}, c))
    BY DEF Work, Waits, On
  <2> QED
    BY <2>1, SettleBefore
<1>17. OneWorks
  BY <1>16 DEF OneWorks
<1>18. WorksOnce
  <2> SUFFICES ASSUME NEW r \in Request, NEW u \in Thread, IsJoin(r), Work(u, chain[r]) PROVE FALSE
    BY DEF WorksOnce
  <2>1. r \in JoinsOf(chain[r]) /\ chain[r] \in Own
    BY TheKept DEF JoinsOf
  <2> QED
    BY <1>16, <2>1
<1>19. ResolverWorks
  BY SettleBefore DEF ResolverWorks
<1>20. ResolverCalls
  <2> SUFFICES ASSUME NEW u \in Thread, NEW r \in Request, IsJoin(r), Waits(u, Of({"call", "attach"}, r))
               PROVE  resolver[chain[r]] \in {u, Null}
    BY DEF ResolverCalls
  <2>1. PICK i \in 1 .. Len(todo[u]) : todo[u][i].op \in {"call", "attach"} /\ todo[u][i].req = r
    BY DEF Waits, Of
  <2>2. todo[u][i].op = "attach"
    BY <2>1, AtFirst DEF ScriptOps
  <2> QED
    BY <2>1, <2>2, AtFirst DEF AttachedBy
<1> QED
  BY <1>1, <1>9, <1>10, <1>11, <1>12, <1>13, <1>14, <1>15, <1>17, <1>18, <1>19, <1>20
     DEF Inv, Attaching, Calling, Settling, Working

-------------------------------------------------------------------------------
LEMMA InvSame ==
    ASSUME Inv, UNCHANGED <<state, requests, mtx, arrived, todo, calls>>, Safe'
    PROVE  Inv'
<1>1. \A S : Somewhere(S)' <=> Somewhere(S)
  BY DEF Somewhere, Waits
<1>2. Attaching'
  BY DEF Inv, Attaching, AttachedOnce, Listed, AttachedAfter, Once, Attached, Somewhere, Waits
<1>3. Calling'
  BY DEF Inv, Calling, CallsHeld, CallHeld, CalledOnce, CalledLater, CalledSettled, CalledKnown,
         Once, Attached, Somewhere, Waits
<1>4. Settling'
  BY DEF Inv, Settling, NoneLost, RunsAll, Decided, Running, HeadIs, AppendWaits, Somewhere, Waits
<1>5. Working'
  BY DEF Inv, Working, Unsettled, OneWorks, WorksOnce, ResolverWorks, ResolverCalls, Work, HeadIs, Waits
<1> QED
  BY <1>2, <1>3, <1>4, <1>5 DEF Inv

LEMMA InvStep == Inv /\ [Next]_vars => Inv'
<1> SUFFICES ASSUME Inv, [Next]_vars PROVE Inv'
  OBVIOUS
<1>1. Safe'
  BY SafeStep DEF Inv
<1>2. ASSUME NEW t \in Thread, Step(t) PROVE Inv'
  <2>1. CASE Moved(t, Head(todo[t]))
    <3>1. Attaching'
      BY <2>1, AttachedOnceStep, ListedStep, AttachedAfterStep DEF Attaching
    <3>2. Calling'
      BY <2>1, CallsHeldStep, CalledOnceStep, CalledLaterStep, CalledSettledStep, CalledKnownStep DEF Calling
    <3>3. Settling'
      BY <2>1, NoneLostStep, RunsAllStep, DecidedStep DEF Settling
    <3>4. Working'
      BY <2>1, UnsettledStep, OneWorksStep, WorksOnceStep, ResolverWorksStep, ResolverCallsStep DEF Working
    <3> QED
      BY <1>1, <3>1, <3>2, <3>3, <3>4 DEF Inv
  <2>2. CASE ~Moved(t, Head(todo[t]))
    BY <1>1, <1>2, <2>2, Stutters, InvSame
  <2> QED
    BY <2>1, <2>2
<1>3. CASE UNCHANGED vars
  BY <1>1, <1>3, InvSame DEF vars
<1> QED
  BY <1>2, <1>3 DEF Next, Stop

LEMMA InvAlways == Spec => []Inv
  BY InvInit, InvStep, PTL DEF Spec

(* A continuation is neither lost between the look at the state and the    *)
(* append of then() nor called twice, whichever of then() and the resolver *)
(* comes first: once its promise is settled and the mutex free, it has     *)
(* been called, once (Promise::then, Resolver::operator()).                *)
THEOREM NeverForgotten == Spec => []NoneForgotten
<1>1. Inv => NoneForgotten
  <2> SUFFICES ASSUME Inv, NEW c \in Own, state[c] # Pending, mtx[c] = Null, NEW n \in DOMAIN requests[c]
               PROVE  calls[requests[c][n]] = 1
    BY DEF NoneForgotten, Own
  <2> DEFINE r == requests[c][n]
  <2>1. c \in Core /\ n \in 1 .. Len(requests[c]) /\ Typed /\ Held
    BY Basics DEF Own, Typed
  <2>2. r \in Kept
    BY <2>1, InList DEF Kept
  <2>3. ASSUME NEW u \in Thread PROVE ~Running(u, c)
    BY RunningIs, PromiseAssumption
  <2>4. ~Somewhere(CallOf(r))
    <3> SUFFICES ASSUME NEW u \in Thread, NEW i \in 1 .. Len(todo[u]), todo[u][i] \in CallOf(r) PROVE FALSE
      BY DEF Somewhere, Waits
    <3>1. CallHeld(u, i)
      BY <2>2 DEF Inv, Calling, CallsHeld, CallOf, Of
    <3>2. \E k \in 1 .. Len(todo[u]) : Open(todo[u], k) /\ todo[u][k].core = c
      BY <2>1, <3>1, InList DEF CallHeld, CallOf, Of
    <3>3. mtx[c] = u
      BY <2>1, <3>2 DEF Held
    <3> QED
      BY <3>3, PromiseAssumption
  <2> QED
    BY <2>1, <2>3, <2>4 DEF Inv, Settling, NoneLost
<1> QED
  BY <1>1, InvAlways, PTL

-------------------------------------------------------------------------------
(* What a whenAll has counted.                                             *)
CountOf(r) == Of({"arrive", "count"}, r)

Alls == {c \in Core : \E r \in JoinsOf(c) : kind[r] # "any"}

Counted(c) ==
    {r \in JoinsOf(c) : calls[r] = 1 /\ state[promiseOf[r]] = Fulfilled /\ ~Somewhere(CountOf(r))}

AllIn(c) == \A r \in JoinsOf(c) : state[promiseOf[r]] = Fulfilled

Fills(c) == {y \in Tasks : y.op = "settle" /\ y.core = c /\ y.to = Fulfilled}

CountsOnce ==
    \A r \in Request :
        /\ Once(CountOf(r))
        /\ Somewhere(CountOf(r)) => calls[r] = 1 /\ state[promiseOf[r]] = Fulfilled

CountsAll == \A c \in Alls : arrived[c] <= Cardinality(Counted(c))

FillsAll == \A c \in Alls : Somewhere(Fills(c)) => AllIn(c)

FilledAll == \A c \in Alls : state[c] = Fulfilled => AllIn(c)

Counting == CountsOnce /\ CountsAll /\ FillsAll /\ FilledAll

-------------------------------------------------------------------------------
LEMMA TheAlls ==
    ASSUME NEW c \in Alls
    PROVE  /\ c \in Own /\ c \in Core /\ IsFiniteSet(JoinsOf(c)) /\ total[c] = Cardinality(JoinsOf(c))
           /\ JoinsOf(c) # {}
           /\ \A r \in JoinsOf(c) : /\ kind[r] # "any" /\ r \in Request /\ IsJoin(r) /\ chain[r] = c
                                    /\ r \in Kept /\ promiseOf[r] \in Own /\ promiseOf[r] \in Core
<1>1. PICK r \in JoinsOf(c) : kind[r] # "any"
  BY DEF Alls
<1>2. r \in Request /\ IsJoin(r) /\ chain[r] = c
  BY DEF JoinsOf
<1>3. /\ \A q \in JoinsOf(c) : kind[q] # "any"
      /\ IsFiniteSet(JoinsOf(c)) /\ total[c] = Cardinality(JoinsOf(c))
  BY <1>1, <1>2, UseAssumption DEF JoinsAreRight
<1>4. \A q \in JoinsOf(c) : q \in Request /\ IsJoin(q) /\ chain[q] = c
  BY DEF JoinsOf
<1>5. \A q \in JoinsOf(c) : q \in Kept /\ promiseOf[q] \in Own /\ promiseOf[q] \in Core
  BY <1>4, TheKept
<1>6. c \in Own /\ c \in Core
  BY <1>2, TheKept
<1> QED
  BY <1>1, <1>3, <1>4, <1>5, <1>6

LEMMA PutsCount ==
    ASSUME Typed, Shape, NEW t \in Thread, NEW x, Moved(t, x), NEW r, Puts(x, CountOf(r))
    PROVE  /\ r \in Request
           /\ \/ x.op = "call" /\ x \in CallOf(r) /\ IsJoin(r) /\ x.to = Fulfilled
              \/ x \in CountOf(r)
<1>1. PICK k \in 1 .. Len(After(x)) : After(x)[k].op \in {"arrive", "count"} /\ After(x)[k].req = r
  BY DEF Puts, CountOf, Of
<1>2. Born(x, After(x)[k]) /\ Proper(After(x)[k]) /\ x \in Tasks
  BY HeadTask
<1>3. r \in Request
  BY <1>1, <1>2 DEF Proper
<1> QED
  BY <1>1, <1>2, <1>3 DEF Born, CallOf, CountOf, Of

(* A join that is called, or a promise that is settled, stays so.          *)
LEMMA CountLasts ==
    ASSUME Inv, NEW t \in Thread, NEW x, Moved(t, x), NEW r \in Kept, calls[r] = 1, state[promiseOf[r]] = Fulfilled
    PROVE  /\ calls'[r] = 1 /\ state'[promiseOf[r]] = Fulfilled /\ x \notin CallOf(r)
<1>1. r \in Request /\ promiseOf[r] \in Own /\ promiseOf[r] \in Core
  BY TheKept
<1>2. Fulfilled # Pending /\ 1 # 0
  BY DEF Fulfilled, Pending
<1> QED
  BY <1>1, <1>2, CallsAre, StateIs

LEMMA CountsOnceStep == ASSUME Inv, Counting, NEW t \in Thread, NEW x, Moved(t, x) PROVE CountsOnce'
<1> SUFFICES ASSUME NEW r \in Request
             PROVE  /\ Once(CountOf(r))'
                    /\ Somewhere(CountOf(r))' => calls'[r] = 1 /\ state'[promiseOf[r]] = Fulfilled
  BY DEF CountsOnce, CountOf, Of
<1>1. Typed /\ Shape /\ Once(CountOf(r)) /\ Put(x, After(x))
      /\ (Somewhere(CountOf(r)) => calls[r] = 1 /\ state[promiseOf[r]] = Fulfilled)
  BY Basics, Moves DEF Counting, CountsOnce
<1>2. \A k, m \in 1 .. Len(After(x)) : After(x)[k] \in CountOf(r) /\ After(x)[m] \in CountOf(r) => k = m
  <2> SUFFICES ASSUME NEW k \in 1 .. Len(After(x)), NEW m \in 1 .. Len(After(x)),
                      After(x)[k] \in CountOf(r), After(x)[m] \in CountOf(r)
               PROVE  k = m
    OBVIOUS
  <2>1. After(x)[k].op \in {"arrive", "count"} /\ After(x)[m].op \in {"arrive", "count"}
    BY DEF CountOf, Of
  <2>2. Born(x, After(x)[k]) /\ Born(x, After(x)[m])
    BY <1>1, HeadTask
  <2>3. After(x)[k].op = After(x)[m].op
    BY <2>1, <2>2 DEF Born
  <2> QED
    BY <1>1, <2>1, <2>3 DEF Put, Singles
<1>3. ASSUME Puts(x, CountOf(r)), x \notin CountOf(r)
      PROVE  /\ r \in Kept /\ x \in CallOf(r) /\ calls[r] = 0 /\ ~Somewhere(CountOf(r))
             /\ calls'[r] = 1 /\ state'[promiseOf[r]] = Fulfilled
  <2>1. x.op = "call" /\ x \in CallOf(r) /\ IsJoin(r) /\ x.to = Fulfilled
    BY <1>1, <1>3, PutsCount
  <2>2. r \in Kept /\ x.req = r /\ promiseOf[r] \in Core
    BY <2>1, TheKept DEF CallOf, Of
  <2>3. calls[r] = 0 /\ state[promiseOf[r]] = Fulfilled
    BY <2>1, <2>2, CallHead
  <2>4. calls'[r] = 1 /\ state'[promiseOf[r]] = Fulfilled
    BY <2>1, <2>2, <2>3, CallsAre, StateIs DEF On
  <2> QED
    BY <1>1, <2>1, <2>2, <2>3, <2>4
<1>4. Once(CountOf(r))'
  BY <1>1, <1>2, <1>3, OnceStays
<1>5. ASSUME Somewhere(CountOf(r)) PROVE r \in Kept
  <2>1. PICK u \in Thread : \E i \in 1 .. Len(todo[u]) : todo[u][i] \in CountOf(r)
    BY <1>5 DEF Somewhere, Waits
  <2>2. PICK i \in 1 .. Len(todo[u]) : todo[u][i] \in CountOf(r)
    BY <2>1
  <2>3. Proper(todo[u][i])
    BY <1>1 DEF Shape, Formed
  <2>4. IsJoin(r)
    BY <2>2, <2>3 DEF Proper, CountOf, Of
  <2> QED
    BY <2>4, TheKept
<1>6. Somewhere(CountOf(r)) => calls'[r] = 1 /\ state'[promiseOf[r]] = Fulfilled
  BY <1>1, <1>5, CountLasts
<1>7. Somewhere(CountOf(r))' => Somewhere(CountOf(r)) \/ Puts(x, CountOf(r))
  BY <1>1, SomewhereGoes
<1>8. x \in CountOf(r) => Somewhere(CountOf(r))
  BY <1>1, HeadTask
<1> QED
  BY <1>3, <1>4, <1>6, <1>7, <1>8

LEMMA CountedGrows ==
    ASSUME Inv, Counting, NEW t \in Thread, NEW x, Moved(t, x), NEW c \in Alls
    PROVE  /\ Counted(c) \subseteq Counted(c)'
           /\ x.op = "count" /\ x.core = c => x.req \notin Counted(c) /\ x.req \in Counted(c)'
<1>1. Typed /\ Shape /\ x \in Tasks /\ Proper(x)
  BY Basics, HeadTask
<1>2. ASSUME NEW r \in Counted(c) PROVE r \in Counted(c)'
  <2>1. r \in JoinsOf(c) /\ calls[r] = 1 /\ state[promiseOf[r]] = Fulfilled /\ ~Somewhere(CountOf(r)) /\ r \in Kept
    BY <1>2, TheAlls DEF Counted
  <2>2. calls'[r] = 1 /\ state'[promiseOf[r]] = Fulfilled /\ x \notin CallOf(r)
    BY <2>1, CountLasts
  <2>3. x \notin CountOf(r)
    BY <1>1, <2>1, HeadTask
  <2>4. ~Somewhere(CountOf(r))'
    BY <1>1, <2>1, <2>2, <2>3, PutsCount, SomewhereGoes
  <2> QED
    BY <2>1, <2>2, <2>4 DEF Counted, JoinsOf
<1>3. ASSUME x.op = "count", x.core = c PROVE x.req \notin Counted(c) /\ x.req \in Counted(c)'
  <2> DEFINE r == x.req
  <2>1. r \in Request /\ IsJoin(r) /\ chain[r] = c /\ x \in CountOf(r)
    BY <1>1, <1>3 DEF Proper, CountOf, Of
  <2>2. r \in JoinsOf(c) /\ r \in Kept
    BY <2>1, TheKept DEF JoinsOf
  <2>3. Somewhere(CountOf(r))
    BY <1>1, <2>1, HeadTask
  <2>4. calls[r] = 1 /\ state[promiseOf[r]] = Fulfilled /\ Once(CountOf(r))
    BY <2>1, <2>3 DEF Counting, CountsOnce
  <2>5. calls'[r] = 1 /\ state'[promiseOf[r]] = Fulfilled
    BY <2>2, <2>4, CountLasts
  <2>6. ~Puts(x, CountOf(r))
    <3> SUFFICES ASSUME Puts(x, CountOf(r)) PROVE FALSE
      OBVIOUS
    <3>1. PICK k \in 1 .. Len(After(x)) : After(x)[k].op \in {"arrive", "count"}
      BY DEF Puts, CountOf, Of
    <3> QED
      BY <1>1, <1>3, <3>1, HeadTask DEF Born
  <2>7. ~Somewhere(CountOf(r))'
    <3> HIDE DEF r
    <3> QED
      BY <1>1, <2>1, <2>4, <2>6, OnceGone
  <2> QED
    <3> HIDE DEF r
    <3>1. r \notin Counted(c) /\ r \in Counted(c)'
      BY <2>2, <2>3, <2>5, <2>7 DEF Counted, JoinsOf
    <3> QED
      BY <3>1 DEF r
<1> QED
  BY <1>2, <1>3

LEMMA CountsAllStep == ASSUME Inv, Counting, NEW t \in Thread, NEW x, Moved(t, x) PROVE CountsAll'
<1> SUFFICES ASSUME NEW c \in Alls PROVE arrived'[c] <= Cardinality(Counted(c)')
  BY DEF CountsAll, Alls, JoinsOf
<1> DEFINE S == Counted(c)
           T == Counted(c)'
<1>1. c \in Core /\ IsFiniteSet(JoinsOf(c)) /\ Typed
  BY TheAlls, Basics
<1>2. S \subseteq JoinsOf(c) /\ T \subseteq JoinsOf(c)
  BY DEF Counted, JoinsOf
<1>3. S \subseteq T /\ (x.op = "count" /\ x.core = c => x.req \notin S /\ x.req \in T)
  BY CountedGrows
<1>4. arrived[c] <= Cardinality(S)
  BY DEF Counting, CountsAll
<1>5. arrived[c] \in Nat
  BY <1>1 DEF Typed
<1>6. arrived'[c] = IF x.op = "count" /\ x.core = c THEN arrived[c] + 1 ELSE arrived[c]
  <2>1. arrived' = (IF x.op = "count" THEN [arrived EXCEPT ![x.core] = @ + 1] ELSE arrived) /\ arrived \in [Core -> Nat]
    BY <1>1 DEF Moved, Effect, Typed
  <2> QED
    BY <1>1, <2>1
<1> HIDE DEF S, T
<1>7. IsFiniteSet(S) /\ IsFiniteSet(T)
  BY <1>1, <1>2, FS_Subset
<1>8. Cardinality(S) \in Nat /\ Cardinality(T) \in Nat /\ Cardinality(S) <= Cardinality(T)
  BY <1>3, <1>7, FS_Subset, FS_CardinalityType
<1>9. CASE x.op = "count" /\ x.core = c
  <2>1. Cardinality(S \cup {x.req}) = Cardinality(S) + 1 /\ S \cup {x.req} \subseteq T
    BY <1>3, <1>7, <1>9, FS_AddElement
  <2>2. Cardinality(S) + 1 <= Cardinality(T)
    BY <1>7, <2>1, FS_Subset
  <2> QED
    BY <1>4, <1>5, <1>6, <1>8, <1>9, <2>2 DEF T
<1>10. CASE ~(x.op = "count" /\ x.core = c)
  BY <1>4, <1>5, <1>6, <1>8, <1>10 DEF T
<1> QED
  BY <1>9, <1>10

LEMMA AllInLasts ==
    ASSUME Inv, NEW t \in Thread, NEW x, Moved(t, x), NEW c \in Alls, AllIn(c)
    PROVE  AllIn(c)'
<1>1. \A r \in JoinsOf(c) : state'[promiseOf[r]] = Fulfilled
  <2> SUFFICES ASSUME NEW r \in JoinsOf(c) PROVE state'[promiseOf[r]] = Fulfilled
    OBVIOUS
  <2>1. state[promiseOf[r]] = Fulfilled /\ promiseOf[r] \in Own /\ promiseOf[r] \in Core
    BY TheAlls DEF AllIn
  <2>2. Fulfilled # Pending
    BY DEF Fulfilled, Pending
  <2> QED
    BY <2>1, <2>2, StateIs
<1> QED
  BY <1>1 DEF AllIn, JoinsOf

LEMMA FillsAllStep == ASSUME Inv, Counting, NEW t \in Thread, NEW x, Moved(t, x) PROVE FillsAll'
<1> SUFFICES ASSUME NEW c \in Alls, Somewhere(Fills(c))' PROVE AllIn(c)'
  BY DEF FillsAll, Alls, JoinsOf, Fills
<1>1. Typed /\ Shape /\ x \in Tasks /\ Proper(x) /\ c \in Own /\ c \in Core
  BY Basics, HeadTask, TheAlls
<1>2. Somewhere(Fills(c)) \/ Puts(x, Fills(c))
  BY <1>1, SomewhereGoes
<1>3. CASE Somewhere(Fills(c))
  BY <1>3, AllInLasts DEF Counting, FillsAll
<1>4. CASE Puts(x, Fills(c))
  <2>1. PICK k \in 1 .. Len(After(x)) : After(x)[k].op = "settle" /\ After(x)[k].core = c /\ After(x)[k].to = Fulfilled
    BY <1>4 DEF Puts, Fills
  <2>2. /\ x.core = c
        /\ \/ x.op = "arrive" /\ kind[x.req] = "any"
           \/ x.op = "complete" /\ arrived[c] = total[c]
    BY <1>1, <2>1, HeadTask DEF Born
  <2>3. x.op \in {"arrive", "complete"} => x.req \in JoinsOf(c)
    BY <1>1, <2>2 DEF Proper, JoinsOf
  <2>4. arrived[c] = Cardinality(JoinsOf(c)) /\ IsFiniteSet(JoinsOf(c))
    BY <2>2, <2>3, TheAlls
  <2>5. arrived[c] <= Cardinality(Counted(c)) /\ Counted(c) \subseteq JoinsOf(c)
    BY DEF Counting, CountsAll, Counted
  <2>6. Counted(c) = JoinsOf(c)
    <3>1. /\ Cardinality(Counted(c)) <= Cardinality(JoinsOf(c)) /\ IsFiniteSet(Counted(c))
          /\ Cardinality(Counted(c)) = Cardinality(JoinsOf(c)) => Counted(c) = JoinsOf(c)
      BY <2>4, <2>5, FS_Subset
    <3>2. Cardinality(Counted(c)) \in Nat /\ Cardinality(JoinsOf(c)) \in Nat
      BY <2>4, <3>1, FS_CardinalityType
    <3> QED
      BY <2>4, <2>5, <3>1, <3>2
  <2>7. AllIn(c)
    BY <2>6 DEF AllIn, Counted
  <2> QED
    BY <2>7, AllInLasts
<1> QED
  BY <1>2, <1>3, <1>4

LEMMA FilledAllStep == ASSUME Inv, Counting, NEW t \in Thread, NEW x, Moved(t, x) PROVE FilledAll'
<1> SUFFICES ASSUME NEW c \in Alls, state'[c] = Fulfilled PROVE AllIn(c)'
  BY DEF FilledAll, Alls, JoinsOf
<1>1. c \in Core /\ Typed /\ Shape
  BY TheAlls, Basics
<1>2. CASE state[c] = Fulfilled
  BY <1>2, AllInLasts DEF Counting, FilledAll
<1>3. CASE state[c] # Fulfilled
  <2>1. x \in On({"settle"}, c) /\ x.to = Fulfilled
    BY <1>1, <1>3, StateIs
  <2>2. x \in Fills(c)
    BY <2>1 DEF On, Fills
  <2>3. AllIn(c)
    BY <1>1, <2>2, HeadTask DEF Counting, FillsAll
  <2> QED
    BY <2>3, AllInLasts
<1> QED
  BY <1>2, <1>3

LEMMA CountingInit == Init => Counting
<1> SUFFICES ASSUME Init PROVE Counting
  OBVIOUS
<1>1. \A r : ~Somewhere(CountOf(r))
  <2>1. {"arrive", "count"} \cap ScriptOps = {}
    BY DEF ScriptOps
  <2> QED
    BY <2>1, NothingCalled DEF CountOf
<1>2. CountsOnce
  BY <1>1 DEF CountsOnce, Once, Somewhere, Waits
<1>3. CountsAll
  <2> SUFFICES ASSUME NEW c \in Alls PROVE arrived[c] <= Cardinality(Counted(c))
    BY DEF CountsAll
  <2>1. arrived[c] = 0
    BY TheAlls DEF Init
  <2>2. Counted(c) \subseteq JoinsOf(c) /\ IsFiniteSet(JoinsOf(c))
    BY TheAlls DEF Counted
  <2>3. Cardinality(Counted(c)) \in Nat
    BY <2>2, FS_Subset, FS_CardinalityType
  <2> QED
    BY <2>1, <2>3
<1>4. FillsAll
  <2> SUFFICES ASSUME NEW c \in Alls, Somewhere(Fills(c)) PROVE FALSE
    BY DEF FillsAll
  <2>1. PICK u \in Thread : \E i \in 1 .. Len(todo[u]) : todo[u][i].op = "settle" /\ todo[u][i].core = c
    BY DEF Somewhere, Waits, Fills
  <2>2. JoinsOf(c) = {}
    BY <2>1, AtFirst DEF ResolvedBy
  <2> QED
    BY <2>2, TheAlls
<1>5. FilledAll
  BY TheAlls DEF FilledAll, Init, Fulfilled, Pending
<1> QED
  BY <1>2, <1>3, <1>4, <1>5 DEF Counting

LEMMA CountingSame ==
    ASSUME Counting, UNCHANGED <<state, requests, mtx, arrived, todo, calls>>
    PROVE  Counting'
  BY DEF Counting, CountsOnce, CountsAll, FillsAll, FilledAll, Counted, AllIn, Once, Somewhere, Waits

LEMMA CountingStep == Inv /\ Counting /\ [Next]_vars => Counting'
<1> SUFFICES ASSUME Inv, Counting, [Next]_vars PROVE Counting'
  OBVIOUS
<1>1. ASSUME NEW t \in Thread, Step(t) PROVE Counting'
  <2>1. CASE Moved(t, Head(todo[t]))
    BY <2>1, CountsOnceStep, CountsAllStep, FillsAllStep, FilledAllStep DEF Counting
  <2>2. CASE ~Moved(t, Head(todo[t]))
    BY <1>1, <2>2, Stutters, CountingSame
  <2> QED
    BY <2>1, <2>2
<1>2. CASE UNCHANGED vars
  BY <1>2, CountingSame DEF vars
<1> QED
  BY <1>1, <1>2 DEF Next, Stop

LEMMA CountingAlways == Spec => [](Inv /\ Counting)
<1>1. Init => Inv /\ Counting
  BY InvInit, CountingInit
<1>2. (Inv /\ Counting) /\ [Next]_vars => (Inv /\ Counting)'
  BY InvStep, CountingStep
<1> QED
  BY <1>1, <1>2, PTL DEF Spec

(* The promise of a whenAll is fulfilled only when all it waits for are,   *)
(* although what counts them takes no mutex (WhenAllContinuation).         *)
THEOREM AllBeforeWhole == Spec => []AllOrNothing
<1>1. Inv /\ Counting => AllOrNothing
  <2> SUFFICES ASSUME Inv, Counting, NEW c \in Core, NEW r \in Request, state[c] = Fulfilled,
                      kind[r] \in {"all", "range"}, chain[r] = c,
                      NEW d \in Core, NEW n \in DOMAIN requests[d], requests[d][n] = r
               PROVE  state[d] = Fulfilled
    BY DEF AllOrNothing
  <2>1. r \in JoinsOf(c) /\ c \in Alls
    BY DEF JoinsOf, Alls, IsJoin, Joins
  <2>2. state[promiseOf[r]] = Fulfilled
    BY <2>1 DEF Counting, FilledAll, AllIn
  <2>3. n \in 1 .. Len(requests[d])
    BY Basics DEF Typed
  <2>4. promiseOf[r] = d
    BY <2>3, InList
  <2> QED
    BY <2>2, <2>4
<1> QED
  BY <1>1, CountingAlways, PTL

-------------------------------------------------------------------------------
(* Settled once, and no exception.                                         *)
RefuseOf(r) == Of({"refuse"}, r)
CompleteOf(r) == Of({"complete"}, r)
DoneOf(r) == Of({"done"}, r)
SettleOf(c) == On({"settle"}, c)
FlagOf(c) == On({"flag"}, c)

(* A core is, or is about to be, settled to e.                             *)
Turns(c, e) == {y \in Tasks : y.op = "settle" /\ y.core = c /\ y.to = e}
Turning(c, e) == state[c] = e \/ Somewhere(Turns(c, e))

(* A join that was called and has told its chain.                          *)
Answered(r) == calls[r] = 1 /\ ~Somewhere(CountOf(r)) /\ ~Somewhere(RefuseOf(r))

(* The tasks that call r, and those by which it tells its chain.           *)
Path(r) ==
    {y \in Tasks : \/ y.op \in {"attach", "call", "arrive", "refuse"} /\ y.req = r
                   \/ y.op \in {"settle", "run"} /\ y.core = promiseOf[r]}

(* In no thread does a task of T come before one of S.                     *)
InOrder(S, T) ==
    \A u \in Thread : \A i, j \in 1 .. Len(todo[u]) :
        todo[u][i] \in S /\ todo[u][j] \in T => i < j

SettlesOnce ==
    \A c \in Own : Once(SettleOf(c)) /\ (state[c] # Pending => ~Somewhere(SettleOf(c)))

Accounted ==
    \A r \in Request : resolves[r] > 0 \/ rejects[r] > 0 \/ Somewhere(DoneOf(r)) => calls[r] > 0

RefusesOnce ==
    \A r \in Request :
        /\ Once(RefuseOf(r))
        /\ Somewhere(RefuseOf(r)) => calls[r] = 1 /\ state[promiseOf[r]] = Rejected

(* What is settled by a join, other than by the last of a whenAll, is over *)
(* for the others.                                                         *)
TurnedBy ==
    \A c \in Own, e \in Ends :
        JoinsOf(c) # {} /\ Turning(c, e) /\ (e = Fulfilled => c \notin Alls) =>
            /\ \E q \in JoinsOf(c) : Answered(q) /\ state[promiseOf[q]] = e
            /\ over[c] \/ Somewhere(FlagOf(c))

FlagsHome == \A c \in Own : \A u \in Thread : Waits(u, FlagOf(c)) => resolver[c] \in {u, Null}

FlagsFirst ==
    \A c \in Alls : \A u \in Thread : \A i \in 1 .. Len(todo[u]) : todo[u][i] \in FlagOf(c) => i = 1

FlagsBefore == \A c \in Own \ Alls : \A r \in JoinsOf(c) : InOrder(FlagOf(c), Path(r))

FilledLast ==
    \A c \in Alls : Turning(c, Fulfilled) =>
        \A r \in JoinsOf(c) : calls[r] = 1 /\ ~Somewhere(CountOf(r)) /\ ~Somewhere(CompleteOf(r))

RejectedAlone ==
    \A r \in Request : kind[r] = "all" => \A q \in JoinsOf(chain[r]) \ {r} :
        ~(Turning(promiseOf[r], Rejected) /\ Turning(promiseOf[q], Rejected))

RejectedFirst ==
    \A r \in Request : kind[r] = "any" => \A q \in JoinsOf(chain[r]) \ {r} :
        Turning(promiseOf[r], Rejected) =>
            /\ state[promiseOf[q]] # Pending => ~Somewhere(Path(r))
            /\ InOrder(Path(r), SettleOf(promiseOf[q]))

Flags == FlagsHome /\ FlagsFirst /\ FlagsBefore

Quiet ==
    /\ SettlesOnce /\ Accounted /\ RefusesOnce /\ TurnedBy /\ Flags /\ FilledLast
    /\ RejectedAlone /\ RejectedFirst

Calm == Inv /\ Counting /\ Quiet

-------------------------------------------------------------------------------
(* What a step does beside, and how one may throw.                         *)
Notes(x) ==
    /\ over' = IF x.op = "flag" THEN [over EXCEPT ![x.core] = TRUE] ELSE over
    /\ resolves' = IF x.op = "done" /\ x.to = Fulfilled THEN [resolves EXCEPT ![x.req] = @ + 1] ELSE resolves
    /\ rejects' = IF x.op = "done" /\ x.to # Fulfilled THEN [rejects EXCEPT ![x.req] = @ + 1] ELSE rejects

Throwing(x) ==
    \/ x.op = "check" /\ state[x.core] # Pending
    \/ x.op = "call" /\ (resolves[x.req] >= 1 \/ rejects[x.req] >= 1)

LEMMA StepNotes ==
    ASSUME NEW t, Step(t)
    PROVE  LET x == Head(todo[t])
           IN  todo[t] # <<>> /\ ((Moved(t, x) /\ Notes(x)) \/ Throwing(x))
<1> DEFINE x == Head(todo[t])
<1>1. CASE Check(t)
  BY <1>1 DEF Check, Next_is, Go, Throws, Moved, After, Effect, Notes, Throwing
<1>2. CASE Lock(t)
  BY <1>2 DEF Lock, Next_is, Go, Moved, After, Effect, Notes
<1>3. CASE Unlock(t)
  BY <1>3 DEF Unlock, Next_is, Go, Moved, After, Effect, Notes
<1>4. CASE Settle(t)
  BY <1>4 DEF Settle, Next_is, Go, Moved, After, Effect, Notes
<1>5. CASE Run(t)
  BY <1>5 DEF Run, Next_is, Go, Moved, After, Effect, Notes
<1>6. CASE Attach(t)
  BY <1>6 DEF Attach, Next_is, Go, Moved, After, Effect, Notes
<1>7. CASE AppendRequest(t)
  BY <1>7 DEF AppendRequest, Next_is, Go, Moved, After, Effect, Notes
<1>8. CASE Call(t)
  <2>1. x.op = "call" /\ todo[t] # <<>>
    BY <1>8 DEF Call, Next_is
  <2>2. \/ (x.to = Fulfilled /\ resolves[x.req] >= 1) \/ (x.to = Rejected /\ rejects[x.req] >= 1)
        \/ /\ UNCHANGED <<state, requests, mtx, arrived, crashed, over, resolves, rejects>>
           /\ calls' = [calls EXCEPT ![x.req] = @ + 1]
           /\ todo' = [todo EXCEPT ![t] = ((IF x.to = Fulfilled THEN Fulfil(x.req) ELSE Refusal(x.core, x.req))
                              \o <<Task("done", chain[x.req], x.req, x.to)>>) \o Tail(@)]
    BY <1>8, Zenon DEF Call, Go, Throws
  <2>3. After(x) = (IF x.to = Fulfilled THEN Fulfil(x.req) ELSE Refusal(x.core, x.req))
                              \o <<Task("done", chain[x.req], x.req, x.to)>>
    BY <2>1 DEF After
  <2> HIDE DEF x
  <2>4. x.op # "settle" /\ x.op # "append" /\ x.op # "lock" /\ x.op # "unlock" /\ x.op # "count"
        /\ x.op # "check" /\ x.op # "flag" /\ x.op # "done"
    BY <2>1
  <2>5. (Effect(t, x) /\ Notes(x)) \/ Throwing(x)
    BY <2>1, <2>2, <2>4 DEF Effect, Notes, Throwing
  <2> QED
    BY <2>1, <2>2, <2>3, <2>5 DEF Moved, x, Throwing
<1>9. CASE Done(t)
  BY <1>9 DEF Done, Next_is, Go, Moved, After, Effect, Notes
<1>10. CASE Arrive(t)
  BY <1>10 DEF Arrive, Next_is, Go, Moved, After, Effect, Notes
<1>11. CASE Count(t)
  BY <1>11 DEF Count, Next_is, Go, Moved, After, Effect, Notes
<1>12. CASE Complete(t)
  BY <1>12 DEF Complete, Next_is, Go, Moved, After, Effect, Notes
<1>13. CASE Refuse(t)
  BY <1>13 DEF Refuse, Next_is, Go, Moved, After, Effect, Notes
<1>14. CASE Flag(t)
  BY <1>14 DEF Flag, Next_is, Go, Moved, After, Effect, Notes
<1> QED
  BY <1>1, <1>2, <1>3, <1>4, <1>5, <1>6, <1>7, <1>8, <1>9, <1>10, <1>11, <1>12, <1>13, <1>14 DEF Step

(* What waits elsewhere, or was called, or is settled.                     *)
LEMMA Called ==
    ASSUME Inv, NEW r \in Kept, calls[r] = 1
    PROVE  ~Somewhere(CallOf(r)) /\ ~Somewhere(AttachOf(r))
<1>1. ~Somewhere(CallOf(r))
  <2> SUFFICES ASSUME NEW u \in Thread, NEW i \in 1 .. Len(todo[u]), todo[u][i] \in CallOf(r) PROVE FALSE
    BY DEF Somewhere, Waits
  <2>1. CallHeld(u, i) /\ todo[u][i].req = r
    BY DEF Inv, Calling, CallsHeld, CallOf, Of
  <2> QED
    BY <2>1 DEF CallHeld
<1>2. ~Somewhere(AttachOf(r))
  BY DEF Inv, Calling, CalledLater
<1> QED
  BY <1>1, <1>2

(* No thread throws where all is quiet.                                    *)
LEMMA NoThrow ==
    ASSUME NoneOnChains, Calm, NEW t \in Thread, Step(t)
    PROVE  Moved(t, Head(todo[t])) /\ Notes(Head(todo[t]))
<1> DEFINE x == Head(todo[t])
           s == todo[t]
<1>1. Typed /\ Shape /\ Inv
  BY Basics DEF Calm
<1>2. s # <<>> /\ s \in Seq(Tasks) /\ Formed(s) /\ ((Moved(t, x) /\ Notes(x)) \/ Throwing(x))
  BY <1>1, StepNotes DEF Typed, Shape
<1>3. x = s[1] /\ 1 \in 1 .. Len(s)
  <2> HIDE DEF s
  <2>1. Head(s) = s[1] /\ 1 \in 1 .. Len(s)
    BY <1>2
  <2> QED
    BY <2>1 DEF s
<1> HIDE DEF x, s
<1>4. Proper(x) /\ x \in Tasks
  BY <1>2, <1>3 DEF Formed, Proper
<1>5. ~(x.op = "check" /\ state[x.core] # Pending)
  <2> SUFFICES ASSUME x.op = "check", state[x.core] # Pending PROVE FALSE
    OBVIOUS
  <2>1. x.core \in Own
    BY <1>4 DEF Proper
  <2>2. 2 \in 1 .. Len(s) /\ Follows(x, s[2])
    BY <1>1, <1>3, HeadFollows DEF Continues, s
  <2>3. s[2] = Task("lock", x.core, Null, x.to)
    BY <2>2 DEF Follows
  <2>4. s[2].op = "lock" /\ s[2].req = Null /\ s[2].core = x.core
    BY <2>3, TaskIn
  <2>5. 2 + 1 \in 1 .. Len(s) /\ s[2 + 1] = Task("settle", x.core, Null, s[2].to)
    BY <1>2, <2>2, <2>4, Section
  <2>6. s[2 + 1] \in Tasks
    BY <1>2, <2>5
  <2>7. s[2 + 1] \in SettleOf(x.core)
    BY <2>5, <2>6, TaskIn DEF SettleOf, On
  <2>8. Somewhere(SettleOf(x.core))
    BY <2>5, <2>7 DEF Somewhere, Waits, s
  <2> QED
    BY <2>1, <2>8 DEF Calm, Quiet, SettlesOnce
<1>6. ~(x.op = "call" /\ (resolves[x.req] >= 1 \/ rejects[x.req] >= 1))
  <2> SUFFICES ASSUME x.op = "call", resolves[x.req] >= 1 \/ rejects[x.req] >= 1 PROVE FALSE
    OBVIOUS
  <2>1. x.req \in Request /\ x.req \in Kept
    BY <1>4 DEF Proper, NoneOnChains, Kept
  <2>2. resolves[x.req] \in Nat /\ rejects[x.req] \in Nat
    BY <1>1, <2>1 DEF Typed
  <2>3. resolves[x.req] > 0 \/ rejects[x.req] > 0
    BY <2>2
  <2>4. calls[x.req] > 0
    BY <2>1, <2>3 DEF Calm, Quiet, Accounted
  <2>5. CallHeld(t, 1)
    BY <1>1, <1>3, <2>1 DEF Inv, Calling, CallsHeld, s
  <2>6. calls[x.req] = 0
    BY <1>3, <2>5 DEF CallHeld, s
  <2> QED
    BY <2>4, <2>6
<1> QED
  BY <1>2, <1>5, <1>6 DEF Throwing, x

-------------------------------------------------------------------------------
(* What calls a join, where nothing but its promise's Resolver settles it. *)
LEMMA PathFrom ==
    ASSUME Inv, NEW t \in Thread, NEW x, Moved(t, x), NEW r \in Request, IsJoin(r), JoinsOf(promiseOf[r]) = {},
           Puts(x, Path(r))
    PROVE  x \in Path(r) /\ x.op \in {"attach", "run", "call"}
<1>1. Typed /\ Shape /\ x \in Tasks /\ Proper(x) /\ r \in Kept /\ promiseOf[r] \in Own
  BY Basics, HeadTask, TheKept
<1>2. PICK k \in 1 .. Len(After(x)) : After(x)[k] \in Path(r)
  BY DEF Puts
<1> DEFINE y == After(x)[k]
<1>3. Born(x, y) /\ y \in Tasks /\ y \in Path(r) /\ k \in 1 .. Len(After(x))
  BY <1>1, <1>2, HeadTask
<1> HIDE DEF y
<1>4. CASE y.op = "attach" /\ y.req = r
  <2>1. Puts(x, AttachOf(r))
    BY <1>3, <1>4 DEF Puts, AttachOf, Of, y
  <2> QED
    BY <2>1, PutsAttach, <1>1
<1>5. CASE y.op = "call" /\ y.req = r
  <2>1. Puts(x, CallOf(r))
    BY <1>3, <1>5 DEF Puts, CallOf, Of, y
  <2>2. /\ x.op \in {"attach", "run"} /\ x.core = promiseOf[r]
        /\ x.op = "attach" => x \in AttachOf(r)
    BY <1>1, <2>1, NewCall
  <2> QED
    BY <1>1, <2>2 DEF Path, AttachOf, Of
<1>6. CASE y.op \in {"arrive", "refuse"} /\ y.req = r
  BY <1>1, <1>3, <1>6 DEF Born, Path
<1>7. CASE y.op \in {"settle", "run"} /\ y.core = promiseOf[r]
  <2>1. x.op \in {"arrive", "complete", "refuse"} /\ x.core = promiseOf[r]
    BY <1>1, <1>3, <1>7 DEF Born
  <2>2. x.req \in JoinsOf(promiseOf[r])
    BY <1>1, <2>1 DEF Proper, JoinsOf
  <2> QED
    BY <2>2
<1> QED
  BY <1>3, <1>4, <1>5, <1>6, <1>7 DEF Path

LEMMA SettleFrom ==
    ASSUME Inv, NEW t \in Thread, NEW x, Moved(t, x), NEW c \in Own, Puts(x, SettleOf(c))
    PROVE  /\ x.op \in {"arrive", "complete", "refuse"} /\ x.core = c
           /\ x.req \in JoinsOf(c) /\ x.req \in Kept /\ x \in On(Works, c)
<1>1. Typed /\ Shape /\ x \in Tasks /\ Proper(x)
  BY Basics, HeadTask
<1>2. PICK k \in 1 .. Len(After(x)) : After(x)[k].op = "settle" /\ After(x)[k].core = c
  BY DEF Puts, SettleOf, On
<1>3. Born(x, After(x)[k])
  BY <1>1, HeadTask
<1>4. x.op \in {"arrive", "complete", "refuse"} /\ x.core = c
  BY <1>2, <1>3 DEF Born
<1>5. x.req \in Request /\ IsJoin(x.req) /\ chain[x.req] = c
  BY <1>1, <1>4 DEF Proper
<1> QED
  BY <1>1, <1>4, <1>5, TheKept DEF JoinsOf, On, Works

(* The order in which tasks wait stays.                                    *)
LEMMA OrderStays ==
    ASSUME Typed, Shape, NEW t \in Thread, NEW x, Moved(t, x), NEW S, NEW T, InOrder(S, T),
           \A k, m \in 1 .. Len(After(x)) : After(x)[k] \in S /\ After(x)[m] \in T => k < m,
           Puts(x, T) => x \in T
    PROVE  InOrder(S, T)'
<1> DEFINE n == Len(After(x))
<1>0. n \in Nat /\ x = todo[t][1] /\ 1 \in 1 .. Len(todo[t]) /\ todo \in [Thread -> Seq(Tasks)] /\ todo' \in [Thread -> Seq(Tasks)]
  BY Moves DEF Typed
<1> SUFFICES ASSUME NEW u \in Thread, NEW i \in 1 .. Len(todo'[u]), NEW j \in 1 .. Len(todo'[u]),
                    todo'[u][i] \in S, todo'[u][j] \in T
             PROVE  i < j
  BY DEF InOrder
<1>1. \/ Fresh(t, x, u, i)
      \/ \E k \in 1 .. Len(todo[u]) : Rest(t, u, k) /\ i = Shift(t, n, u, k) /\ todo'[u][i] = todo[u][k]
  BY Moves
<1>2. \/ Fresh(t, x, u, j)
      \/ \E k \in 1 .. Len(todo[u]) : Rest(t, u, k) /\ j = Shift(t, n, u, k) /\ todo'[u][j] = todo[u][k]
  BY Moves
<1>3. CASE Fresh(t, x, u, i) /\ Fresh(t, x, u, j)
  BY <1>3 DEF Fresh
<1>4. CASE Fresh(t, x, u, i) /\ ~Fresh(t, x, u, j)
  <2>1. PICK k \in 1 .. Len(todo[u]) : Rest(t, u, k) /\ j = Shift(t, n, u, k)
    BY <1>2, <1>4
  <2>2. i \in 1 .. n /\ u = t
    BY <1>4 DEF Fresh
  <2> HIDE DEF n
  <2>3. j = (k + n) - 1 /\ k # 1 /\ k \in Nat /\ k >= 1
    BY <2>1, <2>2 DEF Shift, Rest
  <2> QED
    BY <1>0, <2>2, <2>3
<1>5. CASE ~Fresh(t, x, u, i) /\ Fresh(t, x, u, j)
  <2>1. PICK k \in 1 .. Len(todo[u]) : Rest(t, u, k) /\ todo'[u][i] = todo[u][k]
    BY <1>1, <1>5
  <2>2. Puts(x, T) /\ u = t
    BY <1>5 DEF Fresh, Puts
  <2>3. todo[t][1] \in T /\ todo[t][k] \in S
    BY <1>0, <2>1, <2>2
  <2>4. k < 1
    BY <1>0, <2>2, <2>3 DEF InOrder
  <2> QED
    BY <2>4
<1>6. CASE ~Fresh(t, x, u, i) /\ ~Fresh(t, x, u, j)
  <2>1. PICK k \in 1 .. Len(todo[u]) : Rest(t, u, k) /\ i = Shift(t, n, u, k) /\ todo'[u][i] = todo[u][k]
    BY <1>1, <1>6
  <2>2. PICK m \in 1 .. Len(todo[u]) : Rest(t, u, m) /\ j = Shift(t, n, u, m) /\ todo'[u][j] = todo[u][m]
    BY <1>2, <1>6
  <2>3. k < m
    BY <2>1, <2>2 DEF InOrder
  <2> HIDE DEF n
  <2> QED
    BY <1>0, <2>1, <2>2, <2>3, ShiftIs
<1> QED
  BY <1>3, <1>4, <1>5, <1>6

(* The promises of a tuple are all called by one thread.                   *)
LEMMA JoinsHome ==
    ASSUME Inv, NEW r \in Request, IsJoin(r), resolver[chain[r]] # Null, NEW u \in Thread, Waits(u, Path(r))
    PROVE  resolver[chain[r]] = u
<1>1. Typed /\ Shape /\ chain[r] \in Own /\ promiseOf[r] \in Own
  BY Basics, TheKept
<1>2. PICK i \in 1 .. Len(todo[u]) : todo[u][i] \in Path(r)
  BY DEF Waits
<1> DEFINE y == todo[u][i]
<1>3. Proper(y) /\ y \in Tasks
  BY <1>1 DEF Shape, Formed, Proper
<1>4. CASE y.op \in {"attach", "call"} /\ y.req = r
  <2>1. Waits(u, Of({"call", "attach"}, r))
    BY <1>3, <1>4 DEF Waits, Of
  <2> QED
    BY <2>1 DEF Inv, Working, ResolverCalls
<1>5. CASE y.op \in {"arrive", "refuse"} /\ y.req = r
  <2>1. y.core = chain[r]
    BY <1>3, <1>5 DEF Proper
  <2>2. Waits(u, On(Works \cup {"run"}, chain[r]))
    BY <1>3, <1>5, <2>1 DEF Waits, On, Works
  <2> QED
    BY <1>1, <2>2 DEF Inv, Working, ResolverWorks
<1>6. CASE y.op \in {"settle", "run"} /\ y.core = promiseOf[r]
  <2>1. Waits(u, On(Works \cup {"run"}, promiseOf[r]))
    BY <1>3, <1>6 DEF Waits, On, Works
  <2>2. resolver[promiseOf[r]] \in {u, Null}
    BY <1>1, <2>1 DEF Inv, Working, ResolverWorks
  <2>3. resolver[promiseOf[r]] = resolver[chain[r]]
    BY UseAssumption DEF JoinsAreRight
  <2> QED
    BY <2>2, <2>3
<1> QED
  BY <1>2, <1>4, <1>5, <1>6 DEF Path

(* Where two wait for one promise, it has a thread.                        *)
LEMMA OneHome ==
    ASSUME NEW r \in Request, IsJoin(r), NEW q \in JoinsOf(chain[r]), q # r
    PROVE  resolver[chain[r]] # Null
  BY UseAssumption DEF JoinsAreRight, JoinsOf

LEMMA TurningFrom ==
    ASSUME Inv, NEW t \in Thread, NEW x, Moved(t, x), NEW c \in Own, NEW e \in Ends, Turning(c, e)'
    PROVE  Turning(c, e) \/ Puts(x, Turns(c, e))
<1>1. Typed /\ Shape /\ x \in Tasks /\ c \in Core
  BY Basics, HeadTask DEF Own
<1>2. CASE state'[c] = e
  <2>1. CASE x \in On({"settle"}, c)
    <3>1. x.to = e
      BY <1>1, <1>2, <2>1, StateIs
    <3>2. x \in Turns(c, e)
      BY <2>1, <3>1 DEF On, Turns
    <3> QED
      BY <1>1, <3>2, HeadTask DEF Turning
  <2>2. CASE x \notin On({"settle"}, c)
    BY <1>1, <1>2, <2>2, StateIs DEF Turning
  <2> QED
    BY <2>1, <2>2
<1>3. CASE Somewhere(Turns(c, e))'
  BY <1>1, <1>3, SomewhereGoes DEF Turning, Turns
<1> QED
  BY <1>2, <1>3 DEF Turning, Turns

LEMMA TurnsSettle ==
    ASSUME NEW x, NEW c, NEW e, Puts(x, Turns(c, e))
    PROVE  Puts(x, SettleOf(c))
  BY DEF Puts, Turns, SettleOf, On

(* A core none of whose continuations is a whenAll is no whenAll's.        *)
LEMMA NoAlls ==
    ASSUME NEW r \in Request, IsJoin(r)
    PROVE  /\ kind[r] # "any" => chain[r] \in Alls
           /\ kind[r] = "any" => chain[r] \notin Alls
           /\ r \in JoinsOf(chain[r]) /\ chain[r] \in Own
<1>1. r \in JoinsOf(chain[r]) /\ chain[r] \in Own /\ chain[r] \in Core
  BY TheKept DEF JoinsOf
<1> QED
  BY <1>1, TheAlls DEF Alls

-------------------------------------------------------------------------------
(* What is about to settle a core finds it pending.                        *)
LEMMA FlagHere ==
    ASSUME Inv, Quiet, NEW t \in Thread, NEW x, Moved(t, x), NEW r \in Request, IsJoin(r),
           x \in Of({"arrive", "refuse"}, r), NEW q \in JoinsOf(chain[r]), q # r, Somewhere(FlagOf(chain[r]))
    PROVE  Waits(t, FlagOf(chain[r]))
<1>1. Typed /\ Shape /\ Proper(x) /\ x \in Tasks /\ x.req = r /\ x.op \in {"arrive", "refuse"} /\ chain[r] \in Own
  BY Basics, HeadTask, TheKept DEF Of
<1>2. resolver[chain[r]] # Null
  BY OneHome
<1>3. x.core = chain[r]
  BY <1>1 DEF Proper
<1>4. x \in On(Works \cup {"run"}, chain[r])
  BY <1>1, <1>3 DEF On, Works
<1>5. Waits(t, On(Works \cup {"run"}, chain[r]))
  BY <1>1, <1>4, HeadTask
<1>6. resolver[chain[r]] = t
  BY <1>1, <1>2, <1>5 DEF Inv, Working, ResolverWorks
<1>7. PICK u \in Thread : Waits(u, FlagOf(chain[r]))
  BY DEF Somewhere
<1>8. resolver[chain[r]] = u
  BY <1>1, <1>2, <1>7 DEF Quiet, Flags, FlagsHome
<1> QED
  BY <1>6, <1>7, <1>8

LEMMA CountedAll ==
    ASSUME Inv, Counting, NEW c \in Alls, arrived[c] = total[c]
    PROVE  Counted(c) = JoinsOf(c)
<1>1. arrived[c] = Cardinality(JoinsOf(c)) /\ IsFiniteSet(JoinsOf(c))
  BY TheAlls
<1>2. arrived[c] <= Cardinality(Counted(c)) /\ Counted(c) \subseteq JoinsOf(c)
  BY DEF Counting, CountsAll, Counted
<1>3. /\ Cardinality(Counted(c)) <= Cardinality(JoinsOf(c)) /\ IsFiniteSet(Counted(c))
      /\ Cardinality(Counted(c)) = Cardinality(JoinsOf(c)) => Counted(c) = JoinsOf(c)
  BY <1>1, <1>2, FS_Subset
<1>4. Cardinality(Counted(c)) \in Nat /\ Cardinality(JoinsOf(c)) \in Nat
  BY <1>1, <1>3, FS_CardinalityType
<1> QED
  BY <1>1, <1>2, <1>3, <1>4

LEMMA ArriveAlone ==
    ASSUME Calm, UsedRight, NEW t \in Thread, NEW x, Moved(t, x), NEW c \in Own, Puts(x, SettleOf(c)),
           x.op = "arrive", NEW e \in Ends
    PROVE  ~Turning(c, e)
<1> DEFINE r == x.req
<1>1. Inv /\ Quiet /\ Typed /\ Shape /\ Proper(x) /\ x \in Tasks /\ x = todo[t][1] /\ 1 \in 1 .. Len(todo[t])
  BY Basics, HeadTask DEF Calm
<1>2. x.core = c /\ r \in JoinsOf(c)
  BY <1>1, SettleFrom
<1>3. r \in Request /\ IsJoin(r) /\ chain[r] = c
  BY <1>2 DEF JoinsOf
<1>4. kind[r] = "any"
  <2>1. PICK k \in 1 .. Len(After(x)) : After(x)[k].op = "settle" /\ After(x)[k].core = c
    BY DEF Puts, SettleOf, On
  <2>2. Born(x, After(x)[k]) /\ Proper(After(x)[k])
    BY <1>1, HeadTask
  <2> QED
    BY <2>1, <2>2 DEF Born, Proper, Ends
<1>5. ~over[c]
  <2> SUFFICES ASSUME over[c] PROVE FALSE
    OBVIOUS
  <2>1. After(x) = <<>>
    BY <1>2 DEF After
  <2> QED
    BY <2>1 DEF Puts
<1>6. c \notin Alls
  BY <1>3, <1>4, NoAlls
<1> SUFFICES ASSUME Turning(c, e) PROVE FALSE
  OBVIOUS
<1>7. PICK q \in JoinsOf(c) : Answered(q) /\ Somewhere(FlagOf(c))
  BY <1>1, <1>2, <1>5, <1>6 DEF Quiet, TurnedBy
<1>8. x \in CountOf(r) /\ x \in Of({"arrive", "refuse"}, r) /\ x \in Path(r)
  BY <1>1 DEF CountOf, Of, Path
<1> HIDE DEF r
<1>9. q # r
  BY <1>1, <1>7, <1>8, HeadTask DEF Answered
<1>10. Waits(t, FlagOf(c))
  BY <1>1, <1>3, <1>7, <1>8, <1>9, FlagHere
<1>11. PICK i \in 1 .. Len(todo[t]) : todo[t][i] \in FlagOf(c)
  BY <1>10 DEF Waits
<1>12. InOrder(FlagOf(c), Path(r))
  BY <1>1, <1>2, <1>6 DEF Quiet, Flags, FlagsBefore
<1>13. i < 1
  BY <1>1, <1>8, <1>11, <1>12 DEF InOrder
<1> QED
  BY <1>13

LEMMA CompleteAlone ==
    ASSUME Calm, NEW t \in Thread, NEW x, Moved(t, x), NEW c \in Own, Puts(x, SettleOf(c)),
           x.op = "complete", NEW e \in Ends
    PROVE  /\ ~Turning(c, e)
           /\ c \in Alls /\ Counted(c) = JoinsOf(c)
<1> DEFINE r == x.req
<1>1. Inv /\ Quiet /\ Counting /\ Typed /\ Shape /\ Proper(x) /\ x \in Tasks
  BY Basics, HeadTask DEF Calm
<1>2. x.core = c /\ r \in JoinsOf(c)
  BY <1>1, SettleFrom
<1>3. r \in Request /\ IsJoin(r) /\ chain[r] = c /\ kind[r] # "any"
  BY <1>1, <1>2 DEF JoinsOf, Proper
<1>4. c \in Alls
  BY <1>3, NoAlls
<1>5. arrived[c] = total[c]
  <2> SUFFICES ASSUME arrived[c] # total[c] PROVE FALSE
    OBVIOUS
  <2>1. After(x) = <<>>
    BY <1>2 DEF After
  <2> QED
    BY <2>1 DEF Puts
<1>6. Counted(c) = JoinsOf(c)
  BY <1>1, <1>4, <1>5, CountedAll
<1>7. x \in CompleteOf(r)
  BY <1>1 DEF CompleteOf, Of
<1> HIDE DEF r
<1>8. ~Turning(c, Fulfilled)
  BY <1>1, <1>2, <1>4, <1>7, HeadTask DEF Quiet, FilledLast
<1>9. ~Turning(c, Rejected)
  <2> SUFFICES ASSUME Turning(c, Rejected) PROVE FALSE
    OBVIOUS
  <2>1. Rejected \in Ends /\ Rejected # Fulfilled
    BY DEF Ends, Rejected, Fulfilled
  <2>2. \E q \in JoinsOf(c) : state[promiseOf[q]] = Rejected
    BY <1>1, <1>2, <2>1 DEF Quiet, TurnedBy
  <2> QED
    BY <1>6, <2>1, <2>2 DEF Counted
<1> QED
  BY <1>4, <1>6, <1>8, <1>9 DEF Ends

LEMMA RefuseAlone ==
    ASSUME Calm, UsedRight, NEW t \in Thread, NEW x, Moved(t, x), NEW c \in Own, Puts(x, SettleOf(c)),
           x.op = "refuse", NEW e \in Ends
    PROVE  ~Turning(c, e)
<1> DEFINE r == x.req
<1>1. /\ Inv /\ Quiet /\ Counting /\ Typed /\ Shape /\ Proper(x) /\ x \in Tasks
      /\ x = todo[t][1] /\ 1 \in 1 .. Len(todo[t])
  BY Basics, HeadTask DEF Calm
<1>2. x.core = c /\ r \in JoinsOf(c)
  BY <1>1, SettleFrom
<1>3. r \in Request /\ IsJoin(r) /\ chain[r] = c
  BY <1>2 DEF JoinsOf
<1>4. ~(kind[r] = "range" /\ over[c])
  <2> SUFFICES ASSUME kind[r] = "range", over[c] PROVE FALSE
    OBVIOUS
  <2>1. After(x) = <<>>
    BY <1>2 DEF After
  <2> QED
    BY <2>1 DEF Puts
<1>5. x \in RefuseOf(r) /\ x \in Of({"arrive", "refuse"}, r) /\ x \in Path(r) /\ x \notin FlagOf(c)
  BY <1>1 DEF RefuseOf, Of, On, Path, FlagOf
<1> HIDE DEF r
<1>6. Somewhere(RefuseOf(r)) /\ Somewhere(Path(r))
  BY <1>1, <1>5, HeadTask
<1>7. state[promiseOf[r]] = Rejected /\ Rejected # Fulfilled /\ Rejected \in Ends
  BY <1>1, <1>3, <1>6 DEF Quiet, RefusesOnce, Ends, Rejected, Fulfilled
<1> SUFFICES ASSUME Turning(c, e) PROVE FALSE
  OBVIOUS
<1>8. ~(e = Fulfilled /\ c \in Alls)
  <2> SUFFICES ASSUME e = Fulfilled, c \in Alls PROVE FALSE
    OBVIOUS
  <2>1. Turns(c, e) = Fills(c)
    BY DEF Turns, Fills
  <2>2. AllIn(c)
    BY <1>1, <2>1 DEF Turning, Counting, FillsAll, FilledAll
  <2> QED
    BY <1>2, <1>7, <2>2 DEF AllIn
<1>9. PICK q \in JoinsOf(c) : Answered(q) /\ state[promiseOf[q]] = e /\ (over[c] \/ Somewhere(FlagOf(c)))
  BY <1>1, <1>2, <1>8 DEF Quiet, TurnedBy
<1>10. q # r /\ q \in Request
  BY <1>6, <1>9 DEF Answered, JoinsOf
<1>11. CASE kind[r] = "range"
  <2>1. Waits(t, FlagOf(c))
    BY <1>1, <1>3, <1>4, <1>5, <1>9, <1>10, <1>11, FlagHere
  <2>2. c \in Alls
    BY <1>3, <1>11, NoAlls
  <2>3. PICK i \in 1 .. Len(todo[t]) : todo[t][i] \in FlagOf(c)
    BY <2>1 DEF Waits
  <2>4. i = 1
    BY <1>1, <2>2, <2>3 DEF Quiet, Flags, FlagsFirst
  <2> QED
    BY <1>1, <1>5, <2>3, <2>4
<1>12. CASE kind[r] = "all"
  <2>1. c \in Alls
    BY <1>3, <1>12, NoAlls
  <2>2. e = Rejected
    BY <1>8, <2>1 DEF Ends
  <2>3. Turning(promiseOf[r], Rejected) /\ Turning(promiseOf[q], Rejected)
    BY <1>7, <1>9, <2>2 DEF Turning
  <2> QED
    BY <1>1, <1>3, <1>9, <1>10, <1>12, <2>3 DEF Quiet, RejectedAlone
<1>13. CASE kind[r] = "any"
  <2>1. Turning(promiseOf[r], Rejected)
    BY <1>7 DEF Turning
  <2>2. state[promiseOf[q]] # Pending
    BY <1>9 DEF Ends, Fulfilled, Rejected, Pending
  <2> QED
    BY <1>1, <1>3, <1>6, <1>9, <1>10, <1>13, <2>1, <2>2 DEF Quiet, RejectedFirst
<1> QED
  BY <1>3, <1>11, <1>12, <1>13, Kinds

LEMMA NewSettle ==
    ASSUME Calm, UsedRight, NEW t \in Thread, NEW x, Moved(t, x), NEW c \in Own, Puts(x, SettleOf(c))
    PROVE  /\ \A e \in Ends : ~Turning(c, e)
           /\ state[c] = Pending /\ ~Somewhere(SettleOf(c))
<1>1. Inv /\ Typed /\ Shape /\ c \in Core
  BY Basics DEF Calm, Own
<1>2. \A e \in Ends : ~Turning(c, e)
  BY <1>1, SettleFrom, ArriveAlone, CompleteAlone, RefuseAlone
<1>3. state[c] = Pending
  BY <1>1, <1>2 DEF Turning, Typed, Ends
<1>4. ~Somewhere(SettleOf(c))
  <2> SUFFICES ASSUME NEW u \in Thread, NEW i \in 1 .. Len(todo[u]), todo[u][i] \in SettleOf(c) PROVE FALSE
    BY DEF Somewhere, Waits
  <2>1. Proper(todo[u][i])
    BY <1>1 DEF Shape, Formed
  <2>2. todo[u][i].to \in Ends
    BY <2>1 DEF Proper, SettleOf, On
  <2>3. todo[u][i] \in Turns(c, todo[u][i].to)
    BY DEF Turns, SettleOf, On
  <2> QED
    BY <1>2, <2>2, <2>3 DEF Turning, Somewhere, Waits
<1> QED
  BY <1>2, <1>3, <1>4

-------------------------------------------------------------------------------
LEMMA SettlesOnceStep == ASSUME Calm, UsedRight, NEW t \in Thread, NEW x, Moved(t, x) PROVE SettlesOnce'
<1> SUFFICES ASSUME NEW c \in Own
             PROVE  Once(SettleOf(c))' /\ (state'[c] # Pending => ~Somewhere(SettleOf(c))')
  BY DEF SettlesOnce, SettleOf, On
<1>1. /\ Inv /\ Typed /\ Shape /\ c \in Core /\ Once(SettleOf(c)) /\ Put(x, After(x))
      /\ state[c] # Pending => ~Somewhere(SettleOf(c))
  BY Basics, Moves DEF Calm, Own, Quiet, SettlesOnce
<1>2. Puts(x, SettleOf(c)) => state[c] = Pending /\ ~Somewhere(SettleOf(c)) /\ x \notin SettleOf(c)
  BY <1>1, NewSettle, HeadTask
<1>3. \A k, m \in 1 .. Len(After(x)) : After(x)[k] \in SettleOf(c) /\ After(x)[m] \in SettleOf(c) => k = m
  BY <1>1 DEF Put, Singles, SettleOf, On
<1>4. Once(SettleOf(c))'
  BY <1>1, <1>2, <1>3, OnceStays
<1>5. ASSUME state'[c] # Pending PROVE ~Somewhere(SettleOf(c))'
  <2>1. CASE x \in SettleOf(c)
    BY <1>1, <1>2, <2>1, OnceGone
  <2>2. CASE x \notin SettleOf(c)
    <3>1. state[c] # Pending
      BY <1>1, <1>5, <2>2, StateIs DEF SettleOf
    <3> QED
      BY <1>1, <1>2, <3>1, SomewhereGoes
  <2> QED
    BY <2>1, <2>2
<1> QED
  BY <1>4, <1>5

LEMMA AccountedStep == ASSUME Calm, NEW t \in Thread, NEW x, Moved(t, x), Notes(x) PROVE Accounted'
<1> SUFFICES ASSUME NEW r \in Request, resolves'[r] > 0 \/ rejects'[r] > 0 \/ Somewhere(DoneOf(r))'
             PROVE  calls'[r] > 0
  BY DEF Accounted, DoneOf, Of
<1>1. Inv /\ Typed /\ Shape /\ x \in Tasks
  BY Basics, HeadTask DEF Calm
<1>2. x \in DoneOf(r) => Somewhere(DoneOf(r))
  BY <1>1, HeadTask
<1>3. x \notin DoneOf(r) => resolves'[r] = resolves[r] /\ rejects'[r] = rejects[r]
  BY <1>1 DEF Notes, Typed, DoneOf, Of
<1>4. CASE Puts(x, DoneOf(r))
  <2>1. PICK k \in 1 .. Len(After(x)) : After(x)[k].op = "done" /\ After(x)[k].req = r
    BY <1>4 DEF Puts, DoneOf, Of
  <2>2. x.op = "call" /\ x.req = r
    BY <1>1, <2>1, HeadTask DEF Born
  <2>3. x \in CallOf(r)
    BY <1>1, <2>2 DEF CallOf, Of
  <2> QED
    BY <1>1, <2>3, CallsAre
<1>5. CASE ~Puts(x, DoneOf(r))
  <2>1. Somewhere(DoneOf(r))' => Somewhere(DoneOf(r))
    BY <1>1, <1>5, SomewhereGoes
  <2>2. resolves[r] > 0 \/ rejects[r] > 0 \/ Somewhere(DoneOf(r))
    BY <1>2, <1>3, <2>1
  <2>3. calls[r] > 0
    BY <2>2 DEF Calm, Quiet, Accounted
  <2> QED
    BY <1>1, <2>3, CallsAre
<1> QED
  BY <1>4, <1>5

LEMMA PutsRefuse ==
    ASSUME Inv, NEW t \in Thread, NEW x, Moved(t, x), NEW r \in Request, Puts(x, RefuseOf(r))
    PROVE  /\ x \in CallOf(r) /\ r \in Kept /\ IsJoin(r)
           /\ calls[r] = 0 /\ calls'[r] = 1
           /\ state[promiseOf[r]] = Rejected /\ state'[promiseOf[r]] = Rejected
<1>1. Typed /\ Shape /\ x \in Tasks /\ Proper(x)
  BY Basics, HeadTask
<1>2. PICK k \in 1 .. Len(After(x)) : After(x)[k].op = "refuse" /\ After(x)[k].req = r
  BY DEF Puts, RefuseOf, Of
<1>3. Born(x, After(x)[k]) /\ Proper(After(x)[k])
  BY <1>1, HeadTask
<1>4. x.op = "call" /\ x.req = r /\ IsJoin(r) /\ x.to # Fulfilled
  BY <1>2, <1>3 DEF Born
<1>5. r \in Kept /\ promiseOf[r] \in Core
  BY <1>4, TheKept
<1>6. x.core = promiseOf[r] /\ x.to = state[promiseOf[r]] /\ calls[r] = 0 /\ x.to \in Ends
  BY <1>4, <1>5, CallHead
<1>7. x \in CallOf(r) /\ x \notin On({"settle"}, promiseOf[r])
  BY <1>1, <1>4 DEF CallOf, Of, On
<1>8. calls'[r] = 1 /\ state'[promiseOf[r]] = state[promiseOf[r]]
  BY <1>5, <1>7, CallsAre, StateIs
<1> QED
  BY <1>4, <1>5, <1>6, <1>7, <1>8 DEF Ends

(* A join that was called, and whose promise is settled, stays so.         *)
LEMMA JoinLasts ==
    ASSUME Inv, NEW t \in Thread, NEW x, Moved(t, x), NEW r \in Kept, calls[r] = 1
    PROVE  /\ calls'[r] = 1 /\ x \notin CallOf(r)
           /\ state[promiseOf[r]] # Pending => state'[promiseOf[r]] = state[promiseOf[r]]
           /\ Puts(x, CountOf(r)) => x \in CountOf(r)
           /\ ~Puts(x, RefuseOf(r))
<1>1. r \in Request /\ promiseOf[r] \in Own /\ promiseOf[r] \in Core /\ 1 # 0 /\ Typed /\ Shape
  BY TheKept, Basics
<1>2. calls'[r] = 1 /\ x \notin CallOf(r)
  BY <1>1, CallsAre
<1>3. ~Puts(x, RefuseOf(r))
  BY <1>1, <1>2, PutsRefuse
<1>4. Puts(x, CountOf(r)) => x \in CountOf(r)
  BY <1>1, <1>2, PutsCount
<1> QED
  BY <1>1, <1>2, <1>3, <1>4, StateIs

LEMMA Refusing ==
    ASSUME Inv, NEW r \in Request, Somewhere(Of({"arrive", "count", "complete", "refuse"}, r))
    PROVE  IsJoin(r) /\ r \in Kept
<1>1. PICK u \in Thread, i \in Nat : i \in 1 .. Len(todo[u]) /\ todo[u][i] \in Of({"arrive", "count", "complete", "refuse"}, r)
  BY DEF Somewhere, Waits
<1>2. Proper(todo[u][i])
  BY <1>1, Basics DEF Shape, Formed
<1> QED
  BY <1>1, <1>2, TheKept DEF Proper, Of

LEMMA RefusesOnceStep == ASSUME Calm, NEW t \in Thread, NEW x, Moved(t, x) PROVE RefusesOnce'
<1> SUFFICES ASSUME NEW r \in Request
             PROVE  /\ Once(RefuseOf(r))'
                    /\ Somewhere(RefuseOf(r))' => calls'[r] = 1 /\ state'[promiseOf[r]] = Rejected
  BY DEF RefusesOnce, RefuseOf, Of
<1>1. /\ Inv /\ Typed /\ Shape /\ Once(RefuseOf(r)) /\ Put(x, After(x))
      /\ Somewhere(RefuseOf(r)) => calls[r] = 1 /\ state[promiseOf[r]] = Rejected
  BY Basics, Moves DEF Calm, Quiet, RefusesOnce
<1>2. \A k, m \in 1 .. Len(After(x)) : After(x)[k] \in RefuseOf(r) /\ After(x)[m] \in RefuseOf(r) => k = m
  BY <1>1 DEF Put, Singles, RefuseOf, Of
<1>3. Puts(x, RefuseOf(r)) =>
         calls[r] = 0 /\ calls'[r] = 1 /\ state'[promiseOf[r]] = Rejected
  BY <1>1, PutsRefuse
<1>4. Once(RefuseOf(r))'
  BY <1>1, <1>2, <1>3, OnceStays
<1>5. Somewhere(RefuseOf(r)) => r \in Kept
  <2>1. Somewhere(RefuseOf(r)) => Somewhere(Of({"arrive", "count", "complete", "refuse"}, r))
    BY DEF Somewhere, Waits, RefuseOf, Of
  <2> QED
    BY <1>1, <2>1, Refusing
<1>6. Somewhere(RefuseOf(r)) => calls'[r] = 1 /\ state'[promiseOf[r]] = Rejected
  BY <1>1, <1>5, JoinLasts DEF Rejected, Pending
<1>7. Somewhere(RefuseOf(r))' => Somewhere(RefuseOf(r)) \/ Puts(x, RefuseOf(r))
  BY <1>1, SomewhereGoes
<1> QED
  BY <1>3, <1>4, <1>6, <1>7

LEMMA AnsweredLasts ==
    ASSUME Inv, NEW t \in Thread, NEW x, Moved(t, x), NEW q \in Kept, Answered(q)
    PROVE  Answered(q)'
<1>1. q \in Request /\ Typed /\ Shape
  BY TheKept, Basics
<1>2. calls'[q] = 1 /\ ~Puts(x, RefuseOf(q)) /\ (Puts(x, CountOf(q)) => x \in CountOf(q))
  BY JoinLasts DEF Answered
<1>3. x \notin CountOf(q)
  BY <1>1, HeadTask DEF Answered
<1>4. ~Somewhere(CountOf(q))' /\ ~Somewhere(RefuseOf(q))'
  BY <1>1, <1>2, <1>3, SomewhereGoes DEF Answered
<1> QED
  BY <1>2, <1>4 DEF Answered, CountOf, RefuseOf, Of

-------------------------------------------------------------------------------
(* Who notes that a whole is over.                                         *)
LEMMA FlagWith ==
    ASSUME Inv, NEW t \in Thread, NEW x, Moved(t, x), NEW c \in Own, Puts(x, SettleOf(c)),
           x.op \in {"arrive", "refuse"}
    PROVE  Puts(x, FlagOf(c))
<1>1. Typed /\ Shape /\ Proper(x) /\ x \in Tasks /\ c \in Core /\ Fulfilled \in Ends /\ Rejected \in Ends
  BY Basics, HeadTask DEF Own, Ends
<1>2. x.core = c /\ x.req \in Request
  BY <1>1, SettleFrom DEF Proper
<1>4. CASE x.op = "arrive"
  <2> DEFINE f == Task("flag", c, x.req, Fulfilled)
             s == Settled(c, Fulfilled)
  <2>1. kind[x.req] = "any"
    <3>1. PICK m \in 1 .. Len(After(x)) : After(x)[m].op = "settle" /\ After(x)[m].core = c
      BY DEF Puts, SettleOf, On
    <3>2. Born(x, After(x)[m]) /\ Proper(After(x)[m])
      BY <1>1, <3>1, HeadTask
    <3> QED
      BY <1>4, <3>1, <3>2 DEF Born, Proper, Ends
  <2>2. ~over[c]
    <3>1. over[c] => After(x) = <<>>
      BY <1>2, <1>4 DEF After
    <3> QED
      BY <3>1 DEF Puts
  <2>3. After(x) = s \o <<f>>
    BY <1>2, <1>4, <2>1, <2>2 DEF After
  <2>4. f \in Tasks /\ f.op = "flag" /\ f.core = c /\ s \in Seq(Tasks) /\ Len(s) = 5
    BY <1>1, <1>2, TaskIn, SettledFormed
  <2> HIDE DEF f, s
  <2>5. <<f>> \in Seq(Tasks) /\ Len(<<f>>) = 1 /\ <<f>>[1] = f
    BY <2>4
  <2>6. /\ Len(s \o <<f>>) = Len(s) + Len(<<f>>)
        /\ \A i \in 1 .. Len(<<f>>) : (s \o <<f>>)[Len(s) + i] = <<f>>[i]
    BY <2>4, <2>5, Joined
  <2>7. Len(After(x)) = 6 /\ After(x)[6] = f
    <3> DEFINE g == <<f>>
    <3> HIDE DEF g
    <3>1. Len(s \o g) = 6 /\ (s \o g)[5 + 1] = g[1]
      BY <2>4, <2>5, <2>6 DEF g
    <3> QED
      BY <2>3, <2>5, <3>1 DEF g
  <2>8. 6 \in 1 .. Len(After(x)) /\ After(x)[6] \in FlagOf(c)
    BY <2>4, <2>7 DEF FlagOf, On
  <2> QED
    BY <2>8 DEF Puts
<1>5. CASE x.op = "refuse"
  <2> DEFINE f == Task("flag", c, x.req, Rejected)
             s == Settled(c, Rejected)
  <2>1. ~(kind[x.req] = "range" /\ over[c])
    <3>1. kind[x.req] = "range" /\ over[c] => After(x) = <<>>
      BY <1>2, <1>5 DEF After
    <3> QED
      BY <3>1 DEF Puts
  <2>2. After(x) = <<f>> \o s
    BY <1>2, <1>5, <2>1 DEF After
  <2>3. f \in Tasks /\ f.op = "flag" /\ f.core = c /\ s \in Seq(Tasks) /\ Len(s) = 5
    BY <1>1, <1>2, TaskIn, SettledFormed
  <2> HIDE DEF f, s
  <2>4. <<f>> \in Seq(Tasks) /\ Len(<<f>>) = 1 /\ <<f>>[1] = f
    BY <2>3
  <2>5. /\ Len(<<f>> \o s) = Len(<<f>>) + Len(s)
        /\ \A i \in 1 .. Len(<<f>>) : (<<f>> \o s)[i] = <<f>>[i]
    BY <2>3, <2>4, Joined
  <2>6. Len(After(x)) = 6 /\ After(x)[1] = f
    <3> DEFINE g == <<f>>
    <3> HIDE DEF g
    <3>1. Len(g \o s) = 6 /\ (g \o s)[1] = g[1]
      BY <2>3, <2>4, <2>5 DEF g
    <3> QED
      BY <2>2, <2>4, <3>1 DEF g
  <2>7. 1 \in 1 .. Len(After(x)) /\ After(x)[1] \in FlagOf(c)
    BY <2>3, <2>6 DEF FlagOf, On
  <2> QED
    BY <2>7 DEF Puts
<1> QED
  BY <1>4, <1>5, SettleFrom

LEMMA FlagFrom ==
    ASSUME Inv, NEW t \in Thread, NEW x, Moved(t, x), NEW k \in 1 .. Len(After(x)), NEW c, After(x)[k] \in FlagOf(c)
    PROVE  /\ x.op \in {"arrive", "refuse"} /\ x.core = c /\ x.req \in Request /\ IsJoin(x.req) /\ chain[x.req] = c
           /\ x.op = "arrive" => kind[x.req] = "any"
           /\ x \in On(Works \cup {"run"}, c)
<1>1. Born(x, After(x)[k]) /\ Proper(x) /\ x \in Tasks
  BY Basics, HeadTask
<1>2. After(x)[k].op = "flag" /\ After(x)[k].core = c
  BY DEF FlagOf, On
<1>3. x.op \in {"arrive", "refuse"} /\ x.core = c /\ (x.op = "arrive" => kind[x.req] = "any")
  BY <1>1, <1>2 DEF Born
<1> QED
  BY <1>1, <1>3 DEF Proper, On, Works

LEMMA NewAnswer ==
    ASSUME Calm, NEW t \in Thread, NEW x, Moved(t, x), NEW c \in Own, NEW e \in Ends, Puts(x, Turns(c, e)),
           e = Fulfilled => c \notin Alls
    PROVE  /\ x.op \in {"arrive", "refuse"} /\ x.req \in JoinsOf(c)
           /\ Answered(x.req)' /\ state'[promiseOf[x.req]] = e
<1> DEFINE r == x.req
<1>1. Inv /\ Counting /\ Quiet /\ Typed /\ Shape /\ Proper(x) /\ x \in Tasks
  BY Basics, HeadTask DEF Calm
<1>2. Puts(x, SettleOf(c))
  BY TurnsSettle
<1>3. x.op \in {"arrive", "complete", "refuse"} /\ x.core = c /\ r \in JoinsOf(c) /\ r \in Kept
  BY <1>1, <1>2, SettleFrom
<1>4. PICK k \in 1 .. Len(After(x)) : After(x)[k].op = "settle" /\ After(x)[k].core = c /\ After(x)[k].to = e
  BY DEF Puts, Turns
<1>5. Born(x, After(x)[k])
  BY <1>1, <1>4, HeadTask
<1>6. \/ e = Fulfilled /\ x.op = "arrive" /\ kind[r] = "any"
      \/ e = Fulfilled /\ x.op = "complete"
      \/ e = Rejected /\ x.op = "refuse"
  BY <1>4, <1>5 DEF Born, Ends
<1>7. x.op # "complete"
  <2> SUFFICES ASSUME x.op = "complete" PROVE FALSE
    OBVIOUS
  <2>1. kind[r] # "any" /\ r \in Request /\ IsJoin(r) /\ chain[r] = c
    BY <1>1, <1>3 DEF Proper
  <2>2. e = Fulfilled
    BY <1>6 DEF Fulfilled
  <2> QED
    BY <2>1, <2>2, NoAlls
<1>8. x.req = r /\ r \in Request /\ promiseOf[r] \in Core /\ promiseOf[r] \in Own /\ x.op # "settle" /\ x.op # "call"
  BY <1>3, <1>7, TheKept
<1>9. state'[promiseOf[r]] = state[promiseOf[r]] /\ Rejected # Fulfilled
  BY <1>1, <1>8, StateIs DEF On, Rejected, Fulfilled
<1>10. CASE e = Fulfilled /\ x.op = "arrive" /\ kind[r] = "any"
  <2>1. x \in CountOf(r)
    BY <1>1, <1>10 DEF CountOf, Of
  <2> HIDE DEF r
  <2>2. Somewhere(CountOf(r))
    BY <1>1, <2>1, HeadTask
  <2>3. calls[r] = 1 /\ state[promiseOf[r]] = Fulfilled /\ Once(CountOf(r))
    BY <1>1, <1>8, <2>2 DEF Counting, CountsOnce
  <2>4. calls'[r] = 1 /\ ~Puts(x, RefuseOf(r))
    BY <1>1, <1>3, <2>3, JoinLasts
  <2>5. ~Puts(x, CountOf(r))
    <3> SUFFICES ASSUME NEW m \in 1 .. Len(After(x)), After(x)[m].op \in {"arrive", "count"}, After(x)[m].req = r
                 PROVE  FALSE
      BY DEF Puts, CountOf, Of
    <3>1. Born(x, After(x)[m]) /\ Proper(After(x)[m])
      BY <1>1, HeadTask
    <3> QED
      BY <1>8, <1>10, <3>1 DEF Born, Proper
  <2>6. ~Somewhere(CountOf(r))'
    BY <1>1, <2>1, <2>3, <2>5, OnceGone
  <2>7. ~Somewhere(RefuseOf(r))
    BY <1>1, <1>8, <1>9, <2>3 DEF Quiet, RefusesOnce
  <2>8. ~Somewhere(RefuseOf(r))'
    BY <1>1, <2>4, <2>7, SomewhereGoes
  <2>9. Answered(r)'
    BY <2>4, <2>6, <2>8 DEF Answered, CountOf, RefuseOf, Of
  <2> QED
    BY <1>3, <1>8, <1>9, <1>10, <2>3, <2>9
<1>11. CASE e = Rejected /\ x.op = "refuse"
  <2>1. x \in RefuseOf(r) /\ x \notin CountOf(r)
    BY <1>1, <1>11 DEF RefuseOf, CountOf, Of
  <2> HIDE DEF r
  <2>2. Somewhere(RefuseOf(r))
    BY <1>1, <2>1, HeadTask
  <2>3. calls[r] = 1 /\ state[promiseOf[r]] = Rejected /\ Once(RefuseOf(r))
    BY <1>1, <1>8, <2>2 DEF Quiet, RefusesOnce
  <2>4. calls'[r] = 1 /\ ~Puts(x, RefuseOf(r)) /\ ~Puts(x, CountOf(r))
    BY <1>1, <1>3, <2>1, <2>3, JoinLasts
  <2>5. ~Somewhere(RefuseOf(r))'
    BY <1>1, <2>1, <2>3, <2>4, OnceGone
  <2>6. ~Somewhere(CountOf(r))
    BY <1>1, <1>8, <1>9, <2>3 DEF Counting, CountsOnce
  <2>7. ~Somewhere(CountOf(r))'
    BY <1>1, <2>4, <2>6, SomewhereGoes
  <2>8. Answered(r)'
    BY <2>4, <2>5, <2>7 DEF Answered, CountOf, RefuseOf, Of
  <2> QED
    BY <1>3, <1>8, <1>9, <1>11, <2>3, <2>8
<1> QED
  BY <1>6, <1>7, <1>10, <1>11

LEMMA OverLasts ==
    ASSUME Calm, NEW t \in Thread, NEW x, Moved(t, x), Notes(x), NEW c \in Own, over[c] \/ Somewhere(FlagOf(c))
    PROVE  over'[c] \/ Somewhere(FlagOf(c))'
<1>1. Inv /\ Typed /\ Shape /\ x \in Tasks /\ c \in Core
  BY Basics, HeadTask DEF Calm, Own
<1>2. over[c] => over'[c]
  BY <1>1 DEF Typed, Notes
<1>3. x \in FlagOf(c) => over'[c]
  BY <1>1 DEF Typed, Notes, FlagOf, On
<1> QED
  BY <1>1, <1>2, <1>3, SomewhereGoes

LEMMA TurnedByStep == ASSUME Calm, NEW t \in Thread, NEW x, Moved(t, x), Notes(x) PROVE TurnedBy'
<1> SUFFICES ASSUME NEW c \in Own, NEW e \in Ends, JoinsOf(c) # {}, Turning(c, e)', e = Fulfilled => c \notin Alls
             PROVE  /\ \E q \in JoinsOf(c) : Answered(q)' /\ state'[promiseOf[q]] = e
                    /\ over'[c] \/ Somewhere(FlagOf(c))'
  BY DEF TurnedBy, JoinsOf, Alls, FlagOf, On
<1>1. Inv /\ Quiet /\ Typed /\ Shape
  BY Basics DEF Calm
<1>2. CASE Turning(c, e)
  <2>1. PICK q \in JoinsOf(c) : Answered(q) /\ state[promiseOf[q]] = e
    BY <1>1, <1>2 DEF Quiet, TurnedBy
  <2>2. over[c] \/ Somewhere(FlagOf(c))
    BY <1>1, <1>2 DEF Quiet, TurnedBy
  <2>3. q \in Kept /\ e # Pending
    BY TheKept DEF JoinsOf, Ends, Pending, Fulfilled, Rejected
  <2>4. Answered(q)' /\ state'[promiseOf[q]] = e
    BY <1>1, <2>1, <2>3, AnsweredLasts, JoinLasts DEF Answered
  <2> QED
    BY <2>1, <2>2, <2>4, OverLasts
<1>3. CASE Puts(x, Turns(c, e))
  <2>1. x.op \in {"arrive", "refuse"} /\ x.req \in JoinsOf(c) /\ Answered(x.req)' /\ state'[promiseOf[x.req]] = e
    BY <1>3, NewAnswer
  <2>2. Puts(x, SettleOf(c))
    BY <1>3, TurnsSettle
  <2>3. Puts(x, FlagOf(c))
    BY <1>1, <2>1, <2>2, FlagWith
  <2>4. Somewhere(FlagOf(c))'
    BY <1>1, <2>3, SomewhereGoes
  <2> QED
    BY <2>1, <2>4
<1> QED
  BY <1>1, <1>2, <1>3, TurningFrom

-------------------------------------------------------------------------------
LEMMA FlagsHomeStep == ASSUME Calm, NEW t \in Thread, NEW x, Moved(t, x) PROVE FlagsHome'
<1> SUFFICES ASSUME NEW c \in Own, NEW u \in Thread, Waits(u, FlagOf(c))' PROVE resolver[c] \in {u, Null}
  BY DEF FlagsHome, FlagOf, On
<1>1. Inv /\ Quiet /\ Typed /\ Shape
  BY Basics DEF Calm
<1>2. CASE Waits(u, FlagOf(c))
  BY <1>1, <1>2 DEF Quiet, Flags, FlagsHome
<1>3. CASE u = t /\ Puts(x, FlagOf(c))
  <2>1. x \in On(Works \cup {"run"}, c)
    BY <1>1, <1>3, FlagFrom DEF Puts
  <2>2. Waits(t, On(Works \cup {"run"}, c))
    BY <1>1, <2>1, HeadTask
  <2> QED
    BY <1>1, <1>3, <2>2 DEF Inv, Working, ResolverWorks
<1> QED
  BY <1>1, <1>2, <1>3, Comes

LEMMA FlagsFirstStep == ASSUME Calm, NEW t \in Thread, NEW x, Moved(t, x) PROVE FlagsFirst'
<1> SUFFICES ASSUME NEW c \in Alls, NEW u \in Thread, NEW i \in 1 .. Len(todo'[u]), todo'[u][i] \in FlagOf(c)
             PROVE  i = 1
  BY DEF FlagsFirst, FlagOf, On, Alls, JoinsOf
<1>1. Inv /\ Quiet /\ Typed /\ Shape /\ Proper(x)
  BY Basics, HeadTask DEF Calm
<1>2. CASE Fresh(t, x, u, i)
  <2>1. i \in 1 .. Len(After(x)) /\ After(x)[i] \in FlagOf(c)
    BY <1>2 DEF Fresh
  <2>2. /\ x.op \in {"arrive", "refuse"} /\ x.core = c /\ x.req \in JoinsOf(c)
        /\ x.op = "arrive" => kind[x.req] = "any"
    BY <1>1, <2>1, FlagFrom DEF JoinsOf
  <2>3. x.op = "refuse" /\ x.req \in Request /\ c \in Core
    BY <2>2, TheAlls
  <2> DEFINE f == Task("flag", c, x.req, Rejected)
             s == Settled(c, Rejected)
  <2>4. ~(kind[x.req] = "range" /\ over[c])
    <3>1. kind[x.req] = "range" /\ over[c] => After(x) = <<>>
      BY <2>2, <2>3 DEF After
    <3> QED
      BY <2>1, <3>1
  <2>5. After(x) = <<f>> \o s
    BY <2>2, <2>3, <2>4 DEF After
  <2>6. f \in Tasks /\ f.op = "flag" /\ f.core = c
    BY <2>3, TaskIn
  <2>7. c \in Own /\ Rejected \in Ends
    BY TheAlls DEF Ends
  <2>8. s \in Seq(Tasks) /\ Len(s) = 5
    BY <2>7, SettledFormed
  <2> HIDE DEF f, s
  <2>9. <<f>> \in Seq(Tasks) /\ Len(<<f>>) = 1 /\ <<f>>[1] = f
    BY <2>6
  <2>10. /\ Len(<<f>> \o s) = Len(<<f>>) + Len(s)
         /\ \A k \in 1 .. Len(<<f>>) : (<<f>> \o s)[k] = <<f>>[k]
    BY <2>8, <2>9, Joined
  <2>11. 1 \in 1 .. Len(After(x)) /\ After(x)[1] = f
    <3> DEFINE g == <<f>>
    <3> HIDE DEF g
    <3>1. Len(g \o s) = 6 /\ (g \o s)[1] = g[1]
      BY <2>8, <2>9, <2>10 DEF g
    <3> QED
      BY <2>5, <2>9, <3>1 DEF g
  <2>12. After(x)[i].op = After(x)[1].op /\ After(x)[i].op \in Singles
    BY <2>1, <2>6, <2>11 DEF FlagOf, On, Singles
  <2>13. Put(x, After(x))
    BY <1>1, Moves
  <2> QED
    BY <2>1, <2>11, <2>12, <2>13 DEF Put
<1>3. CASE \E j \in 1 .. Len(todo[u]) :
             Rest(t, u, j) /\ i = Shift(t, Len(After(x)), u, j) /\ todo'[u][i] = todo[u][j]
  <2>1. PICK j \in 1 .. Len(todo[u]) :
                Rest(t, u, j) /\ i = Shift(t, Len(After(x)), u, j) /\ todo'[u][i] = todo[u][j]
    BY <1>3
  <2>2. j = 1
    BY <1>1, <2>1 DEF Quiet, Flags, FlagsFirst
  <2> QED
    BY <2>1, <2>2 DEF Rest, Shift
<1> QED
  BY <1>1, <1>2, <1>3, Moves

(* Where RejectedRight says that a Resolver or a Rejection settles what is *)
(* waited for.                                                             *)
LEMMA Plain ==
    ASSUME UsedRight, NEW r \in Request, kind[r] \in {"all", "any"}, NEW q \in JoinsOf(chain[r])
    PROVE  /\ IsJoin(r) /\ IsJoin(q) /\ q \in Request /\ chain[q] = chain[r]
           /\ JoinsOf(promiseOf[r]) = {} /\ JoinsOf(promiseOf[q]) = {}
<1>1. IsJoin(r) /\ kind[r] # "range"
  BY Kinds
<1>2. r \in JoinsOf(chain[r])
  BY <1>1, NoAlls
<1> QED
  BY <1>1, <1>2 DEF UsedRight, RejectedRight, JoinsOf

LEMMA FlagsBeforeStep == ASSUME Calm, UsedRight, NEW t \in Thread, NEW x, Moved(t, x) PROVE FlagsBefore'
<1> SUFFICES ASSUME NEW c \in Own \ Alls, NEW r \in JoinsOf(c) PROVE InOrder(FlagOf(c), Path(r))'
  BY DEF FlagsBefore, FlagOf, On, Alls, JoinsOf, Path, InOrder
<1>1. Inv /\ Quiet /\ Typed /\ Shape
  BY Basics DEF Calm
<1>2. r \in Request /\ IsJoin(r) /\ chain[r] = c
  BY DEF JoinsOf
<1>3. kind[r] = "any"
  BY <1>2, NoAlls
<1>4. JoinsOf(promiseOf[r]) = {}
  BY <1>2, <1>3, Plain
<1>5. InOrder(FlagOf(c), Path(r))
  BY <1>1 DEF Quiet, Flags, FlagsBefore
<1>6. \A k, m \in 1 .. Len(After(x)) : ~(After(x)[k] \in FlagOf(c) /\ After(x)[m] \in Path(r))
  <2> SUFFICES ASSUME NEW k \in 1 .. Len(After(x)), NEW m \in 1 .. Len(After(x)),
                      After(x)[k] \in FlagOf(c), After(x)[m] \in Path(r)
               PROVE  FALSE
    OBVIOUS
  <2>1. x.op \in {"arrive", "refuse"}
    BY <1>1, FlagFrom
  <2>2. Puts(x, Path(r))
    BY DEF Puts
  <2>3. x.op \in {"attach", "run", "call"}
    BY <1>1, <1>2, <1>4, <2>2, PathFrom
  <2> QED
    BY <2>1, <2>3
<1>7. Puts(x, Path(r)) => x \in Path(r)
  BY <1>1, <1>2, <1>4, PathFrom
<1> QED
  BY <1>1, <1>5, <1>6, <1>7, OrderStays

LEMMA FilledLastStep == ASSUME Calm, NEW t \in Thread, NEW x, Moved(t, x) PROVE FilledLast'
<1> SUFFICES ASSUME NEW c \in Alls, Turning(c, Fulfilled)', NEW r \in JoinsOf(c)
             PROVE  calls'[r] = 1 /\ ~Somewhere(CountOf(r))' /\ ~Somewhere(CompleteOf(r))'
  BY DEF FilledLast, CountOf, CompleteOf, Of, Alls, JoinsOf
<1>1. Inv /\ Quiet /\ Typed /\ Shape /\ c \in Own /\ r \in Kept /\ r \in Request /\ Fulfilled \in Ends /\ x \in Tasks
  BY Basics, TheAlls, HeadTask DEF Calm, Ends
<1>2. /\ calls[r] = 1 /\ ~Somewhere(CountOf(r))
      /\ Somewhere(CompleteOf(r)) => Puts(x, SettleOf(c)) /\ x.op = "complete"
  <2>1. CASE Turning(c, Fulfilled)
    BY <1>1, <2>1 DEF Quiet, FilledLast
  <2>2. CASE Puts(x, Turns(c, Fulfilled))
    <3>1. PICK k \in 1 .. Len(After(x)) :
                  After(x)[k].op = "settle" /\ After(x)[k].core = c /\ After(x)[k].to = Fulfilled
      BY <2>2 DEF Puts, Turns
    <3>2. Puts(x, SettleOf(c))
      BY <2>2, TurnsSettle
    <3>3. Born(x, After(x)[k])
      BY <1>1, HeadTask
    <3>4. x.op = "complete" \/ kind[x.req] = "any"
      BY <1>1, <3>1, <3>3 DEF Born
    <3>5. x.req \in JoinsOf(c)
      BY <1>1, <3>2, SettleFrom
    <3>6. x.op = "complete"
      BY <3>4, <3>5, TheAlls
    <3>7. Counted(c) = JoinsOf(c)
      BY <1>1, <3>2, <3>6, CompleteAlone
    <3> QED
      BY <3>2, <3>6, <3>7 DEF Counted
  <2> QED
    BY <1>1, <2>1, <2>2, TurningFrom
<1>3. calls'[r] = 1 /\ (Puts(x, CountOf(r)) => x \in CountOf(r))
  BY <1>1, <1>2, JoinLasts
<1>4. ~Somewhere(CountOf(r))' /\ x \notin CountOf(r)
  BY <1>1, <1>2, <1>3, HeadTask, SomewhereGoes
<1>5. ~Puts(x, CompleteOf(r))
  <2> SUFFICES ASSUME NEW k \in 1 .. Len(After(x)), After(x)[k].op = "complete", After(x)[k].req = r PROVE FALSE
    BY DEF Puts, CompleteOf, Of
  <2>1. Born(x, After(x)[k])
    BY <1>1, HeadTask
  <2> QED
    BY <1>1, <1>4, <2>1 DEF Born, CountOf, Of
<1>6. ASSUME NEW v \in Thread, Waits(v, CompleteOf(r))' PROVE FALSE
  <2>1. Waits(v, CompleteOf(r))
    BY <1>1, <1>5, <1>6, Comes
  <2>2. Puts(x, SettleOf(c)) /\ x.op = "complete" /\ x \in On(Works, c)
    BY <1>1, <1>2, <2>1, SettleFrom DEF Somewhere
  <2>3. Work(t, c)
    BY <1>1, <2>2, HeadTask DEF Work
  <2>4. PICK i \in 1 .. Len(todo[v]) : todo[v][i] \in CompleteOf(r)
    BY <2>1 DEF Waits
  <2>5. Proper(todo[v][i]) /\ todo[v][i] \in Tasks /\ todo[v][i].op = "complete" /\ todo[v][i].req = r
    BY <1>1, <2>4 DEF Shape, Formed, Proper, CompleteOf, Of
  <2>6. todo[v][i].core = c
    BY <2>5 DEF Proper, JoinsOf
  <2>7. Work(v, c)
    BY <2>5, <2>6 DEF Work, Waits, On, Works
  <2>8. v = t
    BY <1>1, <2>3, <2>7 DEF Inv, Working, OneWorks
  <2>9. ASSUME NEW k \in 1 .. Len(todo[t]), todo[t][k] \in CompleteOf(r) PROVE k = 1
    <3> SUFFICES ASSUME k # 1 PROVE FALSE
      OBVIOUS
    <3>1. todo[t] \in Seq(Tasks) /\ Formed(todo[t])
      BY <1>1 DEF Typed, Shape
    <3> DEFINE s == todo[t]
    <3> HIDE DEF s
    <3>2. Len(s) \in Nat /\ k \in 1 .. Len(s)
      BY <2>9, <3>1 DEF s
    <3>3. k - 1 \in 1 .. Len(s) - 1 /\ (k - 1) + 1 = k /\ k - 1 \in 1 .. Len(s)
      BY <3>2
    <3>4. Follows(s[k - 1], s[k])
      BY <3>1, <3>3 DEF Formed, s
    <3>5. s[k].op = "complete" /\ s[k].req = r
      BY <2>9 DEF CompleteOf, Of, s
    <3>6. s[k - 1].op = "count"
      BY <3>4, <3>5 DEF Follows
    <3>7. s[k] = Task("complete", s[k - 1].core, s[k - 1].req, s[k - 1].to)
      BY <3>4, <3>6 DEF Follows
    <3>8. s[k - 1].req = r /\ s[k - 1] \in Tasks
      BY <3>1, <3>3, <3>5, <3>7, TaskIn DEF s
    <3>9. s[k - 1] \in CountOf(r)
      BY <3>6, <3>8 DEF CountOf, Of
    <3>10. Somewhere(CountOf(r))
      BY <3>3, <3>9 DEF Somewhere, Waits, s
    <3> QED
      BY <1>2, <3>10
  <2>10. PICK m \in 1 .. Len(todo'[t]) : todo'[t][m] \in CompleteOf(r)
    BY <1>6, <2>8 DEF Waits, CompleteOf, Of
  <2>11. \/ Fresh(t, x, t, m)
         \/ \E j \in 1 .. Len(todo[t]) : Rest(t, t, j) /\ todo'[t][m] = todo[t][j]
    BY <1>1, Moves
  <2>12. ~Fresh(t, x, t, m)
    BY <1>5, <2>10 DEF Fresh, Puts
  <2>13. PICK j \in 1 .. Len(todo[t]) : Rest(t, t, j) /\ todo'[t][m] = todo[t][j]
    BY <2>11, <2>12
  <2>14. j = 1
    BY <2>9, <2>10, <2>13
  <2> QED
    BY <2>13, <2>14 DEF Rest
<1> QED
  BY <1>3, <1>4, <1>6 DEF Somewhere, CompleteOf, Of

-------------------------------------------------------------------------------
LEMMA TurningPlain ==
    ASSUME Inv, NEW t \in Thread, NEW x, Moved(t, x), NEW c \in Own, JoinsOf(c) = {}, NEW e \in Ends, Turning(c, e)'
    PROVE  Turning(c, e)
<1>1. ~Puts(x, SettleOf(c))
  BY SettleFrom
<1> QED
  BY <1>1, TurnsSettle, TurningFrom

LEMMA RejectedAloneStep ==
    ASSUME Calm, UsedRight, NEW t \in Thread, NEW x, Moved(t, x) PROVE RejectedAlone'
<1> SUFFICES ASSUME NEW r \in Request, kind[r] = "all", NEW q \in JoinsOf(chain[r]) \ {r},
                    Turning(promiseOf[r], Rejected)', Turning(promiseOf[q], Rejected)'
             PROVE  FALSE
  BY DEF RejectedAlone, JoinsOf, Turning, Turns
<1>1. IsJoin(r) /\ IsJoin(q) /\ q \in Request /\ JoinsOf(promiseOf[r]) = {} /\ JoinsOf(promiseOf[q]) = {}
  BY Plain
<1>2. promiseOf[r] \in Own /\ promiseOf[q] \in Own /\ Rejected \in Ends
  BY <1>1, TheKept DEF Ends
<1>3. Turning(promiseOf[r], Rejected) /\ Turning(promiseOf[q], Rejected)
  BY <1>1, <1>2, TurningPlain DEF Calm
<1> QED
  BY <1>3 DEF Calm, Quiet, RejectedAlone

LEMMA RejectedFirstStep ==
    ASSUME Calm, UsedRight, NEW t \in Thread, NEW x, Moved(t, x) PROVE RejectedFirst'
<1> SUFFICES ASSUME NEW r \in Request, kind[r] = "any", NEW q \in JoinsOf(chain[r]) \ {r},
                    Turning(promiseOf[r], Rejected)'
             PROVE  /\ state'[promiseOf[q]] # Pending => ~Somewhere(Path(r))'
                    /\ InOrder(Path(r), SettleOf(promiseOf[q]))'
  BY DEF RejectedFirst, JoinsOf, Turning, Turns, Path, SettleOf, On, InOrder
<1>0. Inv /\ Quiet /\ Typed /\ Shape /\ x \in Tasks
  BY Basics, HeadTask DEF Calm
<1>1. /\ IsJoin(r) /\ IsJoin(q) /\ q \in Request /\ chain[q] = chain[r]
      /\ JoinsOf(promiseOf[r]) = {} /\ JoinsOf(promiseOf[q]) = {}
  BY Plain
<1>2. promiseOf[r] \in Own /\ promiseOf[q] \in Own /\ promiseOf[q] \in Core /\ Rejected \in Ends
  BY <1>1, TheKept DEF Ends
<1>3. Turning(promiseOf[r], Rejected)
  BY <1>0, <1>1, <1>2, TurningPlain
<1>4. /\ state[promiseOf[q]] # Pending => ~Somewhere(Path(r))
      /\ InOrder(Path(r), SettleOf(promiseOf[q]))
  BY <1>0, <1>3 DEF Quiet, RejectedFirst
<1>5. ~Puts(x, SettleOf(promiseOf[q]))
  BY <1>0, <1>1, <1>2, SettleFrom
<1>6. Puts(x, Path(r)) => x \in Path(r) /\ x.op \in {"attach", "run", "call"}
  BY <1>0, <1>1, PathFrom
<1>7. InOrder(Path(r), SettleOf(promiseOf[q]))'
  BY <1>0, <1>4, <1>5, OrderStays DEF Puts
<1>8. ASSUME state'[promiseOf[q]] # Pending, Somewhere(Path(r))' PROVE FALSE
  <2>1. Somewhere(Path(r))
    BY <1>0, <1>6, <1>8, HeadTask, SomewhereGoes
  <2>2. state[promiseOf[q]] = Pending
    BY <1>4, <2>1
  <2>3. x \in SettleOf(promiseOf[q])
    BY <1>0, <1>2, <1>8, <2>2, StateIs DEF SettleOf
  <2>4. x.op = "settle" /\ x.core = promiseOf[q]
    BY <2>3 DEF SettleOf, On
  <2>5. PICK u \in Thread : Waits(u, Path(r))'
    BY <1>8 DEF Somewhere, Path
  <2>6. Waits(u, Path(r))
    BY <1>0, <1>6, <2>4, <2>5, Comes
  <2>7. resolver[chain[r]] # Null
    BY <1>1, OneHome
  <2>8. resolver[chain[r]] = u
    BY <1>0, <1>1, <2>6, <2>7, JoinsHome
  <2>9. x \in Path(q)
    BY <1>0, <2>4 DEF Path
  <2>10. Waits(t, Path(q))
    BY <1>0, <2>9, HeadTask
  <2>11. resolver[chain[q]] = t
    BY <1>0, <1>1, <2>7, <2>10, JoinsHome
  <2>12. PICK i \in 1 .. Len(todo[t]) : todo[t][i] \in Path(r)
    BY <1>1, <2>6, <2>8, <2>11 DEF Waits
  <2>13. todo[t][1] \in SettleOf(promiseOf[q]) /\ 1 \in 1 .. Len(todo[t])
    BY <1>0, <2>3, HeadTask
  <2>14. i < 1
    BY <1>4, <2>12, <2>13 DEF InOrder
  <2> QED
    BY <2>14
<1> QED
  BY <1>7, <1>8

LEMMA CalmMoved ==
    ASSUME Calm, UsedRight, NEW t \in Thread, NEW x, Moved(t, x), Notes(x)
    PROVE  Quiet'
<1>1. SettlesOnce' /\ Accounted' /\ RefusesOnce' /\ TurnedBy'
  BY SettlesOnceStep, AccountedStep, RefusesOnceStep, TurnedByStep
<1>2. FlagsHome' /\ FlagsFirst' /\ FlagsBefore'
  BY FlagsHomeStep, FlagsFirstStep, FlagsBeforeStep
<1>3. FilledLast' /\ RejectedAlone' /\ RejectedFirst'
  BY FilledLastStep, RejectedAloneStep, RejectedFirstStep
<1> QED
  BY <1>1, <1>2, <1>3 DEF Quiet, Flags

LEMMA QuietSame == ASSUME Quiet, UNCHANGED vars PROVE Quiet'
<1>1. UNCHANGED <<state, resolves, rejects, over, todo, calls>>
  BY DEF vars
<1>2. SettlesOnce' /\ Accounted' /\ RefusesOnce'
  BY <1>1 DEF Quiet, SettlesOnce, Accounted, RefusesOnce, Once, Somewhere, Waits
<1>3. TurnedBy'
  BY <1>1 DEF Quiet, TurnedBy, Turning, Answered, Somewhere, Waits
<1>4. Flags'
  BY <1>1 DEF Quiet, Flags, FlagsHome, FlagsFirst, FlagsBefore, InOrder, Somewhere, Waits
<1>5. FilledLast'
  BY <1>1 DEF Quiet, FilledLast, Turning, Somewhere, Waits
<1>6. RejectedAlone' /\ RejectedFirst'
  BY <1>1 DEF Quiet, RejectedAlone, RejectedFirst, Turning, InOrder, Somewhere, Waits
<1> QED
  BY <1>2, <1>3, <1>4, <1>5, <1>6 DEF Quiet

(* No thread throws in a step.                                             *)
LEMMA CalmStep == Calm /\ ~crashed /\ UsedRight /\ [Next]_vars => Calm' /\ ~crashed'
<1> SUFFICES ASSUME Calm, ~crashed, UsedRight, [Next]_vars PROVE Calm' /\ ~crashed'
  OBVIOUS
<1>1. Inv' /\ Counting'
  BY InvStep, CountingStep DEF Calm
<1>2. ASSUME NEW t \in Thread, Step(t) PROVE Quiet' /\ ~crashed'
  <2>1. Moved(t, Head(todo[t])) /\ Notes(Head(todo[t]))
    BY <1>2, NoThrow DEF UsedRight
  <2>2. Quiet'
    BY <2>1, CalmMoved
  <2> QED
    BY <2>1, <2>2 DEF Moved
<1>3. ASSUME UNCHANGED vars PROVE Quiet' /\ ~crashed'
  BY <1>3, QuietSame DEF Calm, vars
<1>4. Quiet' /\ ~crashed'
  BY <1>2, <1>3 DEF Next, Stop
<1> QED
  BY <1>1, <1>4 DEF Calm

-------------------------------------------------------------------------------
(* Before the first step nothing was settled twice, nor rejected.          *)
LEMMA SettlesAtFirst ==
    ASSUME Init, SettledOnce, NEW u \in Thread, NEW v \in Thread,
           NEW i \in 1 .. Len(todo[u]), NEW j \in 1 .. Len(todo[v]), NEW c,
           todo[u][i] \in SettleOf(c), todo[v][j] \in SettleOf(c)
    PROVE  u = v /\ i = j /\ JoinsOf(c) = {} /\ resolver[c] = u
<1>1. todo \in Scripts /\ todo[u] \in Seq(Tasks) /\ Null \notin Thread
  BY AtFirst, PromiseAssumption DEF Typed
<1>2. todo[u][i].op = "settle" /\ todo[u][i].core = c /\ todo[v][j].op = "settle" /\ todo[v][j].core = c
  BY DEF SettleOf, On
<1>3. ResolvedBy(u, todo[u][i]) /\ ResolvedBy(v, todo[v][j])
  BY <1>2, AtFirst
<1>4. u = v /\ JoinsOf(c) = {} /\ resolver[c] = u
  BY <1>2, <1>3 DEF ResolvedBy
<1>5. i \in DOMAIN todo[u] /\ j \in DOMAIN todo[u]
  <2> DEFINE s == todo[u]
  <2>1. s \in Seq(Tasks) /\ i \in 1 .. Len(s) /\ j \in 1 .. Len(s)
    BY <1>1, <1>4
  <2> HIDE DEF s
  <2>2. i \in DOMAIN s /\ j \in DOMAIN s
    BY <2>1
  <2> QED
    BY <2>2 DEF s
<1>6. i = j
  BY <1>1, <1>2, <1>4, <1>5 DEF SettledOnce
<1> QED
  BY <1>4, <1>6

LEMMA TurningAtFirst ==
    ASSUME Init, NEW c \in Own, NEW e \in Ends, Turning(c, e)
    PROVE  /\ JoinsOf(c) = {}
           /\ \E u \in Thread : \E i \in 1 .. Len(todo[u]) :
                 todo[u][i].op = "settle" /\ todo[u][i].core = c /\ todo[u][i].to = e /\ resolver[c] = u
<1>1. state[c] # e
  BY DEF Init, Own, Ends, Pending, Fulfilled, Rejected
<1>2. PICK u \in Thread : \E i \in 1 .. Len(todo[u]) :
               todo[u][i].op = "settle" /\ todo[u][i].core = c /\ todo[u][i].to = e
  BY <1>1 DEF Turning, Turns, Somewhere, Waits
<1>3. PICK i \in 1 .. Len(todo[u]) : todo[u][i].op = "settle" /\ todo[u][i].core = c /\ todo[u][i].to = e
  BY <1>2
<1>4. ResolvedBy(u, todo[u][i])
  BY <1>3, AtFirst
<1> QED
  BY <1>3, <1>4 DEF ResolvedBy

LEMMA InDomain ==
    ASSUME Init, NEW u \in Thread, NEW i \in 1 .. Len(todo[u])
    PROVE  i \in DOMAIN todo[u]
<1> DEFINE s == todo[u]
<1>1. s \in Seq(Tasks) /\ i \in 1 .. Len(s)
  BY AtFirst DEF Typed
<1> HIDE DEF s
<1>2. i \in DOMAIN s
  BY <1>1
<1> QED
  BY <1>2 DEF s

LEMMA RejectedAtFirst ==
    ASSUME Init, UsedRight, NEW r \in Request, kind[r] \in {"all", "any"}, NEW q \in JoinsOf(chain[r]), q # r,
           Turning(promiseOf[r], Rejected),
           NEW v \in Thread, NEW j \in 1 .. Len(todo[v]), todo[v][j] \in SettleOf(promiseOf[q])
    PROVE  IF kind[r] = "all" THEN todo[v][j].to = Fulfilled
           ELSE \A k \in 1 .. Len(todo[v]) : Leads(todo[v][k], r) => k < j
<1>1. IsJoin(r) /\ IsJoin(q) /\ q \in Request /\ chain[q] = chain[r] /\ kind[r] # "range"
  BY Plain
<1>2. promiseOf[r] \in Own /\ Rejected \in Ends
  BY <1>1, TheKept DEF Ends
<1>3. PICK u \in Thread : \E i \in 1 .. Len(todo[u]) :
               /\ todo[u][i].op = "settle" /\ todo[u][i].core = promiseOf[r] /\ todo[u][i].to = Rejected
               /\ resolver[promiseOf[r]] = u
  BY <1>2, TurningAtFirst
<1>4. PICK i \in 1 .. Len(todo[u]) :
               /\ todo[u][i].op = "settle" /\ todo[u][i].core = promiseOf[r] /\ todo[u][i].to = Rejected
               /\ resolver[promiseOf[r]] = u
  BY <1>3
<1>5. todo[v][j].op = "settle" /\ todo[v][j].core = promiseOf[q]
  BY DEF SettleOf, On
<1>6. resolver[promiseOf[q]] = v
  BY <1>5, AtFirst DEF ResolvedBy
<1>7. resolver[chain[r]] # Null
  BY <1>1, OneHome
<1>8. resolver[promiseOf[r]] = resolver[chain[r]] /\ resolver[promiseOf[q]] = resolver[chain[r]]
  BY <1>1, <1>7, UseAssumption DEF JoinsAreRight
<1>9. u = v
  BY <1>4, <1>6, <1>8
<1>10. i \in DOMAIN todo[v] /\ j \in DOMAIN todo[v] /\ \A k \in 1 .. Len(todo[v]) : k \in DOMAIN todo[v]
  BY <1>9, InDomain
<1>11. todo \in Scripts
  BY AtFirst
<1>12. RejectedRight
  BY DEF UsedRight
<1> QED
  BY <1>1, <1>4, <1>5, <1>9, <1>10, <1>11, <1>12 DEF RejectedRight

LEMMA QuietInit == ASSUME Init, UsedRight PROVE Quiet
<1>1. /\ \A r : ~Somewhere(DoneOf(r)) /\ ~Somewhere(RefuseOf(r))
      /\ \A c : ~Somewhere(FlagOf(c))
  <2>1. {"done"} \cap ScriptOps = {} /\ {"refuse"} \cap ScriptOps = {} /\ "flag" \notin ScriptOps
    BY DEF ScriptOps
  <2>2. \A c : ~Somewhere(FlagOf(c))
    BY <2>1, AtFirst DEF Somewhere, Waits, FlagOf, On
  <2> QED
    BY <2>1, <2>2, NothingCalled DEF DoneOf, RefuseOf
<1>2. SettlesOnce
  <2>1. \A c \in Own : Once(SettleOf(c))
    BY SettlesAtFirst DEF Once, UsedRight
  <2>2. \A c \in Own : state[c] = Pending
    BY DEF Init, Own
  <2> QED
    BY <2>1, <2>2 DEF SettlesOnce
<1>3. Accounted
  BY <1>1 DEF Accounted, Init
<1>4. RefusesOnce
  BY <1>1 DEF RefusesOnce, Once, Somewhere, Waits
<1>5. TurnedBy
  BY TurningAtFirst DEF TurnedBy
<1>6. Flags
  BY <1>1 DEF Flags, FlagsHome, FlagsFirst, FlagsBefore, InOrder, Somewhere, Waits
<1>7. FilledLast
  <2>1. Fulfilled \in Ends
    BY DEF Ends
  <2> QED
    BY <2>1, TurningAtFirst, TheAlls DEF FilledLast
<1>8. RejectedAlone
  <2> SUFFICES ASSUME NEW r \in Request, kind[r] = "all", NEW q \in JoinsOf(chain[r]) \ {r},
                      Turning(promiseOf[r], Rejected), Turning(promiseOf[q], Rejected)
               PROVE  FALSE
    BY DEF RejectedAlone
  <2>1. promiseOf[q] \in Own /\ Rejected \in Ends /\ Rejected # Fulfilled
    BY Plain, TheKept DEF Ends, Rejected, Fulfilled
  <2>2. PICK v \in Thread : \E j \in 1 .. Len(todo[v]) :
                 todo[v][j].op = "settle" /\ todo[v][j].core = promiseOf[q] /\ todo[v][j].to = Rejected
    BY <2>1, TurningAtFirst
  <2>3. PICK j \in 1 .. Len(todo[v]) :
                 todo[v][j].op = "settle" /\ todo[v][j].core = promiseOf[q] /\ todo[v][j].to = Rejected
    BY <2>2
  <2>4. todo[v][j] \in SettleOf(promiseOf[q])
    BY <2>3, AtFirst DEF SettleOf, On
  <2>5. todo[v][j].to = Fulfilled
    BY <2>4, RejectedAtFirst
  <2> QED
    BY <2>1, <2>3, <2>5
<1>9. RejectedFirst
  <2> SUFFICES ASSUME NEW r \in Request, kind[r] = "any", NEW q \in JoinsOf(chain[r]) \ {r},
                      Turning(promiseOf[r], Rejected)
               PROVE  /\ state[promiseOf[q]] = Pending
                      /\ InOrder(Path(r), SettleOf(promiseOf[q]))
    BY DEF RejectedFirst
  <2>1. promiseOf[q] \in Core
    BY Plain, TheKept
  <2>2. state[promiseOf[q]] = Pending
    BY <2>1 DEF Init
  <2>3. ASSUME NEW u \in Thread, NEW i \in 1 .. Len(todo[u]), NEW j \in 1 .. Len(todo[u]),
               todo[u][i] \in Path(r), todo[u][j] \in SettleOf(promiseOf[q])
        PROVE  i < j
    <3>1. todo[u][i].op \in ScriptOps
      BY AtFirst
    <3>2. Leads(todo[u][i], r)
      BY <2>3, <3>1 DEF Path, Leads, ScriptOps
    <3> QED
      BY <2>3, <3>2, RejectedAtFirst
  <2> QED
    BY <2>2, <2>3 DEF InOrder
<1> QED
  BY <1>2, <1>3, <1>4, <1>5, <1>6, <1>7, <1>8, <1>9 DEF Quiet

(* No exception leaves a thread, and so none ends the process, where each  *)
(* promise is settled once and what a whenAll or whenAny waits for is not  *)
(* rejected after it is settled: the look at the state before the mutex    *)
(* (Resolver, Rejection) and the count of the calls (Continuable) then     *)
(* throw nothing, in whatever order the threads work.                      *)
THEOREM NoException == UsedRight => (Spec => []NeverThrows)
<1>1. UsedRight /\ Init => UsedRight /\ Calm /\ ~crashed
  BY InvInit, CountingInit, QuietInit DEF Calm, Init
<1>2. (UsedRight /\ Calm /\ ~crashed) /\ [Next]_vars => (UsedRight /\ Calm /\ ~crashed)'
  <2>1. UsedRight => UsedRight'
    BY DEF UsedRight, NoneOnChains, SettledOnce, RejectedRight, IsJoin, JoinsOf, Leads, Own, Chains, Chaining
  <2> QED
    BY <2>1, CalmStep
<1>3. Calm /\ ~crashed => NeverThrows
  BY DEF NeverThrows
<1> QED
  BY <1>1, <1>2, <1>3, PTL DEF Spec
===============================================================================
