-------------------------- MODULE RmxControl_proofs --------------------------
(***************************************************************************)
(* Theorems about RmxControl.                                              *)
(***************************************************************************)
EXTENDS RmxControl, TLAPS

(* The helpers of the specification have the types their names suggest.    *)
LEMMA RequestType ==
    ASSUME NEW r \in Requests
    PROVE  /\ r.h \in Handlers
           /\ r.b \in Boards
           /\ r.c \in Chans
           /\ r.v \in Values
  BY DEF Requests

LEMMA PairType ==
    ASSUME NEW r \in Requests
    PROVE  PairOf(r) \in Chans
<1>1. /\ r.c[1] \in Ports
      /\ r.c[2] \in Ports
      /\ <<r.c[1], 0>> \in Chans
      /\ <<0, r.c[2]>> \in Chans
  BY RequestType, RmxAssumption DEF Chans
<1> QED
  BY <1>1, RequestType DEF PairOf

LEMMA SlotType ==
    ASSUME NEW r \in Requests
    PROVE  SlotOf(r) \in Slots
  BY PairType, RequestType DEF SlotOf, Slots

LEMMA SlotHitType ==
    ASSUME NEW r \in Requests, NEW b \in Boards, NEW s \in Chans
    PROVE  SlotHit(r, b, s) \in Slots
<1>1. /\ <<s[1], 0>> \in Chans
      /\ <<0, s[2]>> \in Chans
  BY RmxAssumption DEF Chans
<1>2. CASE r.h.scope = "in"
  BY <1>1, <1>2, RequestType DEF SlotHit, Slots
<1>3. CASE r.h.scope = "out"
  BY <1>1, <1>3, RequestType DEF SlotHit, Slots
<1>4. CASE r.h.scope = "pair"
  BY <1>4, RequestType DEF SlotHit, Slots
<1>5. CASE r.h.scope \notin {"in", "out", "pair"}
  BY <1>5, RequestType DEF SlotHit, Slots
<1> QED
  BY <1>2, <1>3, <1>4, <1>5

LEMMA MsgFields ==
    ASSUME NEW m \in Msgs
    PROVE  /\ m.w \in Workers
           /\ m.r \in Requests
           /\ m.kind \in {"cpu", "sel", "cmd"}
           /\ m.dir \in {"req", "rep"}
           /\ m.ok \in BOOLEAN
           /\ m.bound \in BOOLEAN
           /\ m.fresh \in BOOLEAN
  BY DEF Msgs

LEMMA QueryType ==
    ASSUME NEW w \in Workers, NEW k \in {"cpu", "sel", "cmd"}, NEW b \in BOOLEAN,
           req[w] \in Requests
    PROVE  Query(w, k, b) \in Msgs
  BY DEF Query, Msgs

LEMMA AnswerType ==
    ASSUME NEW m \in Msgs, NEW b \in BOOLEAN
    PROVE  /\ Answer(m, b) \in Msgs
           /\ Answer(m, b).kind = m.kind
           /\ Answer(m, b).dir = "rep"
           /\ Answer(m, b).w = m.w
           /\ Answer(m, b).r = m.r
           /\ Answer(m, b).ok = b
           /\ Answer(m, b).bound = m.bound
           /\ Answer(m, b).fresh = m.fresh
  BY DEF Answer, Msgs

LEMMA StaleType ==
    ASSUME NEW m \in Msgs
    PROVE  [m EXCEPT !.fresh = FALSE] \in Msgs
  BY DEF Msgs

(* Every variable keeps its type, for any number of workers, boards and    *)
(* ports, any of the handlers, and any behaviour of the network.           *)
THEOREM TypeCorrect == Spec => []TypeOK
<1> USE RmxAssumption, NoneAssumption
<1>1. Init => TypeOK
  BY DEF Init, TypeOK
<1>2. TypeOK /\ [Next]_vars => TypeOK'
  <2> SUFFICES ASSUME TypeOK, [Next]_vars PROVE TypeOK'
    OBVIOUS
  <2> USE DEF TypeOK
  <2>1. ASSUME NEW w \in Workers, Accept(w) PROVE TypeOK'
    BY <2>1, SlotType DEF Accept
  <2>2. ASSUME NEW w \in Workers, SendTarget(w) PROVE TypeOK'
    <3>1. net' \in SUBSET Msgs
      BY <2>2, QueryType DEF SendTarget
    <3>2. pc' = [pc EXCEPT ![w] = "cpuWait"]
      BY <2>2 DEF SendTarget
    <3> QED
      BY <2>2, <3>1, <3>2 DEF SendTarget
  <2>3. ASSUME NEW w \in Workers, SendCommand(w) PROVE TypeOK'
    <3>1. req[w] \in Requests /\ pc[w] \in {"sel", "cmd"}
      BY <2>3 DEF SendCommand
    <3>2. Query(w, pc[w], TRUE) \in Msgs
      BY <3>1, QueryType
    <3>3. /\ net' = net \cup {Query(w, pc[w], TRUE)}
          /\ pc' = [pc EXCEPT ![w] = IF pc[w] = "sel" THEN "selWait" ELSE "cmdWait"]
          /\ port' \in {w, port}
          /\ UNCHANGED <<req, count, target, sel, hw, db, ran, last, accepted>>
      BY <2>3 DEF SendCommand
    <3>4. net' \in SUBSET Msgs
      BY <3>2, <3>3
    <3> QED
      BY <3>1, <3>3, <3>4
  <2>14. ASSUME NEW w \in Workers, SendUnbound(w) PROVE TypeOK'
    <3>1. req[w] \in Requests /\ pc[w] \in {"sel", "cmd"}
      BY <2>14 DEF SendUnbound
    <3>2. Query(w, pc[w], FALSE) \in Msgs
      BY <3>1, QueryType
    <3>3. /\ net' = net \cup {Query(w, pc[w], FALSE)}
          /\ pc' = [pc EXCEPT ![w] = IF pc[w] = "sel" THEN "selWait" ELSE "cmdWait"]
          /\ port' \in {w, port}
          /\ UNCHANGED <<req, count, target, sel, hw, db, ran, last, accepted>>
      BY <2>14 DEF SendUnbound
    <3>4. net' \in SUBSET Msgs
      BY <3>2, <3>3
    <3> QED
      BY <3>1, <3>3, <3>4
  <2>4. ASSUME NEW w \in Workers, BindFails(w) PROVE TypeOK'
    BY <2>4, SlotType DEF BindFails, Fail
  <2>5. ASSUME NEW w \in Workers, Receive(w) PROVE TypeOK'
    BY <2>5 DEF Receive, Waiting
  <2>6. ASSUME NEW w \in Workers, ReceiveBad(w) PROVE TypeOK'
    <3>1. net' \in SUBSET Msgs
      BY <2>6, StaleType DEF ReceiveBad
    <3> QED
      BY <2>6, <3>1, SlotType DEF ReceiveBad, Fail, Waiting
  <2>7. ASSUME NEW w \in Workers, Timeout(w) PROVE TypeOK'
    <3>1. net' \in SUBSET Msgs
      BY <2>7, StaleType DEF Timeout
    <3> QED
      BY <2>7, <3>1, SlotType DEF Timeout, Fail, Waiting
  <2>8. ASSUME NEW w \in Workers, Save(w) PROVE TypeOK'
    BY <2>8, SlotType, RequestType DEF Save
  <2>9. ASSUME NEW m \in net, Execute(m) PROVE TypeOK'
    <3>1. m \in Msgs /\ net' \in SUBSET Msgs
      <4>1. net' = (net \ {m}) \cup {Answer(m, TRUE)}
        BY <2>9 DEF Execute
      <4>2. m \in Msgs
        OBVIOUS
      <4>3. Answer(m, TRUE) \in Msgs
        BY <4>2, AnswerType
      <4> QED
        BY <4>1, <4>2, <4>3
    <3>2. CASE m.kind = "cpu"
      <4>1. m.r.b \in Boards
        BY <3>1, MsgFields, RequestType
      <4>2. /\ target' = m.r.b
            /\ UNCHANGED <<sel, hw, ran, accepted, pc, req, count, db, port, last>>
        BY <2>9, <3>2 DEF Execute
      <4> QED
        BY <3>1, <4>1, <4>2
    <3>3. CASE m.kind = "sel"
      <4>1. PairOf(m.r) \in Chans
        BY <3>1, MsgFields, PairType
      <4>2. /\ sel' = [sel EXCEPT ![target] = PairOf(m.r)]
            /\ UNCHANGED <<target, hw, ran, accepted, pc, req, count, db, port, last>>
        BY <2>9, <3>3 DEF Execute
      <4> QED
        BY <3>1, <4>1, <4>2
    <3>4. CASE m.kind = "cmd"
      <4> DEFINE s == SlotHit(m.r, target, sel[target])
      <4>1. s \in Slots /\ m.r.v \in Values
        BY <3>1, MsgFields, SlotHitType, RequestType
      <4>2. /\ ran' = IF m.fresh THEN [ran EXCEPT ![m.w] = s] ELSE ran
            /\ UNCHANGED <<target, sel, pc, req, count, db, port, last>>
        BY <2>9, <3>4 DEF Execute
      <4>3. \/ UNCHANGED <<hw, accepted>>
            \/ /\ hw' = [hw EXCEPT ![s] = m.r.v]
               /\ accepted' = [accepted EXCEPT ![s] = @ \cup {m.r.v}]
        BY <2>9, <3>4 DEF Execute
      <4> HIDE DEF s
      <4>4. hw' \in [Slots -> Values \cup {None}] /\ accepted' \in [Slots -> SUBSET Values]
        BY <4>1, <4>3
      <4> QED
        BY <3>1, <4>1, <4>2, <4>4
    <3> QED
      BY <3>1, <3>2, <3>3, <3>4, MsgFields
  <2>10. ASSUME NEW m \in net, Refuse(m) PROVE TypeOK'
    <3>1. /\ net' = (net \ {m}) \cup {Answer(m, FALSE)}
          /\ UNCHANGED <<pc, req, count, target, sel, hw, db, port, ran, last, accepted>>
      BY <2>10 DEF Refuse
    <3>2. m \in Msgs
      OBVIOUS
    <3>3. Answer(m, FALSE) \in Msgs
      BY <3>2, AnswerType
    <3> QED
      BY <3>1, <3>3
  <2>11. ASSUME NEW m \in net, Lose(m) PROVE TypeOK'
    BY <2>11 DEF Lose
  <2>12. CASE Done
    BY <2>12 DEF Done, vars
  <2>13. CASE UNCHANGED vars
    BY <2>13 DEF vars
  <2> QED
    BY <2>1, <2>2, <2>3, <2>4, <2>5, <2>6, <2>7, <2>8, <2>9, <2>10, <2>11,
       <2>12, <2>13, <2>14 DEF Next, WorkerStep
<1> QED
  BY <1>1, <1>2, PTL DEF Spec

-------------------------------------------------------------------------------
(* OwnReplyOnly is not inductive.  It follows from how a conversation looks *)
(* on the network when nothing arrives after its timeout: the port is held *)
(* only while its owner waits, each waiting worker has at most one      *)
(* datagram under way, which belongs to its request, and the setting of a  *)
(* request is changed only by its last datagram.                           *)
WaitFor(k) == CASE k = "cpu" -> "cpuWait" [] k = "sel" -> "selWait" [] OTHER -> "cmdWait"

PortHeldByWaiter == \A w \in Workers : port = w => pc[w] \in {"selWait", "cmdWait"}

Matches(m) ==
    /\ m.fresh
    /\ m.r = req[m.w]
    /\ pc[m.w] = WaitFor(m.kind)
    /\ m.kind # "cpu" /\ m.bound => port = m.w

OneDatagram == \A m, n \in net : m.w = n.w => m = n

RanOwn(w) == ran[w] # None /\ ran[w][1] = req[w].h

RanLast ==
    /\ \A m \in net : m.dir = "req" => ran[m.w] = None
    /\ \A m \in net : m.kind = "cmd" /\ m.dir = "rep" /\ m.ok => RanOwn(m.w)
    /\ \A w \in Workers : pc[w] \in {"cpu", "cpuWait", "sel", "selWait", "cmd"} => ran[w] = None
    /\ \A w \in Workers : pc[w] = "save" => RanOwn(w)

Conversation ==
    /\ PortHeldByWaiter
    /\ \A m \in net : Matches(m)
    /\ OneDatagram
    /\ RanLast

(* What a worker receives is the answer to its own question ...            *)
LEMMA OwnMessage ==
    ASSUME TypeOK, Conversation, NEW w \in Workers, NEW m \in net, Waiting(w), Arrives(w, m)
    PROVE  m.w = w /\ m.dir = "rep" /\ m.r = req[w] /\ pc[w] = WaitFor(m.kind)
<1>1. m \in Msgs /\ Matches(m)
  BY DEF TypeOK, Conversation
<1>2. m.w \in Workers /\ m.kind \in {"cpu", "sel", "cmd"}
  BY <1>1, MsgFields
<1>3. CASE m.kind = "cpu"
  BY <1>1, <1>3 DEF Arrives, Matches, WaitFor
<1>4. CASE m.kind # "cpu"
  BY <1>1, <1>4 DEF Matches, Arrives
<1> QED
  BY <1>3, <1>4, <1>1 DEF Matches

(* ... and when it is received, nothing of the worker is left under way.   *)
LEMMA NothingLeft ==
    ASSUME TypeOK, Conversation, NEW w \in Workers, NEW m \in net, m.w = w
    PROVE  /\ \A n \in net \ {m} : n.w # w
           /\ {IF n.w = w THEN [n EXCEPT !.fresh = FALSE] ELSE n : n \in net \ {m}} = net \ {m}
  BY DEF Conversation, OneDatagram

(* A worker that has nothing under way may go on, answer and take another  *)
(* request without disturbing the conversations of the others.             *)
LEMMA OthersUndisturbed ==
    ASSUME TypeOK, TypeOK', Conversation, NEW w \in Workers,
           net' \subseteq net, \A n \in net' : n.w # w,
           \A v \in Workers \ {w} : pc'[v] = pc[v] /\ req'[v] = req[v] /\ ran'[v] = ran[v],
           port' \in {port, NoWorker}, port' # w, port \in {w, port'},
           pc'[w] \in {"idle", "cpu", "sel", "cmd", "save"},
           pc'[w] \in {"cpu", "sel", "cmd"} => ran'[w] = None,
           pc'[w] = "save" => RanOwn(w)'
    PROVE  Conversation'
<1>1. \A n \in net' : n \in net /\ n.w \in Workers \ {w}
  BY MsgFields DEF TypeOK
<1>2. PortHeldByWaiter'
  BY RmxAssumption DEF Conversation, PortHeldByWaiter
<1>3. \A n \in net' : Matches(n)'
  BY <1>1 DEF Conversation, Matches
<1>4. OneDatagram'
  BY DEF Conversation, OneDatagram
<1>5. RanLast'
  BY <1>1 DEF Conversation, RanLast, RanOwn
<1> QED
  BY <1>2, <1>3, <1>4, <1>5 DEF Conversation

(* Sending: the datagram is the only one of its worker.                    *)
LEMMA Sent ==
    ASSUME TypeOK, TypeOK', Conversation, NEW w \in Workers, NEW k \in {"cpu", "sel", "cmd"},
           NEW b \in BOOLEAN, pc[w] = k,
           pc' = [pc EXCEPT ![w] = WaitFor(k)],
           net' = net \cup {Query(w, k, b)},
           port' = IF k # "cpu" /\ b THEN w ELSE port,
           k # "cpu" /\ b => port = NoWorker,
           UNCHANGED <<req, ran>>
    PROVE  Conversation'
<1> DEFINE q == Query(w, k, b)
<1>1. /\ q.w = w /\ q.kind = k /\ q.dir = "req" /\ q.r = req[w] /\ q.fresh /\ q.bound = b
  BY DEF Query
<1>2. \A n \in net : n.w \in Workers /\ n.w # w
  BY MsgFields DEF TypeOK, Conversation, Matches, WaitFor
<1>3. \A n \in net' : n \in net \/ n = q
  OBVIOUS
<1> HIDE DEF q
<1>4. PortHeldByWaiter'
  BY RmxAssumption DEF TypeOK, Conversation, PortHeldByWaiter, WaitFor
<1>5. \A n \in net' : Matches(n)'
  BY <1>1, <1>2, <1>3, RmxAssumption DEF TypeOK, Conversation, Matches
<1>6. OneDatagram'
  BY <1>1, <1>2, <1>3 DEF Conversation, OneDatagram
<1>7. RanLast'
  BY <1>1, <1>2, <1>3 DEF TypeOK, Conversation, RanLast, RanOwn, WaitFor
<1> QED
  BY <1>4, <1>5, <1>6, <1>7 DEF Conversation

(* Answering: a request on the network is replaced by its reply.           *)
LEMMA Answered ==
    ASSUME TypeOK, TypeOK', Conversation, NEW m \in net, NEW ok \in BOOLEAN,
           m.dir = "req",
           net' = (net \ {m}) \cup {Answer(m, ok)},
           \A v \in Workers \ {m.w} : ran'[v] = ran[v],
           m.kind = "cmd" /\ ok => RanOwn(m.w)',
           m.kind # "cmd" => ran' = ran,
           UNCHANGED <<pc, req, port>>
    PROVE  Conversation'
<1> DEFINE a == Answer(m, ok)
<1>1. m \in Msgs /\ m.w \in Workers /\ m.kind \in {"cpu", "sel", "cmd"} /\ Matches(m)
  BY MsgFields DEF TypeOK, Conversation
<1>2. /\ a.w = m.w /\ a.kind = m.kind /\ a.dir = "rep"
      /\ a.r = m.r /\ a.fresh = m.fresh /\ a.ok = ok /\ a.bound = m.bound
  BY <1>1, AnswerType
<1>3. \A n \in net' : n = a \/ (n \in net /\ n.w \in Workers /\ n.w # m.w)
  BY MsgFields DEF TypeOK, Conversation, OneDatagram
<1> HIDE DEF a
<1>4. PortHeldByWaiter'
  BY DEF Conversation, PortHeldByWaiter
<1>5. \A n \in net' : Matches(n)'
  BY <1>1, <1>2, <1>3 DEF Conversation, Matches
<1>6. OneDatagram'
  BY <1>1, <1>2, <1>3 DEF Conversation, OneDatagram
<1>7. RanLast'
  <2>1. \A n \in net' : n.dir = "req" => ran'[n.w] = None
    BY <1>2, <1>3 DEF Conversation, RanLast
  <2>2. \A n \in net' : n.kind = "cmd" /\ n.dir = "rep" /\ n.ok => RanOwn(n.w)'
    BY <1>2, <1>3 DEF Conversation, RanLast, RanOwn
  <2>3. pc[m.w] = WaitFor(m.kind)
    BY <1>1 DEF Matches
  <2>4. \A v \in Workers : pc[v] \in {"cpu", "cpuWait", "sel", "selWait", "cmd"} => ran'[v] = None
    BY <1>1, <2>3 DEF Conversation, RanLast, WaitFor
  <2>5. \A v \in Workers : pc[v] = "save" => RanOwn(v)'
    BY <1>1, <2>3 DEF Conversation, RanLast, RanOwn, WaitFor
  <2> QED
    BY <2>1, <2>2, <2>4, <2>5 DEF RanLast
<1> QED
  BY <1>4, <1>5, <1>6, <1>7 DEF Conversation

LEMMA ConversationInit == Init => Conversation
  BY RmxAssumption DEF Init, Conversation, PortHeldByWaiter, OneDatagram, RanLast

(* Every step of the workers, the boards and the network.                  *)
LEMMA ConversationStep ==
    ASSUME ~LateReplies, TypeOK, TypeOK', Conversation, [Next]_vars
    PROVE  Conversation'
<1>1. ASSUME NEW w \in Workers, Accept(w) PROVE Conversation'
  <2>1. /\ pc[w] = "idle"
        /\ pc'[w] \in {"cpu", "cmd"}
        /\ ran'[w] = None
        /\ \A v \in Workers \ {w} : pc'[v] = pc[v] /\ req'[v] = req[v] /\ ran'[v] = ran[v]
        /\ port' = port /\ net' = net
    BY <1>1 DEF Accept, TypeOK
  <2>2. \A n \in net : n.w # w
    BY <2>1, MsgFields DEF TypeOK, Conversation, Matches, WaitFor
  <2>3. port # w
    BY <2>1 DEF Conversation, PortHeldByWaiter
  <2> QED
    BY <2>1, <2>2, <2>3, OthersUndisturbed
<1>2. ASSUME NEW w \in Workers, SendTarget(w) PROVE Conversation'
  BY <1>2, Sent DEF SendTarget, WaitFor
<1>3. ASSUME NEW w \in Workers, SendCommand(w) PROVE Conversation'
  BY <1>3, Sent DEF SendCommand, WaitFor
<1>13. ASSUME NEW w \in Workers, SendUnbound(w) PROVE Conversation'
  BY <1>13, Sent DEF SendUnbound, WaitFor
<1>4. ASSUME NEW w \in Workers, BindFails(w) PROVE Conversation'
  <2>1. \A n \in net : n.w # w
    BY <1>4, MsgFields DEF BindFails, TypeOK, Conversation, Matches, WaitFor
  <2>2. port # w
    BY <1>4 DEF BindFails, Conversation, PortHeldByWaiter
  <2> QED
    BY <1>4, <2>1, <2>2, OthersUndisturbed DEF BindFails, Fail, TypeOK
<1>5. ASSUME NEW w \in Workers, Receive(w) PROVE Conversation'
  <2>1. PICK m \in net : Arrives(w, m) /\ Believes(w, m) /\ net' = net \ {m}
    BY <1>5 DEF Receive
  <2>2. m.w = w /\ m.dir = "rep" /\ m.r = req[w] /\ pc[w] = WaitFor(m.kind)
    BY <1>5, <2>1, OwnMessage DEF Receive
  <2>3. \A n \in net' : n.w # w
    BY <2>1, <2>2, NothingLeft
  <2>4. pc[w] = "cmdWait" => RanOwn(w)
    BY <2>1, <2>2 DEF Believes, Conversation, RanLast
  <2>5. pc[w] \in {"cpuWait", "selWait"} => ran[w] = None
    BY DEF Conversation, RanLast
  <2> QED
    BY <1>5, <2>1, <2>3, <2>4, <2>5, RmxAssumption, OthersUndisturbed
    DEF Receive, Waiting, TypeOK, RanOwn
<1>6. ASSUME NEW w \in Workers, ReceiveBad(w) PROVE Conversation'
  <2>1. PICK m \in net :
          /\ Arrives(w, m)
          /\ net' = {IF n.w = w THEN [n EXCEPT !.fresh = FALSE] ELSE n : n \in net \ {m}}
    BY <1>6 DEF ReceiveBad
  <2>2. m.w = w
    BY <1>6, <2>1, OwnMessage DEF ReceiveBad
  <2>3. net' = net \ {m} /\ \A n \in net' : n.w # w
    BY <2>1, <2>2, NothingLeft
  <2>4. /\ pc'[w] = "idle" /\ req' = req /\ ran' = ran
        /\ \A v \in Workers \ {w} : pc'[v] = pc[v]
    BY <1>6 DEF ReceiveBad, Fail, TypeOK
  <2>5. port' # w /\ port' \in {port, NoWorker} /\ port \in {w, port'}
    BY <1>6, RmxAssumption DEF ReceiveBad, Fail
  <2> QED
    BY <2>3, <2>4, <2>5, OthersUndisturbed
<1>7. ASSUME NEW w \in Workers, Timeout(w) PROVE Conversation'
  <2>1. /\ \A n \in net : n.w # w
        /\ net' = {IF n.w = w THEN [n EXCEPT !.fresh = FALSE] ELSE n : n \in net}
    BY <1>7 DEF Timeout
  <2>2. net' = net
    BY <2>1
  <2>4. /\ pc'[w] = "idle" /\ req' = req /\ ran' = ran
        /\ \A v \in Workers \ {w} : pc'[v] = pc[v]
    BY <1>7 DEF Timeout, Fail, TypeOK
  <2>5. port' # w /\ port' \in {port, NoWorker} /\ port \in {w, port'}
    BY <1>7, RmxAssumption DEF Timeout, Fail
  <2> QED
    BY <2>1, <2>2, <2>4, <2>5, OthersUndisturbed
<1>8. ASSUME NEW w \in Workers, Save(w) PROVE Conversation'
  <2>1. \A n \in net : n.w # w
    BY <1>8, MsgFields DEF Save, TypeOK, Conversation, Matches, WaitFor
  <2>2. port # w
    BY <1>8 DEF Save, Conversation, PortHeldByWaiter
  <2> QED
    BY <1>8, <2>1, <2>2, OthersUndisturbed DEF Save, TypeOK
<1>9. ASSUME NEW m \in net, Execute(m) PROVE Conversation'
  <2>1. m \in Msgs /\ m.w \in Workers /\ m.r \in Requests /\ Matches(m)
    BY MsgFields DEF TypeOK, Conversation
  <2>2. /\ m.dir = "req"
        /\ net' = (net \ {m}) \cup {Answer(m, TRUE)}
        /\ UNCHANGED <<pc, req, port>>
    BY <1>9 DEF Execute
  <2>3. CASE m.kind # "cmd"
    <3>1. ran' = ran
      BY <1>9, <2>3 DEF Execute
    <3> QED
      BY <2>2, <2>3, <3>1, Answered
  <2>4. CASE m.kind = "cmd"
    <3> DEFINE s == SlotHit(m.r, target, sel[target])
    <3>1. ran' = [ran EXCEPT ![m.w] = s]
      BY <1>9, <2>1, <2>4 DEF Execute, Matches
    <3>2. s \in Slots /\ s[1] = m.r.h
      BY <2>1, SlotHitType DEF TypeOK, SlotHit
    <3> HIDE DEF s
    <3>3. RanOwn(m.w)'
      BY <2>1, <2>2, <3>1, <3>2, NoneAssumption DEF TypeOK, RanOwn, Matches
    <3>4. \A v \in Workers \ {m.w} : ran'[v] = ran[v]
      BY <3>1 DEF TypeOK
    <3> QED
      BY <2>2, <2>4, <3>3, <3>4, Answered
  <2> QED
    BY <2>3, <2>4
<1>10. ASSUME NEW m \in net, Refuse(m) PROVE Conversation'
  <2>1. /\ m.dir = "req"
        /\ net' = (net \ {m}) \cup {Answer(m, FALSE)}
        /\ UNCHANGED <<pc, req, port, ran>>
    BY <1>10 DEF Refuse
  <2> QED
    BY <2>1, Answered
<1>11. ASSUME NEW m \in net, Lose(m) PROVE Conversation'
  BY <1>11 DEF Lose, Conversation, PortHeldByWaiter, Matches, OneDatagram, RanLast, RanOwn
<1>12. CASE UNCHANGED vars
  BY <1>12 DEF vars, Conversation, PortHeldByWaiter, Matches, OneDatagram, RanLast, RanOwn
<1> QED
  BY <1>1, <1>2, <1>3, <1>4, <1>5, <1>6, <1>7, <1>8, <1>9, <1>10, <1>11, <1>12,
     <1>13 DEF Next, WorkerStep, Done

(* With any number of workers, boards and requests, lost datagrams and     *)
(* refusals, no success is concluded from another worker's reply, as long  *)
(* as no reply outlives its timeout, whichever port it is sent from.        *)
THEOREM OwnRepliesOnly == ~LateReplies /\ Spec => []OwnReplyOnly
<1> SUFFICES ASSUME ~LateReplies PROVE Spec => []OwnReplyOnly
  OBVIOUS
<1>1. Init => Conversation
  BY ConversationInit
<1>2. TypeOK /\ TypeOK' /\ Conversation /\ [Next]_vars => Conversation'
  BY ConversationStep
<1>3. Conversation => OwnReplyOnly
  BY DEF Conversation, RanLast, RanOwn, OwnReplyOnly
<1> QED
  BY <1>1, <1>2, <1>3, TypeCorrect, PTL DEF Spec

-------------------------------------------------------------------------------
(***************************************************************************)
(* What RmxControl guarantees when the shared selection of board and pair  *)
(* is not disturbed: one worker, no late replies, and only handlers that   *)
(* select what their command sets.                                         *)
(***************************************************************************)

Undisturbed ==
    /\ ~LateReplies
    /\ \A v, w \in Workers : v = w
    /\ \A h \in Handlers : SelectsWhatItSets(h)

(* From the reply of write32bCPU on the board of the request is selected,  *)
(* from the reply of command 02 on its pair; so the command changes the    *)
(* setting the request names.                                              *)
BoardSelected ==
    /\ \A m \in net : m.dir = "rep" /\ m.kind = "cpu" => target = m.r.b
    /\ \A w \in Workers :
          pc[w] \in {"sel", "selWait", "cmd", "cmdWait"} => target = req[w].b

PairSelected ==
    /\ \A m \in net : m.dir = "rep" /\ m.kind = "sel" /\ m.ok => sel[target] = PairOf(m.r)
    /\ \A w \in Workers :
          pc[w] \in {"cmd", "cmdWait"} /\ req[w].h.select = "channel"
             => sel[target] = PairOf(req[w])

RanNamed == \A w \in Workers : ran[w] # None => ran[w] = SlotOf(req[w])

Selected == BoardSelected /\ PairSelected /\ RanNamed

(* All but three of the writers and readers select what their command sets *)
(* or reads, and no monitor does: the theorems below are about the former. *)
LEMMA SelectingHandlers ==
    \A h \in (Writers \cup Readers)
                 \ {setDvbSpiOutputMode, setListofServiceID, getLcnProviders} :
        SelectsWhatItSets(h)
<1>1. ASSUME NEW n, NEW c, NEW scope
      PROVE  /\ SelectsWhatItSets(Writer(n, c, "channel", scope))
             /\ SelectsWhatItSets(Reader(n, c, "channel", scope))
             /\ SelectsWhatItSets(Writer(n, c, "board", "arg"))
             /\ SelectsWhatItSets(Reader(n, c, "board", "arg"))
  BY DEF SelectsWhatItSets, Writer, Reader
<1>2. \A h \in Writers \ {setDvbSpiOutputMode, setListofServiceID} : SelectsWhatItSets(h)
  BY <1>1, SMTT(120) DEF Writers,
      setInputMode, setNITmode, setTsId, setPsiSiInterval,
      setNetworkName, setTablesVersion, setLcnProvider,
      setCreateAlarmFlags, setTableTimeout, setCore, setQAM,
      setSPIConfigReg, setStatusReg, setFSymbolRate, setFDAC,
      confGain, setDVBCSACoreControlReg, setServiceID,
      setServiceName, setNewProvName
<1>3. \A h \in Readers \ {getLcnProviders} : SelectsWhatItSets(h)
  BY <1>1, SMTT(120) DEF Readers,
      getInputModes, getLcn, getDvbSpiOutputModes, getNetworkname,
      getServicename, getDynamicStateWinsize, getFilterCAS,
      getServiceIDs, getSmoothFilterinfo, getDataFlowRates,
      getCryptedPrograms, getProgramInfo, getAllReferencedPidInfo,
      getEraseCAmod, getLockedPids, getHighPriorityService,
      getPSISIDecodingStatus, getTsFeatures,
      getProgramOriginalProvidername, getPMTAlarm,
      getNewProviderName, getProgramOriginalname,
      getProgramOriginalNetworkname, getNITmodes,
      getPsiSiIntervals, getTablesVersions, getCore, getGPIO,
      getLcnProvider, getQAM, getDVBCCoreVersion, getSPIStatusReg,
      getSPIConfigReg, getUpsamplerCoreVersion, getStatusReg,
      getFSymbolRate, getFDAC, getGain, getDVBCSAVersion,
      getDVBCSACoreControlReg
<1> QED
  BY <1>2, <1>3

(* The setting a command changes or reads is the one its request names,    *)
(* once board and pair are selected.                                       *)
LEMMA HitsNamedSlot ==
    ASSUME NEW r \in Requests, SelectsWhatItSets(r.h), NEW p,
           r.h.select = "channel" => p = PairOf(r)
    PROVE  SlotHit(r, r.b, p) = SlotOf(r)
<1>1. CASE r.h.scope = "in"
  BY <1>1, PairType DEF SlotHit, SlotOf, PairOf, SelectsWhatItSets
<1>2. CASE r.h.scope = "out"
  BY <1>2, PairType DEF SlotHit, SlotOf, PairOf, SelectsWhatItSets
<1>3. CASE r.h.scope = "pair"
  BY <1>3 DEF SlotHit, SlotOf, PairOf, SelectsWhatItSets
<1>4. CASE r.h.scope \notin {"in", "out", "pair"}
  BY <1>4 DEF SlotHit, SlotOf, PairOf
<1> QED
  BY <1>1, <1>2, <1>3, <1>4

LEMMA SelectedInit == Init => Selected
  BY DEF Init, Selected, BoardSelected, PairSelected, RanNamed

(* What executing a datagram does, in the state of its only worker.        *)
LEMMA Executed ==
    ASSUME Undisturbed, TypeOK, Conversation, Selected, NEW m \in net, Execute(m)
    PROVE  /\ m.w \in Workers /\ m.r = req[m.w] /\ m.r \in Requests
           /\ pc[m.w] = WaitFor(m.kind) /\ m.kind \in {"cpu", "sel", "cmd"}
           /\ m.kind = "cpu" => target' = m.r.b /\ UNCHANGED <<sel, hw, ran, accepted>>
           /\ m.kind = "sel" => /\ target = m.r.b
                                /\ sel' = [sel EXCEPT ![target] = PairOf(m.r)]
                                /\ UNCHANGED <<target, hw, ran, accepted>>
           /\ m.kind = "cmd" => /\ ran[m.w] = None
                                /\ ran' = [ran EXCEPT ![m.w] = SlotOf(m.r)]
                                /\ hw' = IF m.r.h.reads THEN hw
                                         ELSE [hw EXCEPT ![SlotOf(m.r)] = m.r.v]
                                /\ accepted' =
                                      IF m.r.h.reads THEN accepted
                                      ELSE [accepted EXCEPT ![SlotOf(m.r)] = @ \cup {m.r.v}]
                                /\ UNCHANGED <<target, sel>>
<1>1. /\ m \in Msgs /\ m.w \in Workers /\ m.r \in Requests
      /\ m.kind \in {"cpu", "sel", "cmd"} /\ Matches(m)
  BY MsgFields DEF TypeOK, Conversation
<1>2. m.r = req[m.w] /\ pc[m.w] = WaitFor(m.kind) /\ m.fresh
  BY <1>1 DEF Matches
<1>3. m.kind = "cpu" => target' = m.r.b /\ UNCHANGED <<sel, hw, ran, accepted>>
  BY DEF Execute
<1>4. ASSUME m.kind = "sel"
      PROVE  /\ target = m.r.b
             /\ sel' = [sel EXCEPT ![target] = PairOf(m.r)]
             /\ UNCHANGED <<target, hw, ran, accepted>>
  BY <1>1, <1>2, <1>4 DEF Execute, Selected, BoardSelected, WaitFor
<1>5. ASSUME m.kind = "cmd"
      PROVE  /\ ran[m.w] = None
             /\ ran' = [ran EXCEPT ![m.w] = SlotOf(m.r)]
             /\ hw' = IF m.r.h.reads THEN hw
                      ELSE [hw EXCEPT ![SlotOf(m.r)] = m.r.v]
             /\ accepted' = IF m.r.h.reads THEN accepted
                            ELSE [accepted EXCEPT ![SlotOf(m.r)] = @ \cup {m.r.v}]
             /\ UNCHANGED <<target, sel>>
  <2>1. pc[m.w] = "cmdWait"
    BY <1>2, <1>5 DEF WaitFor
  <2>2. target = m.r.b
    BY <1>1, <1>2, <2>1 DEF Selected, BoardSelected
  <2>3. m.r.h.select = "channel" => sel[target] = PairOf(m.r)
    BY <1>1, <1>2, <2>1 DEF Selected, PairSelected
  <2>4. SelectsWhatItSets(m.r.h)
    BY <1>1, RequestType DEF Undisturbed
  <2>5. SlotHit(m.r, target, sel[target]) = SlotOf(m.r)
    BY <1>1, <2>2, <2>3, <2>4, HitsNamedSlot
  <2>6. ran[m.w] = None
    BY DEF Execute, Conversation, RanLast
  <2>7. /\ hw' = IF m.r.h.reads THEN hw
                 ELSE [hw EXCEPT ![SlotHit(m.r, target, sel[target])] = m.r.v]
        /\ accepted' = IF m.r.h.reads THEN accepted
                       ELSE [accepted EXCEPT ![SlotHit(m.r, target, sel[target])] =
                                @ \cup {m.r.v}]
        /\ ran' = [ran EXCEPT ![m.w] = SlotHit(m.r, target, sel[target])]
        /\ UNCHANGED <<target, sel>>
    BY <1>2, <1>5 DEF Execute
  <2> QED
    BY <2>5, <2>6, <2>7
<1> QED
  BY <1>1, <1>2, <1>3, <1>4, <1>5

LEMMA SelectedStep ==
    ASSUME Undisturbed, TypeOK, TypeOK', Conversation, Selected, [Next]_vars
    PROVE  Selected'
<1>1. ASSUME NEW w \in Workers, Accept(w) PROVE Selected'
  <2>1. PICK r \in Requests :
          /\ req' = [req EXCEPT ![w] = r]
          /\ pc' = [pc EXCEPT ![w] = IF r.h.select = "none" THEN "cmd" ELSE "cpu"]
    BY <1>1 DEF Accept
  <2>2. r.h.select # "none"
    BY RequestType DEF Undisturbed, SelectsWhatItSets
  <2>3. /\ pc'[w] = "cpu" /\ ran'[w] = None
        /\ UNCHANGED <<target, sel, net>>
    BY <1>1, <2>1, <2>2 DEF Accept, TypeOK
  <2>4. \A v \in Workers : v = w
    BY DEF Undisturbed
  <2> QED
    BY <2>3, <2>4 DEF Selected, BoardSelected, PairSelected, RanNamed
<1>2. ASSUME NEW w \in Workers, SendTarget(w) \/ SendCommand(w) PROVE Selected'
  <2>1. \E k \in {"cpu", "sel", "cmd"} :
          net' = net \cup {Query(w, k, TRUE)} /\ pc[w] = k /\ pc'[w] = WaitFor(k)
    BY <1>2 DEF SendTarget, SendCommand, TypeOK, WaitFor
  <2>2. UNCHANGED <<req, ran, target, sel>> /\ \A v \in Workers : v = w
    BY <1>2 DEF SendTarget, SendCommand, Undisturbed
  <2>3. \A n \in net' : n \in net \/ n.dir = "req"
    BY <2>1 DEF Query
  <2> QED
    BY <2>1, <2>2, <2>3
    DEF Selected, BoardSelected, PairSelected, RanNamed, SlotOf, WaitFor
<1>3. ASSUME NEW w \in Workers, Receive(w) PROVE Selected'
  <2>1. PICK m \in net : Arrives(w, m) /\ Believes(w, m) /\ net' = net \ {m}
    BY <1>3 DEF Receive
  <2>2. m.w = w /\ m.dir = "rep" /\ m.r = req[w] /\ pc[w] = WaitFor(m.kind)
    BY <1>3, <2>1, OwnMessage DEF Receive
  <2>3. \A v \in Workers : v = w
    BY DEF Undisturbed
  <2>4. net' = {}
    BY <2>1, <2>2, <2>3, NothingLeft, MsgFields DEF TypeOK
  <2>5. UNCHANGED <<req, ran, target, sel>>
    BY <1>3 DEF Receive
  <2>6. m.kind \in {"cpu", "sel", "cmd"}
    BY MsgFields DEF TypeOK
  <2>7. CASE m.kind = "cpu"
    <3>1. target = req[w].b /\ pc[w] = "cpuWait"
      BY <2>2, <2>7 DEF Selected, BoardSelected, WaitFor
    <3>2. pc'[w] = IF req[w].h.select = "channel" THEN "sel" ELSE "cmd"
      BY <1>3, <3>1 DEF Receive, TypeOK
    <3> QED
      BY <2>3, <2>4, <2>5, <3>1, <3>2
      DEF Selected, BoardSelected, PairSelected, RanNamed, SlotOf
  <2>8. CASE m.kind = "sel"
    <3>1. pc[w] = "selWait" /\ m.ok
      BY <2>1, <2>2, <2>8 DEF WaitFor, Believes
    <3>2. pc'[w] = "cmd"
      BY <1>3, <3>1 DEF Receive, TypeOK
    <3>3. target = req[w].b /\ sel[target] = PairOf(req[w])
      BY <2>2, <2>8, <3>1 DEF Selected, BoardSelected, PairSelected
    <3> QED
      BY <2>3, <2>4, <2>5, <3>2, <3>3
      DEF Selected, BoardSelected, PairSelected, RanNamed, SlotOf, PairOf
  <2>9. CASE m.kind = "cmd"
    <3>1. pc[w] = "cmdWait"
      BY <2>2, <2>9 DEF WaitFor
    <3>2. pc'[w] = "save"
      BY <1>3, <3>1 DEF Receive, TypeOK
    <3> QED
      BY <2>3, <2>4, <2>5, <3>2
      DEF Selected, BoardSelected, PairSelected, RanNamed, SlotOf, PairOf
  <2> QED
    BY <2>6, <2>7, <2>8, <2>9
<1>4. ASSUME NEW w \in Workers, BindFails(w) \/ ReceiveBad(w) \/ Timeout(w) \/ Save(w)
      PROVE  Selected'
  <2>1. pc'[w] = "idle" /\ UNCHANGED <<req, ran, target, sel>> /\ \A v \in Workers : v = w
    BY <1>4 DEF BindFails, ReceiveBad, Timeout, Save, Fail, TypeOK, Undisturbed
  <2>2. net' \subseteq net
    <3>1. CASE ReceiveBad(w)
      <4>1. PICK m \in net :
              /\ Arrives(w, m)
              /\ net' = {IF n.w = w THEN [n EXCEPT !.fresh = FALSE] ELSE n : n \in net \ {m}}
        BY <3>1 DEF ReceiveBad
      <4>2. m.w = w
        BY <3>1, <4>1, OwnMessage DEF ReceiveBad
      <4> QED
        BY <4>1, <4>2, NothingLeft
    <3>2. CASE Timeout(w)
      BY <3>2 DEF Timeout, Undisturbed
    <3> QED
      BY <1>4, <3>1, <3>2 DEF BindFails, Save
  <2> QED
    BY <2>1, <2>2 DEF Selected, BoardSelected, PairSelected, RanNamed, SlotOf
<1>5. ASSUME NEW m \in net, Execute(m) PROVE Selected'
  <2>1. m.w \in Workers /\ \A v \in Workers : v = m.w
    BY <1>5, Executed DEF Undisturbed
  <2>2. m \in Msgs /\ net' = (net \ {m}) \cup {Answer(m, TRUE)} /\ UNCHANGED <<pc, req>>
    BY <1>5 DEF Execute, TypeOK
  <2>3. \A n \in net : n = m
    BY <2>1, MsgFields DEF TypeOK, Conversation, OneDatagram
  <2>4. \A n \in net' : n.kind = m.kind /\ n.r = m.r
    BY <2>2, <2>3, AnswerType
  <2>5. target \in Boards /\ sel \in [Boards -> Chans]
    BY DEF TypeOK
  <2>6. CASE m.kind = "cpu"
    BY <1>5, <2>1, <2>2, <2>4, <2>6, Executed
    DEF Selected, BoardSelected, PairSelected, RanNamed, SlotOf, WaitFor
  <2>7. CASE m.kind = "sel"
    <3>1. /\ m.r = req[m.w] /\ pc[m.w] = "selWait"
          /\ target = m.r.b
          /\ sel' = [sel EXCEPT ![target] = PairOf(m.r)]
          /\ UNCHANGED <<target, ran>>
      BY <1>5, <2>7, Executed DEF WaitFor
    <3>2. sel'[target'] = PairOf(m.r)
      BY <2>5, <3>1
    <3> QED
      BY <2>1, <2>2, <2>4, <2>7, <3>1, <3>2
      DEF Selected, BoardSelected, PairSelected, RanNamed, SlotOf
  <2>8. CASE m.kind = "cmd"
    <3>1. /\ m.r = req[m.w] /\ pc[m.w] = "cmdWait"
          /\ ran' = [ran EXCEPT ![m.w] = SlotOf(m.r)]
          /\ UNCHANGED <<target, sel>>
      BY <1>5, <2>8, Executed DEF WaitFor
    <3>2. RanNamed'
      BY <2>1, <2>2, <3>1 DEF RanNamed, SlotOf, PairOf, TypeOK
    <3>3. BoardSelected' /\ PairSelected'
      BY <2>1, <2>2, <2>4, <2>8, <3>1 DEF Selected, BoardSelected, PairSelected
    <3> QED
      BY <3>2, <3>3 DEF Selected
  <2> QED
    BY <1>5, <2>6, <2>7, <2>8, Executed
<1>6. ASSUME NEW m \in net, Refuse(m) PROVE Selected'
  <2>1. /\ m \in Msgs /\ net' = (net \ {m}) \cup {Answer(m, FALSE)} /\ m.kind \in {"sel", "cmd"}
        /\ UNCHANGED <<pc, req, ran, target, sel>>
    BY <1>6 DEF Refuse, TypeOK
  <2>2. \A n \in net' : n \in net \/ (n.kind # "cpu" /\ ~n.ok)
    BY <2>1, AnswerType
  <2> QED
    BY <2>1, <2>2 DEF Selected, BoardSelected, PairSelected, RanNamed, SlotOf
<1>7. ASSUME NEW m \in net, Lose(m) PROVE Selected'
  BY <1>7 DEF Lose, Selected, BoardSelected, PairSelected, RanNamed, SlotOf
<1>9. ~\E w \in Workers : SendUnbound(w)
  BY DEF SendUnbound, Undisturbed
<1>8. CASE UNCHANGED vars
  BY <1>8 DEF vars, Selected, BoardSelected, PairSelected, RanNamed, SlotOf
<1> QED
  BY <1>1, <1>2, <1>3, <1>4, <1>5, <1>6, <1>7, <1>8, <1>9 DEF Next, WorkerStep, Done

(* With one worker, no late replies and handlers that select what they     *)
(* set, "error": false means that the command changed the setting the      *)
(* request names, however many boards there are and whatever was selected  *)
(* before, refused or lost.                                                *)
THEOREM SuccessIsReal == Undisturbed /\ Spec => []ReportedSuccessIsReal
<1> SUFFICES ASSUME Undisturbed PROVE Spec => []ReportedSuccessIsReal
  OBVIOUS
<1>1. Init => Conversation /\ Selected
  BY ConversationInit, SelectedInit
<1>2. TypeOK /\ TypeOK' /\ Conversation /\ Selected /\ [Next]_vars
        => Conversation' /\ Selected'
  BY ConversationStep, SelectedStep DEF Undisturbed
<1>3. Conversation /\ Selected => ReportedSuccessIsReal
  BY DEF Conversation, RanLast, RanOwn, Selected, RanNamed, ReportedSuccessIsReal
<1> QED
  BY <1>1, <1>2, <1>3, TypeCorrect, PTL DEF Spec

-------------------------------------------------------------------------------
(* The refinement of ConfigStore.                                          *)
Jobs == [w \in Workers |-> Job(w)]

LEMMA JobType ==
    ASSUME TypeOK, NEW w \in Workers, pc[w] # "idle"
    PROVE  Job(w) \in [slot : Slots, v : Values, applied : BOOLEAN] /\ Job(w) # None
<1>1. Job(w) = [slot |-> SlotOf(req[w]), v |-> req[w].v, applied |-> ran[w] # None]
  BY DEF Job
<1>2. SlotOf(req[w]) \in Slots /\ req[w].v \in Values
  BY SlotType, RequestType DEF TypeOK
<1>3. \A s \in Slots, u \in Values, a \in BOOLEAN :
         [slot |-> s, v |-> u, applied |-> a] \in [slot : Slots, v : Values, applied : BOOLEAN]
  OBVIOUS
<1>4. (ran[w] # None) \in BOOLEAN
  OBVIOUS
<1>5. Job(w) \in [slot : Slots, v : Values, applied : BOOLEAN]
  BY <1>1, <1>2, <1>3, <1>4, Zenon
<1> QED
  BY <1>5, NoneAssumption

LEMMA StoreInit == Init => Store!Init
  BY DEF Init, Store!Init, Job

(* A step that leaves what Jobs shows of every worker, and the settings    *)
(* and rows, is a stutter of the store.                                    *)
LEMMA StoreStutter ==
    ASSUME \A w \in Workers : Job(w)' = Job(w), UNCHANGED <<hw, db>>
    PROVE  UNCHANGED Store!storeVars
  BY DEF Store!storeVars

(* A step of worker w that changes the job of w only.                      *)
LEMMA JobsExcept ==
    ASSUME NEW w \in Workers, \A v \in Workers \ {w} : Job(v)' = Job(v)
    PROVE  Jobs' = [Jobs EXCEPT ![w] = Job(w)']
  BY DEF Jobs

LEMMA StoreStep ==
    ASSUME Undisturbed, TypeOK, TypeOK', Conversation, Selected, [Next]_vars
    PROVE  [Store!Next]_(Store!storeVars)
<1>1. ASSUME NEW w \in Workers, Accept(w) PROVE Store!Begin(w)
  <2>1. PICK r \in Requests :
          /\ req' = [req EXCEPT ![w] = r]
          /\ pc' = [pc EXCEPT ![w] = IF r.h.select = "none" THEN "cmd" ELSE "cpu"]
    BY <1>1 DEF Accept
  <2>2. pc[w] = "idle" /\ pc'[w] # "idle" /\ req'[w] = r /\ ran'[w] = None /\ UNCHANGED <<hw, db>>
    BY <1>1, <2>1 DEF Accept, TypeOK
  <2>3. Job(w) = None /\ Job(w)' = [slot |-> SlotOf(r), v |-> r.v, applied |-> FALSE]
    BY <2>2 DEF Job, SlotOf, PairOf
  <2>4. \A v \in Workers \ {w} : Job(v)' = Job(v)
    BY <1>1 DEF Accept, Job, SlotOf, PairOf, TypeOK
  <2>5. SlotOf(r) \in Slots /\ r.v \in Values
    BY SlotType, RequestType
  <2> QED
    BY <2>2, <2>3, <2>4, <2>5, JobsExcept DEF Store!Begin, Jobs
<1>2. ASSUME NEW w \in Workers, SendTarget(w) \/ SendCommand(w) \/ Receive(w)
      PROVE  UNCHANGED Store!storeVars
  <2>1. /\ pc[w] # "idle" /\ pc'[w] # "idle"
        /\ \A v \in Workers \ {w} : pc'[v] = pc[v]
        /\ UNCHANGED <<req, ran, hw, db>>
    BY <1>2 DEF SendTarget, SendCommand, Receive, Waiting, TypeOK
  <2> QED
    BY <2>1, StoreStutter DEF Job, SlotOf, PairOf
<1>3. ASSUME NEW w \in Workers, BindFails(w) \/ ReceiveBad(w) \/ Timeout(w)
      PROVE  Store!GiveUp(w)
  <2>1. /\ pc[w] # "idle" /\ pc'[w] = "idle"
        /\ \A v \in Workers \ {w} : pc'[v] = pc[v]
        /\ UNCHANGED <<req, ran, hw, db>>
    BY <1>3 DEF BindFails, ReceiveBad, Timeout, Fail, Waiting, TypeOK
  <2>2. Job(w) # None /\ Job(w)' = None
    BY <2>1, JobType DEF Job
  <2>3. \A v \in Workers \ {w} : Job(v)' = Job(v)
    BY <2>1 DEF Job, SlotOf, PairOf
  <2> QED
    BY <2>1, <2>2, <2>3, JobsExcept DEF Store!GiveUp, Jobs
<1>4. ASSUME NEW w \in Workers, Save(w) PROVE Store!Succeed(w) \/ Store!GiveUp(w)
  <2>1. /\ pc[w] = "save" /\ pc'[w] = "idle"
        /\ \A v \in Workers \ {w} : pc'[v] = pc[v]
        /\ UNCHANGED <<req, ran, hw>>
    BY <1>4 DEF Save, TypeOK
  <2>2. ran[w] # None
    BY <2>1 DEF Conversation, RanLast, RanOwn
  <2>3. /\ Job(w) # None /\ Job(w)' = None /\ Job(w).applied
        /\ Job(w).slot = SlotOf(req[w]) /\ Job(w).v = req[w].v
    BY <2>1, <2>2, JobType DEF Job
  <2>4. \A v \in Workers \ {w} : Job(v)' = Job(v)
    BY <2>1 DEF Job, SlotOf, PairOf
  <2>5. SlotOf(req[w]) \in Slots /\ SlotOf(req[w])[1] = req[w].h
    BY <2>1, SlotType DEF TypeOK, SlotOf
  <2>6. \/ db' = IF SlotOf(req[w]) \in {s \in Slots : s[1].saves}
                 THEN [db EXCEPT ![SlotOf(req[w])] = req[w].v] ELSE db
        \/ db' = db
    BY <1>4, <2>5 DEF Save
  <2> QED
    BY <2>1, <2>3, <2>4, <2>6, JobsExcept DEF Store!Succeed, Store!GiveUp, Jobs
<1>5. ASSUME NEW m \in net, Execute(m), m.kind = "cmd"
      PROVE  m.w \in Workers /\ Store!Apply(m.w)
  <2>1. /\ m.w \in Workers /\ m.r = req[m.w] /\ m.r \in Requests
        /\ pc[m.w] = "cmdWait" /\ ran[m.w] = None
        /\ ran' = [ran EXCEPT ![m.w] = SlotOf(m.r)]
        /\ hw' = IF m.r.h.reads THEN hw ELSE [hw EXCEPT ![SlotOf(m.r)] = m.r.v]
    BY <1>5, Executed DEF WaitFor
  <2>2. UNCHANGED <<pc, req, db>>
    BY <1>5 DEF Execute
  <2>3. SlotOf(m.r) # None
    BY <2>1, SlotType, NoneAssumption
  <2>4. /\ Job(m.w) = [slot |-> SlotOf(m.r), v |-> m.r.v, applied |-> FALSE]
        /\ Job(m.w)' = [slot |-> SlotOf(m.r), v |-> m.r.v, applied |-> TRUE]
    BY <2>1, <2>2, <2>3 DEF Job, SlotOf, PairOf, TypeOK
  <2>5. \A v \in Workers \ {m.w} : Job(v)' = Job(v)
    BY <2>1, <2>2 DEF Job, SlotOf, PairOf, TypeOK
  <2>6. Job(m.w) # None
    BY <2>1, JobType
  <2>7. Jobs[m.w] = Job(m.w)
    BY <2>1 DEF Jobs
  <2>8. Job(m.w)' = [slot |-> Jobs[m.w].slot, v |-> Jobs[m.w].v, applied |-> TRUE]
    BY <2>4, <2>7
  <2>9. Jobs' = [Jobs EXCEPT ![m.w] =
                   [slot |-> Jobs[m.w].slot, v |-> Jobs[m.w].v, applied |-> TRUE]]
    BY <2>1, <2>5, <2>8, JobsExcept, Zenon
  <2>10. Jobs[m.w] # None /\ ~Jobs[m.w].applied /\ Jobs[m.w].slot = SlotOf(m.r) /\ Jobs[m.w].v = m.r.v
    BY <2>4, <2>6, <2>7
  <2>11. SlotOf(m.r) \in {s \in Slots : s[1].reads} <=> m.r.h.reads
    <3>1. SlotOf(m.r) \in Slots /\ SlotOf(m.r)[1] = m.r.h
      BY <2>1, SlotType DEF SlotOf
    <3> QED
      BY <3>1, Zenon
  <2>12. hw' = IF Jobs[m.w].slot \in {s \in Slots : s[1].reads} THEN hw
               ELSE [hw EXCEPT ![Jobs[m.w].slot] = Jobs[m.w].v]
    BY <2>1, <2>10, <2>11, Zenon
  <2> QED
    BY <2>1, <2>2, <2>9, <2>10, <2>12, Zenon DEF Store!Apply, Jobs
<1>6. ASSUME NEW m \in net, \/ Execute(m) /\ m.kind # "cmd"
                           \/ Refuse(m)
                           \/ Lose(m)
      PROVE  UNCHANGED Store!storeVars
  <2>1. UNCHANGED <<pc, req, ran, hw, db>>
    BY <1>6, Executed DEF Execute, Refuse, Lose
  <2> QED
    BY <2>1, StoreStutter DEF Job, SlotOf, PairOf
<1>8. ~\E w \in Workers : SendUnbound(w)
  BY DEF SendUnbound, Undisturbed
<1>7. CASE UNCHANGED vars
  BY <1>7, StoreStutter DEF vars, Job, SlotOf, PairOf
<1> QED
  BY <1>1, <1>2, <1>3, <1>4, <1>5, <1>6, <1>7, <1>8 DEF Next, WorkerStep, Done, Store!Next

(* Under the same conditions, the conversation implements ConfigStore: a   *)
(* request changes the setting it names and no other, and its row is saved *)
(* only if it did.                                                         *)
THEOREM StoreImplemented == Undisturbed /\ Spec => ImplementsConfigStore
<1> SUFFICES ASSUME Undisturbed PROVE Spec => ImplementsConfigStore
  OBVIOUS
<1>1. Init => Conversation /\ Selected /\ Store!Init
  BY ConversationInit, SelectedInit, StoreInit
<1>2. TypeOK /\ TypeOK' /\ Conversation /\ Selected /\ [Next]_vars
        => Conversation' /\ Selected' /\ [Store!Next]_(Store!storeVars)
  BY ConversationStep, SelectedStep, StoreStep DEF Undisturbed
<1> QED
  BY <1>1, <1>2, TypeCorrect, PTL DEF Spec, ImplementsConfigStore, Store!Spec
-------------------------------------------------------------------------------
(* Hardware and rows.                                                      *)

(* While a request is under way its setting's last answer is "busy"; once  *)
(* its command ran, the hardware has its value, which it keeps until the   *)
(* row is saved.                                                           *)
Busy == \A w \in Workers : pc[w] # "idle" => last[SlotOf(req[w])] = "busy"

Applied(w) ==
    /\ hw[SlotOf(req[w])] = req[w].v
    /\ req[w].v \in accepted[SlotOf(req[w])]

RanApplied ==
    \A w \in Workers : pc[w] # "idle" /\ ran[w] # None /\ ~req[w].h.reads => Applied(w)

InSync == Busy /\ RanApplied /\ SuccessMeansInSync /\ DbRowWasAccepted

(* Only writers save rows.                                                 *)
LEMMA OnlyWritersSave == \A h \in Handlers : h.saves => ~h.reads
<1>1. ASSUME NEW n, NEW c, NEW select, NEW scope
      PROVE  ~Writer(n, c, select, scope).reads /\ ~Reader(n, c, select, scope).saves
  BY DEF Writer, Reader
<1>2. \A h \in Writers \ {setListofServiceID} : ~h.reads
  BY <1>1, SMTT(120) DEF Writers,
      setInputMode, setNITmode, setTsId, setPsiSiInterval,
      setNetworkName, setTablesVersion, setDvbSpiOutputMode, setLcnProvider,
      setCreateAlarmFlags, setTableTimeout, setCore, setQAM,
      setSPIConfigReg, setStatusReg, setFSymbolRate, setFDAC,
      confGain, setDVBCSACoreControlReg, setServiceID,
      setServiceName, setNewProvName
<1>3. \A h \in Readers : ~h.saves
  BY <1>1, SMTT(120) DEF Readers,
      getInputModes, getLcn, getDvbSpiOutputModes, getNetworkname,
      getServicename, getDynamicStateWinsize, getFilterCAS,
      getServiceIDs, getSmoothFilterinfo, getDataFlowRates,
      getCryptedPrograms, getProgramInfo, getAllReferencedPidInfo,
      getEraseCAmod, getLockedPids, getHighPriorityService,
      getPSISIDecodingStatus, getTsFeatures,
      getProgramOriginalProvidername, getPMTAlarm,
      getNewProviderName, getProgramOriginalname,
      getProgramOriginalNetworkname, getNITmodes,
      getPsiSiIntervals, getTablesVersions, getCore, getGPIO,
      getLcnProvider, getQAM, getDVBCCoreVersion, getSPIStatusReg,
      getSPIConfigReg, getUpsamplerCoreVersion, getStatusReg,
      getFSymbolRate, getFDAC, getGain, getDVBCSAVersion,
      getDVBCSACoreControlReg, getLcnProviders
<1>4. \A h \in Monitors : ~h.saves
  BY <1>1, SMTT(120) DEF Monitors,
      getInputMode, getNITmode, getLCN, getHostNIT, getTsId,
      getDvbSpiOutputMode, getPsiSiInterval, getNetworkName,
      getServiceName, getDynamicStateWinSize, getFilterCA, getServiceID,
      getTablesVersion, getSmoothFilterInfo, getDataflowRates,
      getCryptedProg, getPrograminfo, getAllReferencedPIDInfo,
      getPmtAlarm, getEraseCAMod, getStatPID, getLockedPIDs,
      getHighPriorityServices, getPsiSiDecodingStatus, getTSFeatures,
      getProgramOriginalName, getProgramOriginalProviderName,
      getProgramOriginalNetworkName, getNewProvName
<1>5. ~setListofServiceID.saves
  BY DEF setListofServiceID, Writer
<1> QED
  BY <1>2, <1>3, <1>4, <1>5, RmxAssumption DEF Catalogue

LEMMA InSyncInit == Init => InSync
  BY DEF Init, InSync, Busy, RanApplied, SuccessMeansInSync, DbRowWasAccepted

(* A step that tells no client anything and leaves settings and rows.      *)
LEMMA InSyncQuiet ==
    ASSUME InSync, UNCHANGED <<req, hw, db, ran, last, accepted>>,
           \A w \in Workers : pc'[w] = "idle" \/ pc[w] # "idle"
    PROVE  InSync'
  BY DEF InSync, Busy, RanApplied, Applied, SuccessMeansInSync, DbRowWasAccepted, SlotOf, PairOf

LEMMA InSyncStep ==
    ASSUME Undisturbed, TypeOK, TypeOK', Conversation, Selected, InSync, [Next]_vars
    PROVE  InSync'
<1>1. ASSUME NEW w \in Workers, Accept(w) PROVE InSync'
  <2>1. PICK r \in Requests :
          /\ req' = [req EXCEPT ![w] = r]
          /\ last' = [last EXCEPT ![SlotOf(r)] = "busy"]
    BY <1>1 DEF Accept
  <2>2. /\ req'[w] = r /\ ran'[w] = None /\ UNCHANGED <<hw, db, accepted>>
        /\ \A v \in Workers : v = w
    BY <1>1, <2>1 DEF Accept, TypeOK, Undisturbed
  <2>3. SlotOf(r) \in Slots /\ SlotOf(req[w])' = SlotOf(r)
    BY <2>2, SlotType DEF SlotOf, PairOf
  <2>4. Busy'
    BY <2>1, <2>2, <2>3 DEF Busy, TypeOK
  <2>5. RanApplied'
    BY <2>2 DEF RanApplied
  <2>6. SuccessMeansInSync' /\ DbRowWasAccepted'
    BY <2>1, <2>2, <2>3 DEF InSync, SuccessMeansInSync, DbRowWasAccepted, TypeOK
  <2> QED
    BY <2>4, <2>5, <2>6 DEF InSync
<1>2. ASSUME NEW w \in Workers, SendTarget(w) \/ SendCommand(w) \/ Receive(w) PROVE InSync'
  <2>1. /\ pc[w] # "idle" /\ \A v \in Workers \ {w} : pc'[v] = pc[v]
        /\ UNCHANGED <<req, hw, db, ran, last, accepted>>
    BY <1>2 DEF SendTarget, SendCommand, Receive, Waiting, TypeOK
  <2> QED
    BY <2>1, InSyncQuiet
<1>3. ASSUME NEW w \in Workers, BindFails(w) \/ ReceiveBad(w) \/ Timeout(w) PROVE InSync'
  <2>1. /\ pc[w] # "idle" /\ pc'[w] = "idle"
        /\ last' = [last EXCEPT ![SlotOf(req[w])] = "error"]
        /\ UNCHANGED <<req, hw, db, ran, accepted>>
    BY <1>3 DEF BindFails, ReceiveBad, Timeout, Fail, Waiting, TypeOK
  <2>2. \A v \in Workers : v = w
    BY DEF Undisturbed
  <2>3. SlotOf(req[w]) \in Slots
    BY <2>1, SlotType DEF TypeOK
  <2>4. SuccessMeansInSync'
    BY <2>1, <2>3 DEF InSync, SuccessMeansInSync, TypeOK
  <2> QED
    BY <2>1, <2>2, <2>4 DEF InSync, Busy, RanApplied, DbRowWasAccepted
<1>4. ASSUME NEW w \in Workers, Save(w) PROVE InSync'
  <2> DEFINE s == SlotOf(req[w])
  <2>1. /\ pc[w] = "save" /\ pc'[w] = "idle" /\ UNCHANGED <<req, hw, ran, accepted>>
        /\ \A v \in Workers : v = w
    BY <1>4 DEF Save, TypeOK, Undisturbed
  <2>2. s \in Slots /\ req[w] \in Requests
    BY <2>1, SlotType DEF TypeOK
  <2>3. ran[w] # None
    BY <2>1 DEF Conversation, RanLast, RanOwn
  <2>4. req[w].h.saves => hw[s] = req[w].v /\ req[w].v \in accepted[s]
    BY <2>1, <2>2, <2>3, OnlyWritersSave, RequestType DEF InSync, RanApplied, Applied
  <2>5. Busy' /\ RanApplied'
    BY <2>1 DEF Busy, RanApplied
  <2>6. CASE req[w].h.saves /\ db' = [db EXCEPT ![s] = req[w].v] /\ last' = [last EXCEPT ![s] = "ok"]
    <3>1. SuccessMeansInSync'
      BY <2>1, <2>2, <2>4, <2>6 DEF InSync, SuccessMeansInSync, TypeOK
    <3>2. DbRowWasAccepted'
      BY <2>1, <2>2, <2>4, <2>6 DEF InSync, DbRowWasAccepted, TypeOK
    <3> QED
      BY <2>5, <3>1, <3>2 DEF InSync
  <2>7. CASE last' = [last EXCEPT ![s] = "unsaved"] /\ db' = db
    BY <2>1, <2>2, <2>5, <2>7 DEF InSync, SuccessMeansInSync, DbRowWasAccepted, TypeOK
  <2> QED
    BY <1>4, <2>6, <2>7 DEF Save
<1>5. ASSUME NEW m \in net, Execute(m), m.kind = "cmd" PROVE InSync'
  <2> DEFINE s == SlotOf(m.r)
  <2>1. /\ m.w \in Workers /\ m.r = req[m.w] /\ m.r \in Requests
        /\ pc[m.w] = "cmdWait"
        /\ hw' = IF m.r.h.reads THEN hw ELSE [hw EXCEPT ![s] = m.r.v]
        /\ accepted' = IF m.r.h.reads THEN accepted
                       ELSE [accepted EXCEPT ![s] = @ \cup {m.r.v}]
    BY <1>5, Executed DEF WaitFor
  <2>2. UNCHANGED <<pc, req, db, last>> /\ \A v \in Workers : v = m.w
    BY <1>5, <2>1 DEF Execute, Undisturbed
  <2>3. s \in Slots /\ last[s] = "busy" /\ SlotOf(req[m.w])' = s
    BY <2>1, <2>2, SlotType DEF InSync, Busy, SlotOf, PairOf
  <2>4. Busy'
    BY <2>2 DEF InSync, Busy, SlotOf, PairOf
  <2>5. RanApplied'
    BY <2>1, <2>2, <2>3 DEF RanApplied, Applied, TypeOK
  <2>6. SuccessMeansInSync'
    BY <2>1, <2>2, <2>3 DEF InSync, SuccessMeansInSync, TypeOK
  <2>7. DbRowWasAccepted'
    BY <2>1, <2>2, <2>3 DEF InSync, DbRowWasAccepted, TypeOK
  <2> QED
    BY <2>4, <2>5, <2>6, <2>7 DEF InSync
<1>6. ASSUME NEW m \in net, (Execute(m) /\ m.kind # "cmd") \/ Refuse(m) \/ Lose(m) PROVE InSync'
  <2>1. UNCHANGED <<pc, req, hw, db, ran, last, accepted>>
    BY <1>6, Executed DEF Execute, Refuse, Lose
  <2> QED
    BY <2>1, InSyncQuiet
<1>7. ~\E w \in Workers : SendUnbound(w)
  BY DEF SendUnbound, Undisturbed
<1>8. CASE UNCHANGED vars
  BY <1>8, InSyncQuiet DEF vars
<1> QED
  BY <1>1, <1>2, <1>3, <1>4, <1>5, <1>6, <1>7, <1>8 DEF Next, WorkerStep, Done

LEMMA InSyncAlways == Undisturbed /\ Spec => []InSync
<1> SUFFICES ASSUME Undisturbed PROVE Spec => []InSync
  OBVIOUS
<1>1. Init => Conversation /\ Selected /\ InSync
  BY ConversationInit, SelectedInit, InSyncInit
<1>2. TypeOK /\ TypeOK' /\ Conversation /\ Selected /\ InSync /\ [Next]_vars
        => Conversation' /\ Selected' /\ InSync'
  BY ConversationStep, SelectedStep, InSyncStep DEF Undisturbed
<1> QED
  BY <1>1, <1>2, TypeCorrect, PTL DEF Spec

(* Under the same conditions: after the last client of a setting was told  *)
(* "error": false and its row was written, hardware and database agree on  *)
(* it, whatever is refused, lost or not saved before and after.            *)
THEOREM RowsInSync == Undisturbed /\ Spec => []SuccessMeansInSync
<1>1. InSync => SuccessMeansInSync
  BY DEF InSync
<1> QED
  BY <1>1, InSyncAlways, PTL

(* Nor does a row ever hold a value that its setting has not had on the    *)
(* hardware: a reply is believed only after the command ran.               *)
THEOREM RowsWereAccepted == Undisturbed /\ Spec => []DbRowWasAccepted
<1>1. InSync => DbRowWasAccepted
  BY DEF InSync
<1> QED
  BY <1>1, InSyncAlways, PTL
===============================================================================
