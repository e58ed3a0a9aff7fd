------------------------------ MODULE RmxControl ------------------------------
(***************************************************************************)
(* How a configuration request is carried out: the conversation of a       *)
(* worker thread of the HTTP server with the FPGA at 192.168.1.20 and with *)
(* the database (examples/rest_server.cc, the setX/callSetX handlers;      *)
(* src/common/callcommand.cc; write32bCPU of MxLWare_HYDRA_OEM_Drv.c).     *)
(*                                                                         *)
(* The FPGA has one board-select register for the whole system and, on     *)
(* each remultiplexer board, one selected input/output pair.  A request    *)
(* sets the register (UDP port 62000), selects the pair (UDP port 4660,    *)
(* command 02), sends its command (UDP port 4660) and saves a row.  No     *)
(* lock spans these exchanges; the only exclusion is that a second         *)
(* Callcommand::callCommand cannot bind port 4660 while one is under way.  *)
(* A reply names the command code and nothing else; it is assumed to go to *)
(* the port its request came from.                                         *)
(***************************************************************************)
EXTENDS RmxHandlers, FiniteSets

CONSTANTS
    Workers,        \* the worker threads of the HTTP endpoint (main: thr = 2)
    Boards,         \* the remultiplexer boards (rmx_no)
    Ports,          \* input and output numbers; 0 is one of them
    Values,         \* what a setting can be set to
    Handlers,       \* the handlers in use, some of the Catalogue
    MaxRequests,    \* bound: how many requests the clients send
    LateReplies,    \* may a reply arrive when its socket is no longer read?
    DbFails,        \* may mysql_query fail? (addX results are ignored)
    None,           \* no value, no request
    NoWorker        \* port 4660 is not bound

ASSUME RmxAssumption ==
    /\ Handlers \subseteq Catalogue
    /\ 0 \in Ports
    /\ MaxRequests \in Nat
    /\ LateReplies \in BOOLEAN
    /\ DbFails \in BOOLEAN
    /\ NoWorker \notin Workers

Chans == Ports \X Ports                 \* <<input, output>> pairs
Slots == Handlers \X Boards \X Chans    \* one setting of one board
ASSUME NoneAssumption ==
    /\ None \notin Values
    /\ None \notin Slots
    /\ None \notin [slot : Slots, v : Values, applied : BOOLEAN]

VARIABLES
    pc,       \* pc[w]: where worker w is in its request
    req,      \* req[w]: the request of worker w
    count,    \* requests accepted so far
    target,   \* the FPGA's board-select register
    sel,      \* sel[b]: the input/output pair selected on board b
    hw,       \* hw[s]: the setting s on the hardware
    db,       \* db[s]: the row saved for setting s
    port,     \* the worker whose socket is bound to UDP port 4660
    net,      \* the datagrams under way
    ran,      \* ghost: the setting the command of w's request changed or read
    last,     \* ghost: what the client was last told about setting s;
              \* "unsaved": a success without a row
    accepted  \* ghost: the values setting s has had on the hardware

vars == <<pc, req, count, target, sel, hw, db, port, net, ran, last, accepted>>

(* A request, and the pair its handler passes to callSetInputOutput: input *)
(* handlers pass output "0" and output handlers input "0".  A reader's     *)
(* value means nothing.                                                    *)
Requests == [h : Handlers, b : Boards, c : Chans, v : Values]

PairOf(r) == CASE r.h.scope = "in"  -> <<r.c[1], 0>>
               [] r.h.scope = "out" -> <<0, r.c[2]>>
               [] OTHER             -> r.c

SlotOf(r) == <<r.h, r.b, PairOf(r)>>

(* What the command of r changes or reads when it runs on board b with     *)
(* pair s selected there (the firmware; external).                         *)
SlotHit(r, b, s) ==
    <<r.h, b, CASE r.h.scope = "in"  -> <<s[1], 0>>
                [] r.h.scope = "out" -> <<0, s[2]>>
                [] r.h.scope = "pair" -> s
                [] OTHER             -> r.c>>

(* A datagram.  kind: which exchange; dir: request or reply; ok: the reply *)
(* reports success; bound: it was sent from the port the code asks for;    *)
(* fresh (ghost): its sender is still waiting for it.                      *)
Msgs == [kind : {"cpu", "sel", "cmd"}, dir : {"req", "rep"}, w : Workers,
         r : Requests, ok : BOOLEAN, bound : BOOLEAN, fresh : BOOLEAN]

Query(w, k, asked) == [kind |-> k, dir |-> "req", w |-> w, r |-> req[w],
                       ok |-> TRUE, bound |-> asked, fresh |-> TRUE]
Answer(m, success) == [m EXCEPT !.dir = "rep", !.ok = success]

TypeOK ==
    /\ pc \in [Workers -> {"idle", "cpu", "cpuWait", "sel", "selWait",
                           "cmd", "cmdWait", "save"}]
    /\ req \in [Workers -> Requests \cup {None}]
    /\ \A w \in Workers : pc[w] # "idle" => req[w] \in Requests
    /\ count \in 0 .. MaxRequests
    /\ target \in Boards
    /\ sel \in [Boards -> Chans]
    /\ hw \in [Slots -> Values \cup {None}]
    /\ db \in [Slots -> Values \cup {None}]
    /\ port \in Workers \cup {NoWorker}
    /\ net \in SUBSET Msgs
    /\ ran \in [Workers -> Slots \cup {None}]
    /\ last \in [Slots -> {"none", "busy", "ok", "unsaved", "error"}]
    /\ accepted \in [Slots -> SUBSET Values]

(* The server starts beside hardware that is already running: any board    *)
(* and any pair may be selected.  Settings start out unset and unsaved.    *)
Init ==
    /\ pc = [w \in Workers |-> "idle"]
    /\ req = [w \in Workers |-> None]
    /\ count = 0
    /\ target \in Boards
    /\ sel \in [Boards -> Chans]
    /\ hw = [s \in Slots |-> None]
    /\ db = [s \in Slots |-> None]
    /\ port = NoWorker
    /\ net = {}
    /\ ran = [w \in Workers |-> None]
    /\ last = [s \in Slots |-> "none"]
    /\ accepted = [s \in Slots |-> {}]

-------------------------------------------------------------------------------
(* The worker.                                                             *)

(* Mutant: the value parameter is not validated.                           *)
Accept_NotValidated(w) ==
    /\ pc[w] = "idle"
    /\ count < MaxRequests
    /\ \E r \in [h : Handlers, b : Boards, c : Chans, v : Values \cup {None}] :
          /\ r.h.scope \in {"arg", "pair"} \/ r.c = PairOf(r)
          /\ req' = [req EXCEPT ![w] = r]
          /\ pc' = [pc EXCEPT ![w] = IF r.h.select = "none" THEN "cmd" ELSE "cpu"]
          /\ last' = [last EXCEPT ![SlotOf(r)] = "busy"]
    /\ ran' = [ran EXCEPT ![w] = None]
    /\ count' = count + 1
    /\ UNCHANGED <<target, sel, hw, db, port, net, accepted>>

(* A request with valid parameters reaches its handler.                    *)
Accept(w) ==
    /\ pc[w] = "idle"
    /\ count < MaxRequests
    /\ \E r \in Requests :
          /\ r.h.scope \in {"arg", "pair"} \/ r.c = PairOf(r)
          /\ req' = [req EXCEPT ![w] = r]
          /\ pc' = [pc EXCEPT ![w] = IF r.h.select = "none" THEN "cmd" ELSE "cpu"]
          /\ last' = [last EXCEPT ![SlotOf(r)] = "busy"]
    /\ ran' = [ran EXCEPT ![w] = None]
    /\ count' = count + 1
    /\ UNCHANGED <<target, sel, hw, db, port, net, accepted>>

(* write32bCPU(0,0,target): a failing bind of port 62000 is only printed,  *)
(* so two workers can be in this exchange together.                        *)
SendTarget(w) ==
    /\ pc[w] = "cpu"
    /\ pc' = [pc EXCEPT ![w] = "cpuWait"]
    /\ net' = net \cup {Query(w, "cpu", TRUE)}
    /\ UNCHANGED <<req, count, target, sel, hw, db, port, ran, last, accepted>>

(* Mutant: the socket shares its port (SO_REUSEADDR): bind never fails.    *)
SendCommand_SharedPort(w) ==
    /\ pc[w] \in {"sel", "cmd"}
    /\ port' = w
    /\ pc' = [pc EXCEPT ![w] = IF pc[w] = "sel" THEN "selWait" ELSE "cmdWait"]
    /\ net' = net \cup {Query(w, pc[w], TRUE)}
    /\ UNCHANGED <<req, count, target, sel, hw, db, ran, last, accepted>>

(* Callcommand::callCommand: bind port 4660, send.                         *)
SendCommand(w) ==
    /\ pc[w] \in {"sel", "cmd"}
    /\ port = NoWorker
    /\ port' = w
    /\ pc' = [pc EXCEPT ![w] = IF pc[w] = "sel" THEN "selWait" ELSE "cmdWait"]
    /\ net' = net \cup {Query(w, pc[w], TRUE)}
    /\ UNCHANGED <<req, count, target, sel, hw, db, ran, last, accepted>>

(* The address of the bind is a member of the one Callcommand object: a    *)
(* worker that binds after another one's memset and before its assignment  *)
(* gets a port of the system's choice.                                     *)
SendUnbound(w) ==
    /\ pc[w] \in {"sel", "cmd"}
    /\ \E v \in Workers \ {w} : pc[v] \in {"sel", "cmd"}
    /\ pc' = [pc EXCEPT ![w] = IF pc[w] = "sel" THEN "selWait" ELSE "cmdWait"]
    /\ net' = net \cup {Query(w, pc[w], FALSE)}
    /\ UNCHANGED <<req, count, target, sel, hw, db, port, ran, last, accepted>>

(* Mutant: a failed exchange is answered like a successful one.            *)
Fail_Unreported(w) ==
    /\ pc' = [pc EXCEPT ![w] = "idle"]
    /\ last' = [last EXCEPT ![SlotOf(req[w])] = "ok"]
    /\ port' = IF port = w THEN NoWorker ELSE port
    /\ UNCHANGED <<req, count, target, sel, hw, db, ran, accepted>>

(* The handler answers "error": true to its client.                        *)
Fail(w) ==
    /\ pc' = [pc EXCEPT ![w] = "idle"]
    /\ last' = [last EXCEPT ![SlotOf(req[w])] = "error"]
    /\ port' = IF port = w THEN NoWorker ELSE port
    /\ UNCHANGED <<req, count, target, sel, hw, db, ran, accepted>>

(* ... and when another callCommand has the port, bind fails and           *)
(* callCommand returns 0.  (It also leaks its socket, which is unbound.)   *)
BindFails(w) ==
    /\ pc[w] \in {"sel", "cmd"}
    /\ port # NoWorker
    /\ Fail(w)
    /\ UNCHANGED net

Waiting(w) == pc[w] \in {"cpuWait", "selWait", "cmdWait"}

(* The datagrams the socket of w can receive: a reply to its own           *)
(* write32bCPU, or a late one that finds port 62000 bound again; on port   *)
(* 4660 whatever arrives while w has the port; on a port of the system's   *)
(* choice the reply to its own command.                                    *)
Arrives(w, m) ==
    /\ m.dir = "rep"
    /\ \/ pc[w] = "cpuWait" /\ m.kind = "cpu" /\ (m.w = w \/ ~m.fresh)
       \/ /\ pc[w] \in {"selWait", "cmdWait"}
          /\ m.kind # "cpu"
          /\ IF m.bound THEN port = w ELSE m.w = w /\ m.fresh

(* Mutant: only the code of a reply is looked at, not its status.          *)
Believes_AnyStatus(w, m) ==
    \/ pc[w] = "cpuWait"
    \/ pc[w] = "selWait" /\ m.kind = "sel"
    \/ pc[w] = "cmdWait" /\ m.kind = "cmd" /\ m.r.h.cmd = req[w].h.cmd

(* What the handler takes for success: any reply to write32bCPU (only the  *)
(* byte count is looked at); for a command the status and the code, which  *)
(* is 02 for a selection and the handler's code otherwise.  The length is  *)
(* left out: most handlers test it too, the readers of lists do not.       *)
Believes(w, m) ==
    \/ pc[w] = "cpuWait"
    \/ pc[w] = "selWait" /\ m.ok /\ m.kind = "sel"
    \/ pc[w] = "cmdWait" /\ m.ok /\ m.kind = "cmd" /\ m.r.h.cmd = req[w].h.cmd

(* Mutant: callSetInputOutput is left out.                                 *)
Receive_NoSelection(w) ==
    /\ Waiting(w)
    /\ \E m \in net :
          /\ Arrives(w, m)
          /\ Believes(w, m)
          /\ net' = net \ {m}
    /\ port' = IF port = w THEN NoWorker ELSE port
    /\ pc' = [pc EXCEPT ![w] = IF pc[w] = "cmdWait" THEN "save" ELSE "cmd"]
    /\ UNCHANGED <<req, count, target, sel, hw, db, ran, last, accepted>>

(* recvfrom returns the first datagram; callCommand closes its socket, the *)
(* handler goes on.                                                        *)
Receive(w) ==
    /\ Waiting(w)
    /\ \E m \in net :
          /\ Arrives(w, m)
          /\ Believes(w, m)
          /\ net' = net \ {m}
    /\ port' = IF port = w THEN NoWorker ELSE port
    /\ pc' = [pc EXCEPT ![w] =
                 CASE pc[w] = "cpuWait" /\ req[w].h.select = "channel" -> "sel"
                   [] pc[w] = "cmdWait" -> "save"
                   [] OTHER -> "cmd"]
    /\ UNCHANGED <<req, count, target, sel, hw, db, ran, last, accepted>>

(* The reply reports a failure or belongs to another command.              *)
ReceiveBad(w) ==
    /\ Waiting(w)
    /\ \E m \in net :
          /\ Arrives(w, m)
          /\ ~Believes(w, m)
          /\ net' = {IF n.w = w THEN [n EXCEPT !.fresh = FALSE] ELSE n : n \in net \ {m}}
    /\ Fail(w)

(* Mutant: after a timeout the datagram is sent again.                     *)
Timeout_Resends(w) ==
    /\ Waiting(w)
    /\ LateReplies \/ \A m \in net : m.w # w
    /\ net' = {IF m.w = w THEN [m EXCEPT !.fresh = FALSE] ELSE m : m \in net}
    /\ pc' = [pc EXCEPT ![w] = CASE pc[w] = "cpuWait" -> "cpu"
                                  [] pc[w] = "selWait" -> "sel"
                                  [] OTHER -> "cmd"]
    /\ port' = IF port = w THEN NoWorker ELSE port
    /\ UNCHANGED <<req, count, target, sel, hw, db, ran, last, accepted>>

(* SO_RCVTIMEO expires and recvfrom returns -1, or the shutdown after the  *)
(* close of another callCommand hits this socket and it returns 0.  Without *)
(* late replies this happens only when a datagram was lost; with them, at  *)
(* any time, and what is under way is no longer waited for.                *)
Timeout(w) ==
    /\ Waiting(w)
    /\ LateReplies \/ \A m \in net : m.w # w
    /\ net' = {IF m.w = w THEN [m EXCEPT !.fresh = FALSE] ELSE m : m \in net}
    /\ Fail(w)

(* db->addX(...), whose result is not looked at, and the answer; a reader  *)
(* only answers.                                                           *)
Save(w) ==
    /\ pc[w] = "save"
    /\ pc' = [pc EXCEPT ![w] = "idle"]
    /\ \/ /\ req[w].h.saves
          /\ db' = [db EXCEPT ![SlotOf(req[w])] = req[w].v]
          /\ last' = [last EXCEPT ![SlotOf(req[w])] = "ok"]
       \/ /\ DbFails \/ ~req[w].h.saves
          /\ last' = [last EXCEPT ![SlotOf(req[w])] = "unsaved"]
          /\ UNCHANGED db
    /\ UNCHANGED <<req, count, target, sel, hw, port, net, ran, accepted>>

-------------------------------------------------------------------------------
(* The FPGA and the network (external).                                    *)

(* The FPGA carries out a request on the board that is selected now.       *)
Execute(m) ==
    /\ m.dir = "req"
    /\ net' = (net \ {m}) \cup {Answer(m, TRUE)}
    /\ \/ /\ m.kind = "cpu"
          /\ target' = m.r.b
          /\ UNCHANGED <<sel, hw, ran, accepted>>
       \/ /\ m.kind = "sel"
          /\ sel' = [sel EXCEPT ![target] = PairOf(m.r)]
          /\ UNCHANGED <<target, hw, ran, accepted>>
       \/ /\ m.kind = "cmd"
          /\ LET s == SlotHit(m.r, target, sel[target])
             IN  /\ ran' = IF m.fresh THEN [ran EXCEPT ![m.w] = s] ELSE ran
                 /\ IF m.r.h.reads
                    THEN UNCHANGED <<hw, accepted>>
                    ELSE /\ hw' = [hw EXCEPT ![s] = m.r.v]
                         /\ accepted' = [accepted EXCEPT ![s] = @ \cup {m.r.v}]
          /\ UNCHANGED <<target, sel>>
    /\ UNCHANGED <<pc, req, count, db, port, last>>

(* The board refuses a selection or a setting: a status other than 1.  The *)
(* reply to a read carries data and no status.                             *)
Refuse(m) ==
    /\ m.dir = "req"
    /\ m.kind = "sel" \/ (m.kind = "cmd" /\ ~m.r.h.reads)
    /\ net' = (net \ {m}) \cup {Answer(m, FALSE)}
    /\ UNCHANGED <<pc, req, count, target, sel, hw, db, port, ran, last, accepted>>

(* A datagram is lost, or arrives where no socket is open any more.        *)
Lose(m) ==
    /\ net' = net \ {m}
    /\ UNCHANGED <<pc, req, count, target, sel, hw, db, port, ran, last, accepted>>

(* All requests are answered and the clients send no more.                 *)
Done ==
    /\ count = MaxRequests
    /\ \A w \in Workers : pc[w] = "idle"
    /\ UNCHANGED vars

WorkerStep(w) ==
    \/ SendTarget(w) \/ SendCommand(w) \/ SendUnbound(w) \/ BindFails(w)
    \/ Receive(w) \/ ReceiveBad(w) \/ Timeout(w) \/ Save(w)

Next ==
    \/ \E w \in Workers : Accept(w) \/ WorkerStep(w)
    \/ \E m \in net : Execute(m) \/ Refuse(m) \/ Lose(m)
    \/ Done

Spec == Init /\ [][Next]_vars

(* A thread that has something to do gets to run; recvfrom returns at the  *)
(* latest when its timeout expires.  Nothing is assumed of the network.    *)
FairSpec == Spec /\ \A w \in Workers : WF_vars(WorkerStep(w))

-------------------------------------------------------------------------------
(* Properties.                                                             *)

(* What the handlers claim with "error": false: the command ran, on the    *)
(* board, input and output the request names, and nowhere else; what a     *)
(* reader answers was read there.                                          *)
ReportedSuccessIsReal ==
    \A w \in Workers : pc[w] = "save" => ran[w] = SlotOf(req[w])

(* Port 4660 is a lock for a single exchange: with any number of workers,  *)
(* a success is never concluded from the reply to another worker's         *)
(* command; the worker's own command did run, on some board.               *)
OwnReplyOnly ==
    \A w \in Workers :
        pc[w] = "save" => ran[w] # None /\ ran[w][1] = req[w].h

(* After the last client of a setting was told "error": false and its row  *)
(* was written, hardware and database agree on the setting, whatever other *)
(* requests, refusals, losses and failing writes came before and after.    *)
SuccessMeansInSync ==
    \A s \in Slots : last[s] = "ok" => hw[s] = db[s]

(* A row never holds a value that its setting has not had on the hardware. *)
DbRowWasAccepted ==
    \A s \in Slots : db[s] # None => db[s] \in accepted[s]

(* The conversation implements the promise of ConfigStore: each request    *)
(* changes the setting it names and no other, while it is under way.       *)
Job(w) ==
    IF pc[w] = "idle" THEN None
    ELSE [slot |-> SlotOf(req[w]), v |-> req[w].v, applied |-> ran[w] # None]

Store == INSTANCE ConfigStore WITH
    Clients <- Workers,
    Settings <- Slots,
    Saved <- {s \in Slots : s[1].saves},
    ReadOnly <- {s \in Slots : s[1].reads},
    Vals <- Values,
    Idle <- None,
    job <- [w \in Workers |-> Job(w)],
    cfg <- hw,
    rows <- db

ImplementsConfigStore == Store!Spec

(* Every request is answered, whatever the network does.                   *)
EveryRequestAnswered ==
    \A w \in Workers : pc[w] # "idle" ~> pc[w] = "idle"
===============================================================================
