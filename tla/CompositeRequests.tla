-------------------------- MODULE CompositeRequests --------------------------
(***************************************************************************)
(* The requests of module Scripts, one worker, one exchange after the      *)
(* other.  A datagram may not arrive, its answer may be lost, and an       *)
(* answer may come after the caller stopped waiting: the next exchange on  *)
(* that port, of this or of another request, binds the port again and      *)
(* takes what it receives for its own (at most one such answer is under    *)
(* way on a port).  A core that gets a datagram does what it says, or, if  *)
(* it is a write, refuses it and says so in its answer, whether the handler*)
(* looks there or not.  Only the selection of the board has an answer that *)
(* says nothing; the control FPGA takes it as it takes any register.       *)
(*                                                                         *)
(* A cell is one thing a core holds: <<what, arg, board, channel>>, with   *)
(* 0 for a board or channel that does not matter.  A reading is a pair of  *)
(* a cell and its contents; what no request writes is always None.         *)
(*                                                                         *)
(* The queries that save rows do not fail.                                 *)
(***************************************************************************)
EXTENDS Scripts, FiniteSets

CONSTANTS
    Handlers,     \* the requests that are sent, from the catalogue
    Boards,       \* rmx_no
    Channels,     \* the input and output, or the output, that a request names
    Settings,     \* what a setter is told: a sequence of three numbers
    RowMax,       \* the largest value of a data int(11)
    LateAnswers,  \* whether answers can be late
    MaxRequests,  \* bound: how many requests the clients send
    None          \* no request, nothing under way, nothing known

Ports == {"fpga", "board"}
Scripted(h) == DOMAIN h.steps
PartsWritten(h) == {i \in Scripted(h) : /\ h.steps[i].write
                                        /\ h.steps[i].what \notin {"target", "pair"}}
Selects(h) == \E i \in Scripted(h) : h.steps[i].what = "target"

(* What a request does not use is the same in all of them.                 *)
AnyOf(S) == {CHOOSE x \in S : TRUE}
Used(S, use) == IF use THEN S ELSE AnyOf(S)
Requests ==
    UNION {[handler : {h},
            board : Used(Boards, Selects(h)),
            channel : Used(Channels, \E i \in Scripted(h) :
                                        /\ h.steps[i].scope \in {"pair", "output"}
                                           \/ h.steps[i].what = "pair"),
            value : Used(Settings, PartsWritten(h) # {})] : h \in Handlers}

ASSUME CompositeAssumption ==
    /\ Boards # {} /\ 0 \notin Boards
    /\ Channels # {}
    /\ Settings # {} /\ Settings \subseteq [1 .. 3 -> Nat]
    /\ Inputs \in Seq(Nat \ {0})
    /\ RowMax \in Nat
    /\ MaxRequests \in Nat
    /\ None \notin Nat \union Channels \union Requests

Cell(e, b, c) ==
    <<e.what, e.arg, IF e.scope = "fpga" THEN 0 ELSE b,
      IF e.scope \in {"pair", "output"} THEN c ELSE 0>>
ChannelOf(r, e) == IF e.group = 0 THEN r.channel ELSE e.group
(* The cell that exchange e of request r is meant for.                     *)
Named(r, e) == Cell(e, r.board, ChannelOf(r, e))

CellsWritten == UNION {{Named(r, r.handler.steps[i]) : i \in PartsWritten(r.handler)} :
                       r \in Requests}
KeyCells == {cell \in CellsWritten : cell[3] # 0}
Numbers == UNION {{v[i] : i \in 1 .. 3} : v \in Settings}

VARIABLES
    req,      \* the request
    at,       \* its next exchange, 0 when the answer is out
    told,     \* what its exchanges told: [step, accepted, value]
    target,   \* the selected board
    pair,     \* pair[b]: the selected input and output of board b
    held,     \* held[cell]: what the cores hold
    rows,     \* rmx_registers
    channel_list,  \* what was read as the programs of an input of a board
    late,     \* late[p]: an answer under way to port p
    count,    \* requests so far
    clean,    \* ghost: no answer was under way when the request began
    spoiled,  \* ghost: a request did not begin so
    unseen,   \* ghost: a core refused a write of the request, and said so where
              \* the handler does not look
    asked     \* ghost: what the last request that wrote a cell set it to, None
              \* when its answer was an error

device == <<target, pair, held>>
vars == <<req, at, told, device, rows, channel_list, late, count, clean, spoiled,
          unseen, asked>>

Init ==
    /\ req = None /\ at = 0 /\ told = <<>>
    /\ target \in Boards
    /\ pair = [b \in Boards |-> None]
    /\ held = [cell \in CellsWritten |-> None]
    /\ rows = [cell \in KeyCells |-> None]
    /\ channel_list = {}
    /\ late = [p \in Ports |-> None]
    /\ count = 0 /\ clean = TRUE /\ spoiled = FALSE /\ unseen = FALSE
    /\ asked = held

-------------------------------------------------------------------------------
(* The cores.                                                              *)
Reached(r, e) ==
    Cell(e, target, IF e.scope = "pair" THEN pair[target] ELSE ChannelOf(r, e))
Contents(cell) ==
    IF cell[1] = "pair" THEN pair[cell[3]]
    ELSE IF cell \in CellsWritten THEN held[cell] ELSE None

(* A mutation: registers as wide as the numbers they are told.             *)
Stored_Untruncated(what, v) == v

(* Ports have 16 bits, channel numbers 8.                                  *)
Stored(what, v) ==
    IF what \in {"source_port", "destination_port"} THEN v % 65536
    ELSE IF what \in {"udp_channel", "igmp_channel"} THEN v % 256 ELSE v

(* A core does what exchange e of request r says.                          *)
Do(r, e) ==
    /\ target' = IF e.write /\ e.what = "target" THEN r.board ELSE target
    /\ pair' = IF e.write /\ e.what = "pair"
               THEN [pair EXCEPT ![target] = ChannelOf(r, e)] ELSE pair
    /\ held' = IF e.write /\ Reached(r, e) \in CellsWritten
               THEN [held EXCEPT ![Reached(r, e)] = Stored(e.what, r.value[e.arg])]
               ELSE held

Nothing == <<None, None>>
Answer(r, e, done) ==
    [code |-> e.code, write |-> e.write, done |-> done,
     value |-> IF e.write THEN Nothing
               ELSE <<Reached(r, e), Contents(Reached(r, e))>>]

CanRefuse(e) == e.write /\ e.what # "target"
Outcomes(e) == {TRUE} \union (IF CanRefuse(e) THEN {FALSE} ELSE {})

(* The handler looks at what an answer says of a write.                    *)
Looks(e) == e.checks \in {"code", "status"}

(* A core gets exchange e of request r, and does it or refuses.            *)
Handle(r, e, done) ==
    /\ IF done THEN Do(r, e) ELSE UNCHANGED device
    /\ unseen' = (unseen \/ (~done /\ ~Looks(e)))

(* A mutation: the answer is not compared with the command.                *)
Accepts_AnyCommand(e, d) == Looks(e) => d.done

(* What the handler makes of datagram d.                                   *)
Accepts(e, d) ==
    CASE e.checks = "code" -> d.code = e.code /\ d.write = e.write /\ d.done
      [] e.checks = "status" -> d.done
      [] OTHER -> TRUE

-------------------------------------------------------------------------------
(* The handler.                                                            *)
Step(r) == r.handler.steps[at]
Begin(r) ==
    /\ at = 0 /\ count < MaxRequests
    /\ count' = count + 1
    /\ req' = r /\ at' = 1 /\ told' = <<>> /\ unseen' = FALSE
    /\ clean' = \A p \in Ports : late[p] = None
    /\ spoiled' = (spoiled \/ ~clean')
    /\ asked' = [cell \in CellsWritten |->
                    IF \E i \in PartsWritten(r.handler) : Named(r, r.handler.steps[i]) = cell
                    THEN None ELSE asked[cell]]
    /\ UNCHANGED <<device, rows, channel_list, late>>

(* The exchange after `at'; one past the last when there is none.          *)
After(h, accepted) ==
    LET left == {j \in at + 1 .. Len(h.steps) :
                    \/ accepted
                    \/ h.steps[at].fails = "go"
                    \/ h.steps[at].fails = "skip" /\ h.steps[j].group # h.steps[at].group}
    IN  IF left = {} THEN Len(h.steps) + 1 ELSE CHOOSE j \in left : \A k \in left : j <= k

(* error is false in the answer of request r.                              *)
Succeeds(r, t) ==
    IF r.handler.tells = "all" THEN \A i \in DOMAIN t : t[i].accepted
    ELSE t[Len(t)].accepted

(* addRmxRegisterData: what the column cannot hold is cut off or refused.  *)
Kept(cell, v) == IF v <= RowMax THEN {v} ELSE {RowMax, rows[cell]}
SaveRow(r, e, accepted) ==
    IF accepted /\ e.write /\ e.scope = "output"
    THEN \E v \in Kept(Named(r, e), r.value[e.arg]) : rows' = [rows EXCEPT ![Named(r, e)] = v]
    ELSE UNCHANGED rows

(* addChannelList, of callGetProgramList.                                  *)
SaveList(r, e, accepted, value) ==
    channel_list' = channel_list \union
        IF accepted /\ e.what = "programs" THEN {<<Named(r, e), value>>} ELSE {}

Proceed(r, accepted, value) ==
    LET t == Append(told, [step |-> at, accepted |-> accepted, value |-> value])
        next == After(r.handler, accepted)
        over == next > Len(r.handler.steps)
    IN  /\ told' = t
        /\ at' = IF over THEN 0 ELSE next
        /\ asked' = IF over /\ Succeeds(r, t) /\ ~unseen'
                    THEN [cell \in CellsWritten |->
                            IF \E i \in PartsWritten(r.handler) :
                                   Named(r, r.handler.steps[i]) = cell
                            THEN r.value[cell[2]] ELSE asked[cell]]
                    ELSE asked
        /\ SaveRow(r, Step(r), accepted)
        /\ SaveList(r, Step(r), accepted, value)
        /\ UNCHANGED <<req, count, clean, spoiled>>

Receive(r, d) ==
    LET accepted == Accepts(Step(r), d)
    IN  Proceed(r, accepted, IF accepted THEN d.value ELSE Nothing)

(* The datagram arrives and is answered in time; an answer that was under  *)
(* way still is, or never comes.                                           *)
InTime(r) ==
    LET e == Step(r)
    IN  \E done \in Outcomes(e) :
            /\ Handle(r, e, done)
            /\ late' \in {late, [late EXCEPT ![e.port] = None]}
            /\ Receive(r, Answer(r, e, done))

(* An answer that was under way comes first.  This datagram is lost, or is *)
(* answered, and then that answer is late or lost.                         *)
FromBefore(r) ==
    LET e == Step(r)
    IN  /\ late[e.port] # None
        /\ \/ /\ UNCHANGED <<device, unseen>>
              /\ late' = [late EXCEPT ![e.port] = None]
           \/ \E done \in Outcomes(e) :
                 /\ Handle(r, e, done)
                 /\ late' \in {[late EXCEPT ![e.port] = Answer(r, e, done)],
                               [late EXCEPT ![e.port] = None]}
        /\ Receive(r, late[e.port])

(* Nothing comes within the 500 ms.                                        *)
TimesOut(r) ==
    LET e == Step(r)
    IN  /\ \/ UNCHANGED <<device, unseen, late>>
           \/ \E done \in Outcomes(e) :
                 /\ Handle(r, e, done)
                 /\ late' \in {late} \union
                       IF LateAnswers THEN {[late EXCEPT ![e.port] = Answer(r, e, done)]} ELSE {}
        /\ Proceed(r, FALSE, Nothing)

Exchanging == at # 0 /\ (InTime(req) \/ FromBefore(req) \/ TimesOut(req))
(* All requests of the bound are answered.                                 *)
Done == at = 0 /\ count = MaxRequests /\ UNCHANGED vars

Next == Exchanging \/ (\E r \in Requests : Begin(r)) \/ Done

Spec == Init /\ [][Next]_vars

-------------------------------------------------------------------------------
(* How the handlers of the catalogue make their exchanges.                 *)

(* What an exchange of the catalogue is about.                             *)
Subjects ==
    {"target", "pair", "ts_id", "nit_mode", "versions", "intervals", "provider", "info",
     "alarm", "rates", "activated", "service_ids", "name", "new_name", "programs", "tables",
     "affected", "firmware", "hardware", "lsb", "msb", "key_id", "mac_lsb", "mac_msb",
     "version", "destination", "mask", "gateway", "dhcp_gateway", "destination_port",
     "multicast", "ip", "dhcp_ip", "source_port", "udp_channel", "igmp_channel"}
Exchanges ==
    [port : Ports, code : Nat, scope : {"fpga", "board", "output", "pair"}, what : Subjects,
     arg : Nat, write : BOOLEAN, checks : {"code", "status", "header", "nothing"},
     fails : {"stop", "go", "skip"}, group : {0} \union ToSet(Inputs)]

Puts(h, i, what) == h.steps[i].what = what /\ h.steps[i].write
SameGroup(h, i, j) == \A k \in i .. j : h.steps[k].group = h.steps[j].group
AllStop(h) == \A i \in Scripted(h) : h.steps[i].fails = "stop"

(* A setter writes up to the first failure and reads nothing.              *)
SetsInOrder(h) ==
    PartsWritten(h) # {} =>
        /\ h.tells = "all" /\ AllStop(h)
        /\ \A i \in Scripted(h) : h.steps[i].write
        /\ \A i \in PartsWritten(h) : /\ h.steps[i].arg \in 1 .. 3
                                      /\ h.steps[i].scope \in {"fpga", "output"}
                                      /\ h.steps[i].scope = "output" => Selects(h)

(* A selection that fails is not passed over; what comes after it, up to   *)
(* the next, is left out with it.                                          *)
SelectsInOrder(h) ==
    /\ \A i \in Scripted(h) :
          /\ h.steps[i].what = "target" => /\ h.steps[i].port = "fpga" /\ h.steps[i].write
                                           /\ h.steps[i].fails # "go"
          /\ Puts(h, i, "pair") => /\ h.steps[i].fails # "go"
                                  /\ h.steps[i].code = Pair.code
                                  /\ h.steps[i].checks = "code"
                                  /\ h.steps[i].scope = "board"
    /\ Selects(h) =>
          \A i \in Scripted(h) : h.steps[i].scope # "fpga" =>
              \E k \in 1 .. i - 1 : Puts(h, k, "target") /\ SameGroup(h, k, i)
    /\ (\E i \in Scripted(h) : Puts(h, i, "pair")) =>
          \A i \in Scripted(h) : h.steps[i].scope = "pair" =>
              \E k \in 1 .. i - 1 : /\ Puts(h, k, "pair") /\ SameGroup(h, k, i)
                                    /\ \A j \in k + 1 .. i - 1 : ~Puts(h, j, "pair")

(* A handler that goes on after a failure tells answers of a board by      *)
(* their command, and asks the control FPGA for nothing but the board.     *)
ReadsInOrder(h) ==
    /\ \/ AllStop(h)
       \/ \A i \in Scripted(h) : IF h.steps[i].port = "fpga" THEN Puts(h, i, "target")
                                 ELSE h.steps[i].checks = "code"
    /\ \A i \in Scripted(h) :
          /\ h.steps[i].what = "pair" /\ ~h.steps[i].write =>
                /\ h.steps[i].scope = "board"
                /\ \A k \in Scripted(h) : ~Puts(h, k, "pair")
          /\ h.steps[i].what = "programs" => h.steps[i].scope = "pair" /\ h.steps[i].group # 0

InOrder(h) ==
    /\ h.steps \in Seq(Exchanges) /\ h.steps # <<>>
    /\ SetsInOrder(h) /\ SelectsInOrder(h) /\ ReadsInOrder(h)

-------------------------------------------------------------------------------
(* Every variable has its type; no register holds more than its width.     *)
TypeOK ==
    /\ req \in Requests \union {None}
    /\ at \in 0 .. IF req = None THEN 0 ELSE Len(req.handler.steps)
    /\ \A i \in DOMAIN told : /\ told[i].step \in Scripted(req.handler)
                             /\ told[i].accepted \in BOOLEAN
    /\ target \in Boards
    /\ pair \in [Boards -> Channels \union ToSet(Inputs) \union {None}]
    /\ DOMAIN held = CellsWritten
    /\ \A cell \in CellsWritten :
           held[cell] # None =>
               /\ held[cell] \in Nat
               /\ cell[1] \in {"source_port", "destination_port"} => held[cell] < 65536
               /\ cell[1] \in {"udp_channel", "igmp_channel"} => held[cell] < 256
    /\ rows \in [KeyCells -> Numbers \union {RowMax, None}]
    /\ \A row \in channel_list : row[1][3] \in Boards /\ row[1][4] \in ToSet(Inputs)
    /\ DOMAIN late = Ports
    /\ asked \in [CellsWritten -> Numbers \union {None}]
    /\ count \in 0 .. MaxRequests
    /\ clean \in BOOLEAN /\ spoiled \in BOOLEAN /\ unseen \in BOOLEAN

(* What the answer to request r shows, by its place in t.                  *)
Shown(r, t) == {i \in DOMAIN t : /\ t[i].accepted
                                 /\ ~r.handler.steps[t[i].step].write
                                 /\ r.handler.tells = "parts" \/ Succeeds(r, t)}

(* The handler selects all that decides where exchange e takes effect.     *)
SelectsFor(h, e) ==
    /\ e.scope # "fpga" => Selects(h)
    /\ e.scope = "pair" => \E i \in Scripted(h) : h.steps[i].what = "pair" /\ h.steps[i].write

(* Nothing before the i-th of its exchanges t failed whose late answer could *)
(* be taken for that of this one, or of a selection.                       *)
Unmistakable(h, t, i) ==
    \A j \in 1 .. i - 1 :
        t[j].accepted \/ h.steps[t[j].step].code \notin {h.steps[t[i].step].code, Pair.code}

(* The composite answers of getTSDetails, getChannelDetails,               *)
(* getActivatedProgs, getAllInputServices and the like show, under the name*)
(* of each part, what the core holds for the board and channel of the      *)
(* request, although every one of their exchanges may fail and be answered *)
(* late: the answer to one question is not shown as that to another, and a *)
(* failed selection is not passed over.  It holds for a request before     *)
(* which no answer was under way, and for the parts that cannot be mistaken*)
(* for an earlier one that failed: an answer does not say which program, or*)
(* which register, it is about.                                            *)
ShownIsRight ==
    (at = 0 /\ clean) =>
        \A i \in DOMAIN told :
            LET e == req.handler.steps[told[i].step]
                cell == Named(req, e)
            IN  (/\ i \in Shown(req, told)
                 /\ SelectsFor(req.handler, e)
                 /\ Unmistakable(req.handler, told, i))
                => told[i].value = <<cell, Contents(cell)>>

(* A success of setDVBCSAKey, setUDPportSource, setFpgaMACAddress and the  *)
(* like means that the cores hold all of what was told, until the next     *)
(* request for the same, at the board and output it was told for, and      *)
(* whatever other requests of Handlers read, selected or wrote since, the  *)
(* cores having refused what they would; so do the rows from which the keys*)
(* of the outputs are to be restored.  It holds as long as no request began*)
(* with an answer still under way, and for what a register, or a column,   *)
(* can hold.  Of the setters that look only at the head of the answer      *)
(* (setSubnetmask, setIpgateway, setIpmulticast, setFpgaipDhcp,            *)
(* setFpgaMACAddress) it says nothing where the core refused: they answer  *)
(* a success all the same.                                                 *)
AsTold ==
    ~spoiled =>
        \A cell \in CellsWritten :
            asked[cell] # None =>
                /\ Stored(cell[1], asked[cell]) = asked[cell] => held[cell] = asked[cell]
                /\ cell \in KeyCells /\ asked[cell] <= RowMax => rows[cell] = asked[cell]
===============================================================================
