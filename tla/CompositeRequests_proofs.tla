----------------------- MODULE CompositeRequests_proofs -----------------------
(***************************************************************************)
(* Proofs about module CompositeRequests, for any scripts in which         *)
(* selections, readings and writes come in the order that the handlers of  *)
(* rest_server.cc and udpipstack.cc have them in (InOrder).                *)
(***************************************************************************)
EXTENDS CompositeRequests, TLAPS, WellFoundedInduction

Ordered == \A h \in Handlers : InOrder(h)

PairChannels == Channels \union ToSet(Inputs) \union {None}
Values == {Nothing} \union
          ((Subjects \X Nat \X (Boards \union {0}) \X (PairChannels \union {0}))
              \X (PairChannels \union Nat))
Readings == [step : Nat, accepted : BOOLEAN, value : Values]
Answers == [code : Nat, write : BOOLEAN, done : BOOLEAN, value : Values]

-------------------------------------------------------------------------------
(* Requests and scripts.                                                   *)

LEMMA RequestFields ==
    ASSUME NEW r \in Requests
    PROVE  /\ r.handler \in Handlers /\ r.board \in Boards
           /\ r.channel \in Channels /\ r.value \in Settings
<1>1. \A S : S # {} => AnyOf(S) \subseteq S
  BY DEF AnyOf
<1>2. \A S, use : S # {} => Used(S, use) \subseteq S
  BY <1>1 DEF Used
<1>3. PICK h \in Handlers :
         r \in [handler : {h},
               board : Used(Boards, Selects(h)),
               channel : Used(Channels, \E i \in Scripted(h) :
                                           /\ h.steps[i].scope \in {"pair", "output"}
                                              \/ h.steps[i].what = "pair"),
               value : Used(Settings, PartsWritten(h) # {})]
  BY Zenon DEF Requests
<1> QED
  BY <1>2, <1>3, CompositeAssumption

LEMMA ScriptFields ==
    ASSUME Ordered, NEW r \in Requests
    PROVE  /\ InOrder(r.handler) /\ r.handler.steps \in Seq(Exchanges)
           /\ Len(r.handler.steps) \in Nat \ {0}
           /\ Scripted(r.handler) = 1 .. Len(r.handler.steps)
           /\ \A i \in Scripted(r.handler) : r.handler.steps[i] \in Exchanges
  BY RequestFields DEF Ordered, InOrder, Scripted

(* What a cell is.                                                         *)
LEMMA CellFields ==
    ASSUME Ordered, NEW cell \in CellsWritten
    PROVE  \E r \in Requests : \E i \in PartsWritten(r.handler) :
              /\ cell = Named(r, r.handler.steps[i])
              /\ cell[1] = r.handler.steps[i].what /\ cell[1] \notin {"target", "pair"}
              /\ cell[2] = r.handler.steps[i].arg /\ cell[2] \in 1 .. 3
<1>1. PICK r \in Requests :
         cell \in {Named(r, r.handler.steps[i]) : i \in PartsWritten(r.handler)}
  BY Zenon DEF CellsWritten
<1>2. SetsInOrder(r.handler)
  BY ScriptFields DEF InOrder
<1>3. PICK i \in PartsWritten(r.handler) : cell = Named(r, r.handler.steps[i])
  BY <1>1
<1>4. /\ cell[1] = r.handler.steps[i].what /\ cell[1] \notin {"target", "pair"}
      /\ cell[2] = r.handler.steps[i].arg /\ cell[2] \in 1 .. 3
  BY <1>2, <1>3 DEF SetsInOrder, PartsWritten, Named, Cell
<1> QED
  BY <1>3, <1>4

(* A set of numbers has a least one.                                       *)
LEMMA Least == ASSUME NEW S \in SUBSET Nat, S # {} PROVE \E j \in S : \A k \in S : j <= k
<1> DEFINE R == OpToRel(<, Nat)
<1>1. IsWellFoundedOn(R, Nat)
  BY NatLessThanWellFounded
<1>2. \A x, y \in Nat : <<y, x>> \in R <=> y < x
  BY DEF OpToRel
<1> HIDE DEF R
<1>3. PICK j \in S : \A k \in S : ~(<<k, j>> \in R)
  BY <1>1, WFMin
<1>4. ASSUME NEW k \in S PROVE j <= k
  <2>1. ~(k < j)
    BY <1>2, <1>3
  <2> QED
    BY <2>1
<1> QED
  BY <1>4

(* Where a handler goes on.                                                *)
LEMMA NextStep ==
    ASSUME Ordered, NEW r \in Requests, at \in Scripted(r.handler), NEW accepted \in BOOLEAN,
           NEW n, n = After(r.handler, accepted)
    PROVE  LET h == r.handler
               e == h.steps[at]
           IN  /\ n = Len(h.steps) + 1 \/ (n \in Scripted(h) /\ n > at)
               /\ accepted \/ e.fails = "go" => n = at + 1
               /\ ~accepted /\ e.fails = "stop" => n = Len(h.steps) + 1
               /\ ~accepted /\ e.fails = "skip" /\ n \in Scripted(h) =>
                     /\ h.steps[n].group # e.group
                     /\ \A k \in at + 1 .. n - 1 : h.steps[k].group = e.group
<1> DEFINE h == r.handler
           e == h.steps[at]
           left == {j \in at + 1 .. Len(h.steps) :
                       \/ accepted
                       \/ e.fails = "go"
                       \/ e.fails = "skip" /\ h.steps[j].group # e.group}
<1>1. /\ Scripted(h) = 1 .. Len(h.steps) /\ Len(h.steps) \in Nat
      /\ e.fails \in {"stop", "go", "skip"}
  BY ScriptFields DEF Exchanges
<1>2. at \in Nat /\ at >= 1 /\ at <= Len(h.steps)
  BY <1>1
<1>3. n = IF left = {} THEN Len(h.steps) + 1 ELSE CHOOSE j \in left : \A k \in left : j <= k
  BY DEF After
<1> HIDE DEF h, e
<1>4. CASE left = {}
  <2>1. n = Len(h.steps) + 1
    BY <1>3, <1>4
  <2>2. accepted \/ e.fails = "go" => at = Len(h.steps)
    <3> SUFFICES ASSUME accepted \/ e.fails = "go", at # Len(h.steps) PROVE FALSE
      OBVIOUS
    <3>1. at + 1 \in left
      BY <1>1, <1>2
    <3> QED
      BY <1>4, <3>1
  <2> QED
    BY <1>1, <1>2, <2>1, <2>2 DEF h, e
<1>5. CASE left # {}
  <2>1. left \in SUBSET Nat
    BY <1>1, <1>2
  <2>2. n \in left /\ \A k \in left : n <= k
    <3> HIDE DEF left
    <3> QED
      BY <1>3, <1>5, <2>1, Least
  <2>3. n \in at + 1 .. Len(h.steps)
    BY <2>2
  <2>4. accepted \/ e.fails = "go" => n = at + 1
    <3> SUFFICES ASSUME accepted \/ e.fails = "go" PROVE n = at + 1
      OBVIOUS
    <3>1. at + 1 \in left
      BY <1>1, <1>2, <2>3
    <3> QED
      BY <1>2, <2>2, <2>3, <3>1
  <2>5. ~(~accepted /\ e.fails = "stop")
    BY <2>2
  <2>6. ~accepted /\ e.fails = "skip" =>
           h.steps[n].group # e.group /\ \A k \in at + 1 .. n - 1 : h.steps[k].group = e.group
    <3> SUFFICES ASSUME ~accepted, e.fails = "skip"
                 PROVE  /\ h.steps[n].group # e.group
                        /\ \A k \in at + 1 .. n - 1 : h.steps[k].group = e.group
      OBVIOUS
    <3>1. h.steps[n].group # e.group
      BY <2>2
    <3>2. ASSUME NEW k \in at + 1 .. n - 1 PROVE h.steps[k].group = e.group
      <4>1. k \in at + 1 .. Len(h.steps) /\ ~(n <= k)
        BY <1>1, <1>2, <2>3
      <4> QED
        BY <2>2, <4>1
    <3> QED
      BY <3>1, <3>2
  <2> QED
    BY <1>1, <1>2, <2>3, <2>4, <2>5, <2>6 DEF h, e
<1> QED
  BY <1>4, <1>5

-------------------------------------------------------------------------------
(* Types.                                                                  *)

Course ==
    /\ req \in Requests \union {None} /\ at \in Nat
    /\ at # 0 => req \in Requests /\ at \in Scripted(req.handler)
    /\ told \in Seq(Readings)
    /\ req = None => told = <<>>
    /\ req # None => \A i \in DOMAIN told : told[i].step \in Scripted(req.handler)
    /\ at # 0 => \A i \in DOMAIN told : told[i].step < at
    /\ count \in 0 .. MaxRequests
    /\ clean \in BOOLEAN /\ spoiled \in BOOLEAN /\ (~clean => spoiled)

Devices ==
    /\ target \in Boards
    /\ pair \in [Boards -> PairChannels]
    /\ held \in [CellsWritten -> Nat \union {None}]
    /\ \A cell \in CellsWritten :
           held[cell] # None =>
               /\ cell[1] \in {"source_port", "destination_port"} => held[cell] < 65536
               /\ cell[1] \in {"udp_channel", "igmp_channel"} => held[cell] < 256
    /\ late \in [Ports -> Answers \union {None}]

Saved ==
    /\ rows \in [KeyCells -> Numbers \union {RowMax, None}]
    /\ \A row \in channel_list : row[1][3] \in Boards /\ row[1][4] \in ToSet(Inputs)
    /\ asked \in [CellsWritten -> Numbers \union {None}]

LEMMA ToldNumber ==
    ASSUME NEW r \in Requests, NEW i \in 1 .. 3
    PROVE  r.value[i] \in Nat /\ r.value[i] \in Numbers
<1>1. r.value \in Settings /\ r.value \in [1 .. 3 -> Nat]
  BY RequestFields, CompositeAssumption
<1> QED
  BY <1>1 DEF Numbers

LEMMA ChannelType ==
    ASSUME Ordered, NEW r \in Requests, NEW i \in Scripted(r.handler)
    PROVE  ChannelOf(r, r.handler.steps[i]) \in Channels \union ToSet(Inputs)
  BY ScriptFields, RequestFields DEF ChannelOf, Exchanges

LEMMA StoredType ==
    ASSUME NEW v \in Nat, NEW what
    PROVE  /\ Stored(what, v) \in Nat
           /\ what \in {"source_port", "destination_port"} => Stored(what, v) < 65536
           /\ what \in {"udp_channel", "igmp_channel"} => Stored(what, v) < 256
<1> DEFINE port == v % 65536
           number == v % 256
<1>1. port \in Nat /\ port < 65536
  OBVIOUS
<1>2. number \in Nat /\ number < 256
  OBVIOUS
<1>3. Stored(what, v) = IF what \in {"source_port", "destination_port"} THEN port
                        ELSE IF what \in {"udp_channel", "igmp_channel"} THEN number ELSE v
  BY DEF Stored
<1> HIDE DEF port, number
<1> QED
  BY <1>1, <1>2, <1>3

LEMMA DoTypes ==
    ASSUME Ordered, Devices, NEW r \in Requests, NEW i \in Scripted(r.handler),
           Do(r, r.handler.steps[i])
    PROVE  /\ target' \in Boards
           /\ pair' \in [Boards -> PairChannels]
           /\ held' \in [CellsWritten -> Nat \union {None}]
           /\ \A cell \in CellsWritten :
                  held'[cell] # None =>
                      /\ cell[1] \in {"source_port", "destination_port"} => held'[cell] < 65536
                      /\ cell[1] \in {"udp_channel", "igmp_channel"} => held'[cell] < 256
<1> DEFINE e == r.handler.steps[i]
<1>1. target' \in Boards
  BY RequestFields DEF Do, Devices
<1>2. pair' \in [Boards -> PairChannels]
  BY ChannelType DEF Do, Devices, PairChannels
<1>3. CASE e.write /\ Reached(r, e) \in CellsWritten
  <2> DEFINE cell == Reached(r, e)
             v == Stored(e.what, r.value[e.arg])
  <2>1. cell[1] = e.what /\ cell[2] = e.arg
    BY DEF Reached, Cell
  <2>2. r.value[e.arg] \in Nat
    BY <1>3, <2>1, CellFields, ToldNumber
  <2>3. /\ v \in Nat
        /\ e.what \in {"source_port", "destination_port"} => v < 65536
        /\ e.what \in {"udp_channel", "igmp_channel"} => v < 256
    BY <2>2, StoredType
  <2>4. held' = [held EXCEPT ![cell] = v]
    BY <1>3 DEF Do
  <2>5. cell \in CellsWritten
    BY <1>3
  <2> HIDE DEF cell, v, e
  <2> QED
    BY <1>1, <1>2, <2>1, <2>3, <2>4, <2>5 DEF Devices
<1>4. CASE ~(e.write /\ Reached(r, e) \in CellsWritten)
  <2>1. held' = held
    BY <1>4 DEF Do
  <2> QED
    BY <1>1, <1>2, <2>1 DEF Devices
<1> QED
  BY <1>3, <1>4

(* What a core answers.                                                    *)
LEMMA AnswerType ==
    ASSUME Ordered, Devices, NEW r \in Requests, NEW i \in Scripted(r.handler),
           NEW done \in BOOLEAN
    PROVE  Answer(r, r.handler.steps[i], done) \in Answers
<1> DEFINE e == r.handler.steps[i]
           cell == Reached(r, e)
<1>1. e \in Exchanges /\ ReadsInOrder(r.handler)
  BY ScriptFields DEF InOrder
<1>2. /\ e.code \in Nat /\ e.write \in BOOLEAN
      /\ e.what \in Subjects /\ e.arg \in Nat /\ e.scope \in {"fpga", "board", "output", "pair"}
  BY <1>1 DEF Exchanges
<1>3. ASSUME ~e.write PROVE <<cell, Contents(cell)>> \in Values
  <2>1. /\ cell[1] = e.what /\ cell[2] = e.arg /\ (e.scope # "fpga" => cell[3] = target)
        /\ cell \in Subjects \X Nat \X (Boards \union {0}) \X (PairChannels \union {0})
    <3>1. target \in Boards /\ pair[target] \in PairChannels
      BY DEF Devices
    <3>2. ChannelOf(r, e) \in PairChannels
      BY ChannelType DEF PairChannels
    <3> DEFINE b == IF e.scope = "fpga" THEN 0 ELSE target
               c == IF e.scope \in {"pair", "output"}
                    THEN IF e.scope = "pair" THEN pair[target] ELSE ChannelOf(r, e) ELSE 0
    <3>3. cell = <<e.what, e.arg, b, c>>
      BY DEF Reached, Cell
    <3>4. b \in Boards \union {0} /\ c \in PairChannels \union {0}
      BY <3>1, <3>2
    <3>5. e.scope # "fpga" => b = target
      OBVIOUS
    <3> HIDE DEF b, c, e, cell
    <3> QED
      BY <1>2, <3>3, <3>4, <3>5
  <2>2. Contents(cell) \in PairChannels \union Nat
    <3>1. CASE cell[1] = "pair"
      <4>1. cell[3] \in Boards
        <5>1. e.what = "pair"
          BY <2>1, <3>1
        <5>2. e.scope = "board"
          BY <1>1, <1>3, <5>1 DEF ReadsInOrder
        <5> QED
          BY <2>1, <5>2 DEF Devices
      <4> QED
        BY <3>1, <4>1 DEF Contents, Devices
    <3>2. CASE cell[1] # "pair"
      BY <3>2 DEF Contents, Devices, PairChannels
    <3> QED
      BY <3>1, <3>2
  <2> QED
    BY <2>1, <2>2 DEF Values
<1>4. Nothing \in Values
  BY DEF Values
<1>5. (IF e.write THEN Nothing ELSE <<cell, Contents(cell)>>) \in Values
  BY <1>3, <1>4
<1> HIDE DEF e, cell
<1>6. Answer(r, e, done) = [code |-> e.code, write |-> e.write, done |-> done,
                            value |-> IF e.write THEN Nothing ELSE <<cell, Contents(cell)>>]
  BY DEF Answer, cell
<1> QED
  BY <1>2, <1>5, <1>6 DEF Answers, e

(* The handler takes notice of an exchange: what follows for its course.   *)
LEMMA ProceedCourse ==
    ASSUME Ordered, Course, at # 0, NEW accepted \in BOOLEAN, NEW value \in Values,
           Proceed(req, accepted, value)
    PROVE  /\ Course' /\ req' = req /\ UNCHANGED <<count, clean, spoiled>>
           /\ told' = Append(told, [step |-> at, accepted |-> accepted, value |-> value])
           /\ at' = 0 \/ (at' = After(req.handler, accepted) /\ at' > at)
<1> DEFINE h == req.handler
           next == After(h, accepted)
           new == [step |-> at, accepted |-> accepted, value |-> value]
<1>1. req \in Requests /\ at \in Scripted(h) /\ at \in Nat
  BY DEF Course
<1>2. Len(h.steps) \in Nat /\ Scripted(h) = 1 .. Len(h.steps)
  BY <1>1, ScriptFields
<1>3. next = Len(h.steps) + 1 \/ (next \in Scripted(h) /\ next > at)
  BY <1>1, NextStep
<1>4. /\ told' = Append(told, new) /\ req' = req /\ UNCHANGED <<count, clean, spoiled>>
      /\ at' = IF next > Len(h.steps) THEN 0 ELSE next
  BY DEF Proceed
<1> HIDE DEF next
<1>5. at' = 0 \/ (at' = next /\ at' > at /\ at' \in Scripted(h))
  BY <1>2, <1>3, <1>4
<1>6. new \in Readings
  BY <1>1 DEF Readings
<1>7. told \in Seq(Readings)
  BY DEF Course
<1>8. /\ told' \in Seq(Readings)
      /\ DOMAIN told' = 1 .. Len(told) + 1 /\ DOMAIN told = 1 .. Len(told) /\ Len(told) \in Nat
      /\ (\A i \in DOMAIN told : told[i] \in Readings)
      /\ (\A i \in DOMAIN told' : told'[i] \in Readings)
      /\ \A i \in DOMAIN told' : told'[i] = IF i = Len(told) + 1 THEN new ELSE told[i]
  <2> HIDE DEF new
  <2> QED
    BY <1>4, <1>6, <1>7
<1>9. ASSUME NEW i \in DOMAIN told' PROVE told'[i].step \in Scripted(h) /\ told'[i].step <= at
  <2>1. CASE i = Len(told) + 1
    BY <1>1, <1>8, <2>1
  <2>2. CASE i # Len(told) + 1
    <3>1. i \in DOMAIN told /\ told'[i] = told[i] /\ told[i] \in Readings
      BY <1>8, <2>2
    <3>2. told[i].step \in Scripted(h) /\ told[i].step < at
      BY <1>1, <3>1, CompositeAssumption DEF Course
    <3>3. told[i].step \in Nat
      BY <3>1 DEF Readings
    <3> QED
      BY <1>1, <3>1, <3>2, <3>3
  <2> QED
    BY <2>1, <2>2
<1>10. \A i \in DOMAIN told' : told'[i].step \in Nat
  <2>1. \A x \in Readings : x.step \in Nat
    BY DEF Readings
  <2> QED
    BY <1>8, <2>1
<1> HIDE DEF new
<1>11. Course'
  BY <1>1, <1>4, <1>5, <1>8, <1>9, <1>10, CompositeAssumption DEF Course
<1> QED
  BY <1>4, <1>5, <1>11 DEF new, next

LEMMA ProceedSaved ==
    ASSUME Ordered, Course, Saved, at # 0, NEW accepted \in BOOLEAN, NEW value \in Values,
           Proceed(req, accepted, value)
    PROVE  Saved'
<1> DEFINE h == req.handler
           e == h.steps[at]
           cell == Named(req, e)
<1>1. req \in Requests /\ at \in Scripted(h)
  BY DEF Course
<1>2. e \in Exchanges /\ ReadsInOrder(h)
  BY <1>1, ScriptFields DEF InOrder
<1>3. rows' \in [KeyCells -> Numbers \union {RowMax, None}]
  <2>1. CASE UNCHANGED rows
    BY <2>1 DEF Saved
  <2>2. CASE \E v \in Kept(cell, req.value[e.arg]) : rows' = [rows EXCEPT ![cell] = v]
    <3>1. PICK v \in Kept(cell, req.value[e.arg]) : rows' = [rows EXCEPT ![cell] = v]
      BY <2>2
    <3>2. CASE cell \in KeyCells
      <4>1. cell \in CellsWritten /\ cell[2] = e.arg
        BY <3>2 DEF KeyCells, Named, Cell
      <4>2. req.value[e.arg] \in Numbers
        BY <1>1, <4>1, CellFields, ToldNumber
      <4>3. v \in Numbers \union {RowMax, None}
        BY <3>1, <3>2, <4>2 DEF Kept, Saved
      <4> QED
        BY <3>1, <4>3 DEF Saved
    <3>3. CASE cell \notin KeyCells
      BY <3>1, <3>3 DEF Saved
    <3> QED
      BY <3>2, <3>3
  <2> QED
    BY <2>1, <2>2 DEF Proceed, SaveRow, Step
<1>4. \A row \in channel_list' : row[1][3] \in Boards /\ row[1][4] \in ToSet(Inputs)
  <2>1. CASE accepted /\ e.what = "programs"
    <3>1. e.scope = "pair" /\ e.group # 0 /\ e.group \in ToSet(Inputs)
      BY <1>1, <1>2, <2>1 DEF ReadsInOrder, Exchanges
    <3>2. cell[3] = req.board /\ cell[4] = e.group
      BY <3>1 DEF Named, Cell, ChannelOf
    <3>3. channel_list' = channel_list \union {<<cell, value>>}
      BY <2>1 DEF Proceed, SaveList, Step
    <3> HIDE DEF cell, e
    <3> QED
      BY <1>1, <3>1, <3>2, <3>3, RequestFields DEF Saved
  <2>2. CASE ~(accepted /\ e.what = "programs")
    BY <2>2 DEF Proceed, SaveList, Step, Saved
  <2> QED
    BY <2>1, <2>2
<1>5. asked' \in [CellsWritten -> Numbers \union {None}]
  <2>1. \A c \in CellsWritten : req.value[c[2]] \in Numbers
    BY <1>1, CellFields, ToldNumber
  <2> QED
    BY <2>1 DEF Proceed, Saved
<1> QED
  BY <1>3, <1>4, <1>5 DEF Saved

(* The three ways an exchange ends.                                        *)
LEMMA AcceptsType ==
    ASSUME NEW e, NEW d \in Answers PROVE Accepts(e, d) \in BOOLEAN
<1>1. d.done \in BOOLEAN
  BY DEF Answers
<1>2. CASE e.checks = "code"
  BY <1>1, <1>2, Zenon DEF Accepts
<1>3. CASE e.checks = "status"
  BY <1>1, <1>3 DEF Accepts
<1>4. CASE e.checks \notin {"code", "status"}
  BY <1>4 DEF Accepts
<1> QED
  BY <1>2, <1>3, <1>4

LEMMA Received ==
    ASSUME Ordered, Course, at # 0, NEW d \in Answers, Receive(req, d)
    PROVE  LET e == req.handler.steps[at]
           IN  \E accepted \in BOOLEAN, value \in Values :
                  /\ accepted = Accepts(e, d)
                  /\ value = IF accepted THEN d.value ELSE Nothing
                  /\ Proceed(req, accepted, value)
<1> DEFINE accepted == Accepts(req.handler.steps[at], d)
           value == IF accepted THEN d.value ELSE Nothing
<1>1. accepted \in BOOLEAN
  BY AcceptsType
<1>2. value \in Values
  BY DEF Answers, Values
<1>3. Proceed(req, accepted, value)
  BY DEF Receive, Step
<1> HIDE DEF accepted
<1>4. accepted = Accepts(req.handler.steps[at], d)
  BY DEF accepted
<1> QED
  BY <1>1, <1>2, <1>3, <1>4

(* The devices and the answers under way after an exchange.                *)
LEMMA DeviceTypes ==
    ASSUME Ordered, Course, Devices, at # 0, NEW done \in BOOLEAN,
           Do(req, req.handler.steps[at]) \/ UNCHANGED device,
           \/ late' = late
           \/ \E x \in {None, Answer(req, req.handler.steps[at], done)} :
                 late' = [late EXCEPT ![req.handler.steps[at].port] = x]
    PROVE  Devices'
<1> DEFINE e == req.handler.steps[at]
<1>1. req \in Requests /\ at \in Scripted(req.handler)
  BY DEF Course
<1>2. Answer(req, e, done) \in Answers
  BY <1>1, AnswerType
<1>3. late' \in [Ports -> Answers \union {None}]
  <2> HIDE DEF e
  <2> QED
    BY <1>2 DEF Devices, e
<1>4. CASE Do(req, e)
  BY <1>1, <1>3, <1>4, DoTypes DEF Devices
<1>5. CASE UNCHANGED device
  BY <1>3, <1>5 DEF Devices, device
<1> QED
  BY <1>4, <1>5

LEMMA InTimeCases ==
    ASSUME Ordered, Course, Devices, at # 0, InTime(req)
    PROVE  LET e == req.handler.steps[at]
           IN  \E done \in BOOLEAN, accepted \in BOOLEAN, value \in Values :
                  /\ IF done THEN Do(req, e) ELSE UNCHANGED device /\ CanRefuse(e)
                  /\ unseen' = (unseen \/ (~done /\ ~Looks(e)))
                  /\ late' \in {late, [late EXCEPT ![e.port] = None]}
                  /\ accepted = Accepts(e, Answer(req, e, done))
                  /\ value = IF accepted THEN Answer(req, e, done).value ELSE Nothing
                  /\ Proceed(req, accepted, value)
<1> DEFINE e == req.handler.steps[at]
<1>1. PICK done \in Outcomes(e) :
         /\ Handle(req, e, done)
         /\ late' \in {late, [late EXCEPT ![e.port] = None]}
         /\ Receive(req, Answer(req, e, done))
  BY DEF InTime, Step
<1>2. done \in BOOLEAN /\ (~done => CanRefuse(e))
  BY DEF Outcomes
<1>3. Answer(req, e, done) \in Answers
  BY <1>2, AnswerType DEF Course
<1>4. PICK accepted \in BOOLEAN, value \in Values :
         /\ accepted = Accepts(e, Answer(req, e, done))
         /\ value = IF accepted THEN Answer(req, e, done).value ELSE Nothing
         /\ Proceed(req, accepted, value)
  BY <1>1, <1>3, Received
<1>5. /\ IF done THEN Do(req, e) ELSE UNCHANGED device /\ CanRefuse(e)
      /\ unseen' = (unseen \/ (~done /\ ~Looks(e)))
  BY <1>1, <1>2, Zenon DEF Handle
<1> HIDE DEF e
<1> QED
  BY <1>1, <1>2, <1>4, <1>5 DEF e

(* An exchange that reached the core, or did not.                          *)
LEMMA Outcome ==
    ASSUME NEW e, NEW done \in Outcomes(e), Handle(req, e, done)
    PROVE  done \in BOOLEAN /\ IF done THEN Do(req, e) ELSE UNCHANGED device /\ CanRefuse(e)
<1>1. done \in BOOLEAN /\ (~done => CanRefuse(e))
  BY DEF Outcomes
<1> QED
  BY <1>1, Zenon DEF Handle

LEMMA FromBeforeCases ==
    ASSUME Ordered, Course, Devices, at # 0, FromBefore(req)
    PROVE  LET e == req.handler.steps[at]
           IN  \E done \in BOOLEAN, accepted \in BOOLEAN, value \in Values :
                  /\ late[e.port] # None
                  /\ \/ UNCHANGED device /\ late' = [late EXCEPT ![e.port] = None]
                     \/ /\ IF done THEN Do(req, e) ELSE UNCHANGED device /\ CanRefuse(e)
                        /\ late' \in {[late EXCEPT ![e.port] = Answer(req, e, done)],
                                      [late EXCEPT ![e.port] = None]}
                  /\ accepted = Accepts(e, late[e.port])
                  /\ Proceed(req, accepted, value)
<1> DEFINE e == req.handler.steps[at]
<1>1. /\ late[e.port] # None
      /\ \/ UNCHANGED device /\ late' = [late EXCEPT ![e.port] = None]
         \/ \E done \in Outcomes(e) :
               /\ Handle(req, e, done)
               /\ late' \in {[late EXCEPT ![e.port] = Answer(req, e, done)],
                             [late EXCEPT ![e.port] = None]}
      /\ Receive(req, late[e.port])
  BY DEF FromBefore, Step, device
<1>2. late[e.port] \in Answers
  <2>1. e.port \in Ports
    BY ScriptFields DEF Course, Exchanges
  <2> HIDE DEF e
  <2> QED
    BY <1>1, <2>1 DEF Devices
<1>3. PICK accepted \in BOOLEAN, value \in Values :
         accepted = Accepts(e, late[e.port]) /\ Proceed(req, accepted, value)
  BY <1>1, <1>2, Received
<1> HIDE DEF e
<1>4. CASE UNCHANGED device /\ late' = [late EXCEPT ![e.port] = None]
  BY <1>1, <1>3, <1>4 DEF e
<1>5. ASSUME NEW done \in Outcomes(e), Handle(req, e, done),
             late' \in {[late EXCEPT ![e.port] = Answer(req, e, done)],
                       [late EXCEPT ![e.port] = None]}
      PROVE  \E d \in BOOLEAN :
                /\ IF d THEN Do(req, e) ELSE UNCHANGED device /\ CanRefuse(e)
                /\ late' \in {[late EXCEPT ![e.port] = Answer(req, e, d)],
                              [late EXCEPT ![e.port] = None]}
  BY <1>5, Outcome
<1> QED
  BY <1>1, <1>3, <1>4, <1>5 DEF e

LEMMA TimesOutCases ==
    ASSUME TimesOut(req)
    PROVE  LET e == req.handler.steps[at]
           IN  \E done \in BOOLEAN :
                  /\ \/ UNCHANGED <<device, late>>
                     \/ /\ IF done THEN Do(req, e) ELSE UNCHANGED device /\ CanRefuse(e)
                        /\ late' \in {late, [late EXCEPT ![e.port] = Answer(req, e, done)]}
                  /\ Proceed(req, FALSE, Nothing)
<1> DEFINE e == req.handler.steps[at]
<1>1. /\ Proceed(req, FALSE, Nothing)
      /\ \/ UNCHANGED <<device, late>>
         \/ \E done \in Outcomes(e) :
               /\ Handle(req, e, done)
               /\ late' \in {late, [late EXCEPT ![e.port] = Answer(req, e, done)]}
  BY DEF TimesOut, Step, device
<1> HIDE DEF e
<1>2. ASSUME NEW done \in Outcomes(e), Handle(req, e, done),
             late' \in {late, [late EXCEPT ![e.port] = Answer(req, e, done)]}
      PROVE  \E d \in BOOLEAN :
                /\ IF d THEN Do(req, e) ELSE UNCHANGED device /\ CanRefuse(e)
                /\ late' \in {late, [late EXCEPT ![e.port] = Answer(req, e, d)]}
  BY <1>2, Outcome
<1> QED
  BY <1>1, <1>2 DEF e

(* The ghost of a refusal that was not looked at.                          *)
LEMMA UnseenStep ==
    ASSUME unseen \in BOOLEAN, [Next]_vars PROVE unseen' \in BOOLEAN
<1>1. \A r, e, done : Handle(r, e, done) => unseen' \in BOOLEAN
  BY Zenon DEF Handle
<1>2. CASE Exchanging
  <2>1. (\E e, done : Handle(req, e, done)) \/ unseen' = unseen
    BY <1>2, Zenon DEF Exchanging, InTime, FromBefore, TimesOut
  <2> QED
    BY <1>1, <2>1
<1>3. ASSUME NEW r \in Requests, Begin(r) PROVE unseen' \in BOOLEAN
  BY <1>3, Zenon DEF Begin
<1>4. CASE UNCHANGED vars
  BY <1>4, Zenon DEF vars
<1>5. CASE Done
  BY <1>4, <1>5 DEF Done
<1> QED
  BY <1>2, <1>3, <1>4, <1>5, Zenon DEF Next

LEMMA TypesStep ==
    ASSUME Ordered, Course, Devices, Saved, [Next]_vars
    PROVE  Course' /\ Devices' /\ Saved'
<1>1. ASSUME NEW r \in Requests, Begin(r) PROVE Course' /\ Devices' /\ Saved'
  <2>1. 1 \in Scripted(r.handler)
    BY ScriptFields
  <2>2. clean' \in BOOLEAN /\ spoiled' \in BOOLEAN /\ (~clean' => spoiled')
    BY <1>1, Zenon DEF Begin, Course
  <2>3. Course'
    BY <1>1, <2>1, <2>2, CompositeAssumption DEF Begin, Course
  <2>4. asked' \in [CellsWritten -> Numbers \union {None}]
    BY <1>1 DEF Begin, Saved
  <2> QED
    BY <1>1, <2>3, <2>4 DEF Begin, Devices, Saved, device
<1>2. ASSUME NEW accepted \in BOOLEAN, NEW value \in Values, at # 0,
             Proceed(req, accepted, value), Devices'
      PROVE  Course' /\ Devices' /\ Saved'
  BY <1>2, ProceedCourse, ProceedSaved
<1>3. CASE at # 0 /\ InTime(req)
  <2>1. Devices'
    BY <1>3, InTimeCases, DeviceTypes
  <2> QED
    BY <1>2, <1>3, <2>1, InTimeCases
<1>4. CASE at # 0 /\ FromBefore(req)
  <2>1. Devices'
    BY <1>4, FromBeforeCases, DeviceTypes
  <2> QED
    BY <1>2, <1>4, <2>1, FromBeforeCases
<1>5. CASE at # 0 /\ TimesOut(req)
  <2>1. Devices'
    BY <1>5, TimesOutCases, DeviceTypes
  <2>2. Nothing \in Values
    BY DEF Values
  <2> QED
    BY <1>2, <1>5, <2>1, <2>2, TimesOutCases
<1>6. CASE UNCHANGED vars
  BY <1>6 DEF vars, device, Course, Devices, Saved
<1>7. CASE Done
  BY <1>6, <1>7 DEF Done
<1> QED
  BY <1>1, <1>3, <1>4, <1>5, <1>6, <1>7 DEF Next, Exchanging

LEMMA TypesInit == ASSUME Init PROVE Course /\ Devices /\ Saved
<1>1. Course
  <2>1. clean \in BOOLEAN /\ spoiled \in BOOLEAN /\ clean
    BY Zenon DEF Init
  <2> QED
    BY <2>1, CompositeAssumption DEF Init, Course
<1>2. Devices
  BY DEF Init, Devices, PairChannels
<1>3. Saved
  BY DEF Init, Saved
<1> QED
  BY <1>1, <1>2, <1>3

(* Every variable has its type, and no register ever holds more than its   *)
(* width: numbers are cut as the cores cut them.  For any scripts in order,*)
(* any boards, channels and settings.                                      *)
THEOREM TypeCorrect == ASSUME Ordered PROVE Spec => []TypeOK
<1> DEFINE Unseen == unseen \in BOOLEAN
<1>1. Init => Course /\ Devices /\ Saved /\ Unseen
  BY TypesInit, Zenon DEF Init
<1>2. Course /\ Devices /\ Saved /\ Unseen /\ [Next]_vars
         => Course' /\ Devices' /\ Saved' /\ Unseen'
  BY TypesStep, UnseenStep, Zenon
<1>3. Course /\ Devices /\ Saved /\ Unseen => TypeOK
  <2> SUFFICES ASSUME Course, Devices, Saved, Unseen PROVE TypeOK
    OBVIOUS
  <2>1. at \in 0 .. IF req = None THEN 0 ELSE Len(req.handler.steps)
    <3>1. CASE at = 0
      <4>1. req # None => Len(req.handler.steps) \in Nat
        BY ScriptFields DEF Course
      <4> QED
        BY <3>1, <4>1
    <3>2. CASE at # 0
      BY <3>2, ScriptFields, CompositeAssumption DEF Course
    <3> QED
      BY <3>1, <3>2
  <2>2. \A i \in DOMAIN told : told[i].step \in Scripted(req.handler)
                               /\ told[i].accepted \in BOOLEAN
    <3>1. ASSUME NEW i \in DOMAIN told PROVE told[i] \in Readings
      BY DEF Course
    <3>2. ASSUME NEW x \in Readings PROVE x.accepted \in BOOLEAN
      BY Zenon DEF Readings
    <3>3. told = <<>> => DOMAIN told = {}
      OBVIOUS
    <3> QED
      BY <3>1, <3>2, <3>3 DEF Course
  <2>3. clean \in BOOLEAN /\ spoiled \in BOOLEAN /\ unseen \in BOOLEAN
    BY Zenon DEF Course
  <2> HIDE DEF Unseen
  <2> QED
    BY <2>1, <2>2, <2>3 DEF TypeOK, Course, Devices, Saved, PairChannels
<1> HIDE DEF Unseen
<1> QED
  BY <1>1, <1>2, <1>3, PTL DEF Spec

-------------------------------------------------------------------------------
(* Setters.                                                                *)

AllAccepted == \A i \in DOMAIN told : told[i].accepted
StepAt(j) == req.handler.steps[j]

(* What write j of the request was to achieve.                             *)
Written(j) ==
    LET e == StepAt(j)
        cell == Named(req, e)
    IN  /\ held[cell] = Stored(e.what, req.value[e.arg])
        /\ cell \in KeyCells /\ req.value[e.arg] <= RowMax => rows[cell] = req.value[e.arg]

(* As long as all was accepted no answer is late; a setter goes on only    *)
(* then, has its board, and has written what it is past, unless the core   *)
(* refused it and the handler did not look.                                *)
Progress ==
    /\ clean /\ AllAccepted => \A p \in Ports : late[p] = None
    /\ AllStop(req.handler) => AllAccepted
    /\ \A j \in PartsWritten(req.handler) : asked[Named(req, StepAt(j))] = None
    /\ clean /\ PartsWritten(req.handler) # {} =>
          /\ \A j \in 1 .. at - 1 : Puts(req.handler, j, "target") => target = req.board
          /\ ~unseen => \A j \in PartsWritten(req.handler) : j < at => Written(j)

LEMMA AcceptedNext ==
    ASSUME Course, at # 0, NEW accepted \in BOOLEAN, NEW value \in Values,
           told' = Append(told, [step |-> at, accepted |-> accepted, value |-> value])
    PROVE  /\ AllAccepted' <=> AllAccepted /\ accepted
           /\ DOMAIN told' = DOMAIN told \union {Len(told) + 1} /\ Len(told) \in Nat
           /\ DOMAIN told = 1 .. Len(told)
           /\ told'[Len(told) + 1] = [step |-> at, accepted |-> accepted, value |-> value]
           /\ \A i \in DOMAIN told : told'[i] = told[i]
<1> DEFINE new == [step |-> at, accepted |-> accepted, value |-> value]
<1>1. new \in Readings
  BY DEF Course, Readings
<1>2. told \in Seq(Readings) /\ told' = Append(told, new) /\ new.accepted = accepted
  BY DEF Course
<1> HIDE DEF new
<1>3. /\ DOMAIN told' = DOMAIN told \union {Len(told) + 1} /\ Len(told) \in Nat
      /\ DOMAIN told = 1 .. Len(told)
      /\ told'[Len(told) + 1] = new
      /\ \A i \in DOMAIN told : told'[i] = told[i]
  BY <1>1, <1>2
<1>4. AllAccepted' <=> AllAccepted /\ accepted
  BY <1>2, <1>3 DEF AllAccepted
<1> QED
  BY <1>3, <1>4 DEF new

(* What a core refuses is not accepted where the handler looks.            *)
LEMMA AcceptedDone ==
    ASSUME NEW r, NEW e, Looks(e) PROVE ~Accepts(e, Answer(r, e, FALSE))
<1>1. e.checks \in {"code", "status"}
  BY DEF Looks
<1>2. ~Answer(r, e, FALSE).done
  BY DEF Answer
<1>3. CASE e.checks = "code"
  BY <1>2, <1>3 DEF Accepts
<1>4. CASE e.checks = "status"
  BY <1>2, <1>4 DEF Accepts
<1> QED
  BY <1>1, <1>3, <1>4

(* What an answer shows does not depend on whether a write was done.       *)
LEMMA SameValue ==
    ASSUME NEW r, NEW e, NEW done
    PROVE  /\ Answer(r, e, done).value = Answer(r, e, TRUE).value
           /\ Answer(r, e, done).code = e.code
  BY DEF Answer

(* Where no answer is late on its port, what the handler accepts was done, *)
(* or refused and not looked at.                                           *)
LEMMA Genuine ==
    ASSUME Ordered, Course, Devices, at # 0, Exchanging, late[StepAt(at).port] = None
    PROVE  \E accepted \in BOOLEAN, value \in Values :
              /\ Proceed(req, accepted, value)
              /\ Do(req, StepAt(at)) \/ UNCHANGED device
              /\ accepted =>
                    /\ \/ Do(req, StepAt(at))
                       \/ unseen' /\ CanRefuse(StepAt(at)) /\ ~Looks(StepAt(at))
                    /\ unseen => unseen'
                    /\ late' \in {late, [late EXCEPT ![StepAt(at).port] = None]}
                    /\ value = Answer(req, StepAt(at), TRUE).value
<1> DEFINE e == StepAt(at)
<1>1. CASE InTime(req)
  <2>1. PICK done \in BOOLEAN, accepted \in BOOLEAN, value \in Values :
           /\ IF done THEN Do(req, e) ELSE UNCHANGED device /\ CanRefuse(e)
           /\ unseen' = (unseen \/ (~done /\ ~Looks(e)))
           /\ late' \in {late, [late EXCEPT ![e.port] = None]}
           /\ accepted = Accepts(e, Answer(req, e, done))
           /\ value = IF accepted THEN Answer(req, e, done).value ELSE Nothing
           /\ Proceed(req, accepted, value)
    BY <1>1, InTimeCases DEF StepAt
  <2>2. Looks(e) /\ ~done => ~accepted
    BY <2>1, AcceptedDone
  <2>3. Answer(req, e, done).value = Answer(req, e, TRUE).value
    BY SameValue
  <2>4. /\ unseen => unseen'
        /\ ~done /\ ~Looks(e) => unseen'
    BY <2>1, Zenon
  <2> HIDE DEF e
  <2>5. Do(req, e) \/ UNCHANGED device
    BY <2>1
  <2>6. accepted => Do(req, e) \/ (unseen' /\ CanRefuse(e) /\ ~Looks(e))
    BY <2>1, <2>2, <2>4, Zenon
  <2>7. accepted => value = Answer(req, e, TRUE).value
    BY <2>1, <2>3
  <2> QED
    BY <2>1, <2>4, <2>5, <2>6, <2>7, Zenon DEF e
<1>2. CASE TimesOut(req)
  <2>1. Nothing \in Values
    BY DEF Values
  <2> QED
    BY <1>2, <2>1, TimesOutCases DEF StepAt, device
<1>3. ~FromBefore(req)
  BY DEF FromBefore, Step, StepAt
<1> QED
  BY <1>1, <1>2, <1>3 DEF Exchanging

(* Any exchange, as far as late answers do not matter.                     *)
LEMMA AnyExchange ==
    ASSUME Ordered, Course, Devices, at # 0, Exchanging
    PROVE  \E accepted \in BOOLEAN, value \in Values :
              /\ Proceed(req, accepted, value)
              /\ Do(req, StepAt(at)) \/ UNCHANGED device
<1>1. CASE InTime(req)
  BY <1>1, InTimeCases DEF StepAt
<1>2. CASE FromBefore(req)
  BY <1>2, FromBeforeCases DEF StepAt
<1>3. CASE TimesOut(req)
  <2>1. Nothing \in Values
    BY DEF Values
  <2> QED
    BY <1>3, <2>1, TimesOutCases DEF StepAt, device
<1> QED
  BY <1>1, <1>2, <1>3 DEF Exchanging

(* A setter whose parts so far were done writes where it is meant to.      *)
LEMMA ReachesNamed ==
    ASSUME Ordered, Course, Progress, at # 0, clean, at \in PartsWritten(req.handler)
    PROVE  /\ Reached(req, StepAt(at)) = Named(req, StepAt(at))
           /\ Named(req, StepAt(at)) \in CellsWritten
<1> DEFINE h == req.handler
           e == StepAt(at)
<1>1. req \in Requests /\ at \in Scripted(h) /\ at \in Nat
  BY DEF Course
<1>2. SetsInOrder(h) /\ SelectsInOrder(h)
  BY <1>1, ScriptFields DEF InOrder
<1>3. e.scope \in {"fpga", "output"} /\ (e.scope = "output" => Selects(h))
  BY <1>2 DEF SetsInOrder, StepAt
<1>4. Named(req, e) \in CellsWritten
  BY <1>1 DEF CellsWritten, StepAt
<1>5. e.scope = "output" => target = req.board
  <2> SUFFICES ASSUME e.scope = "output" PROVE target = req.board
    OBVIOUS
  <2>1. PICK k \in 1 .. at - 1 : Puts(h, k, "target")
    BY <1>1, <1>2, <1>3 DEF SelectsInOrder, StepAt
  <2> QED
    BY <2>1 DEF Progress
<1> HIDE DEF e
<1>6. CASE e.scope = "fpga"
  <2>1. /\ Reached(req, e) = <<e.what, e.arg, 0, 0>>
        /\ Named(req, e) = <<e.what, e.arg, 0, 0>>
    BY <1>6 DEF Reached, Named, Cell
  <2> QED
    BY <1>4, <2>1 DEF e
<1>7. CASE e.scope = "output"
  <2>1. /\ Reached(req, e) = <<e.what, e.arg, target, ChannelOf(req, e)>>
        /\ Named(req, e) = <<e.what, e.arg, req.board, ChannelOf(req, e)>>
    BY <1>7 DEF Reached, Named, Cell
  <2> QED
    BY <1>4, <1>5, <1>7, <2>1 DEF e
<1> QED
  BY <1>3, <1>6, <1>7

(* An exchange leaves alone what it is not to write.                       *)
LEMMA OtherCells ==
    ASSUME Ordered, Course, Devices, Saved, Progress, at # 0,
           clean \/ PartsWritten(req.handler) = {},
           NEW accepted \in BOOLEAN, NEW value \in Values, Proceed(req, accepted, value),
           Do(req, StepAt(at)) \/ UNCHANGED device,
           NEW cell \in CellsWritten,
           at \in PartsWritten(req.handler) => cell # Named(req, StepAt(at))
    PROVE  held'[cell] = held[cell] /\ (cell \in KeyCells => rows'[cell] = rows[cell])
<1> DEFINE e == StepAt(at)
           here == Reached(req, e)
           meant == Named(req, e)
<1>1. at \in Scripted(req.handler)
  BY DEF Course
<1>2. cell[1] \notin {"target", "pair"}
  BY CellFields
<1>3. here[1] = e.what /\ meant[1] = e.what
  BY DEF Reached, Named, Cell
<1>4. e.write /\ e.what \notin {"target", "pair"} => at \in PartsWritten(req.handler)
  BY <1>1 DEF PartsWritten, StepAt
<1>5. e.write => here # cell /\ meant # cell
  <2> SUFFICES ASSUME e.write, here = cell \/ meant = cell PROVE FALSE
    OBVIOUS
  <2>1. at \in PartsWritten(req.handler)
    BY <1>2, <1>3, <1>4
  <2>2. clean /\ here = meant
    BY <2>1, ReachesNamed
  <2> QED
    BY <2>1, <2>2
<1>6. held'[cell] = held[cell]
  <2>1. CASE UNCHANGED device
    BY <2>1 DEF device
  <2>2. CASE Do(req, e)
    <3>1. held' = IF e.write /\ here \in CellsWritten
                  THEN [held EXCEPT ![here] = Stored(e.what, req.value[e.arg])] ELSE held
      BY <2>2 DEF Do
    <3> HIDE DEF here, e
    <3> QED
      BY <1>5, <3>1 DEF Devices
  <2> QED
    BY <2>1, <2>2
<1>7. cell \in KeyCells => rows'[cell] = rows[cell]
  <2>1. UNCHANGED rows \/ (e.write /\ \E v : rows' = [rows EXCEPT ![meant] = v])
    BY DEF Proceed, SaveRow, Step, StepAt
  <2> HIDE DEF meant, e
  <2> QED
    BY <1>5, <2>1 DEF Saved
<1> QED
  BY <1>6, <1>7

(* What a write does, when it was accepted.                                *)
LEMMA PartWritten ==
    ASSUME Ordered, Course, Devices, Saved, Progress, at # 0, clean,
           at \in PartsWritten(req.handler),
           NEW value \in Values, Proceed(req, TRUE, value), Do(req, StepAt(at)),
           NEW k, k = at
    PROVE  Written(k)'
<1> DEFINE e == StepAt(at)
           cell == Named(req, e)
           v == req.value[e.arg]
<1>1. Reached(req, e) = cell /\ cell \in CellsWritten
  BY ReachesNamed
<1>2. e.write
  BY DEF PartsWritten, StepAt
<1>3. held' = [held EXCEPT ![cell] = Stored(e.what, v)]
  BY <1>1, <1>2 DEF Do
<1>4. held'[cell] = Stored(e.what, v)
  <2> HIDE DEF cell
  <2> QED
    BY <1>1, <1>3 DEF Devices
<1>5. cell \in KeyCells /\ v <= RowMax => rows'[cell] = v
  <2> SUFFICES ASSUME cell \in KeyCells, v <= RowMax PROVE rows'[cell] = v
    OBVIOUS
  <2>1. e.scope # "fpga"
    BY DEF KeyCells, Named, Cell
  <2>2. e.scope = "output"
    <3>1. SetsInOrder(req.handler)
      BY ScriptFields DEF Course, InOrder
    <3> QED
      BY <2>1, <3>1 DEF SetsInOrder, StepAt
  <2>3. PICK w \in Kept(cell, v) : rows' = [rows EXCEPT ![cell] = w]
    BY <1>2, <2>2 DEF Proceed, SaveRow, Step, StepAt
  <2>4. w = v
    BY <2>3 DEF Kept
  <2> HIDE DEF cell, v
  <2> QED
    BY <2>3, <2>4 DEF Saved
<1>6. req' = req
  BY DEF Proceed
<1>7. \A j : Written(j)' <=>
         LET f == StepAt(j)
             c == Named(req, f)
         IN  /\ held'[c] = Stored(f.what, req.value[f.arg])
             /\ c \in KeyCells /\ req.value[f.arg] <= RowMax => rows'[c] = req.value[f.arg]
  BY <1>6 DEF Written, StepAt
<1> QED
  BY <1>4, <1>5, <1>7

(* AsTold stays, where cells change only as they are to.                   *)
LEMMA AsToldNext ==
    ASSUME AsTold, ~spoiled' => ~spoiled,
           ~spoiled' =>
              \A cell \in CellsWritten : asked'[cell] # None =>
                  \/ /\ asked'[cell] = asked[cell] /\ held'[cell] = held[cell]
                     /\ cell \in KeyCells => rows'[cell] = rows[cell]
                  \/ /\ held'[cell] = Stored(cell[1], asked'[cell])
                     /\ cell \in KeyCells /\ asked'[cell] <= RowMax => rows'[cell] = asked'[cell]
    PROVE  AsTold'
<1>1. ASSUME ~spoiled', NEW cell \in CellsWritten, asked'[cell] # None
      PROVE  /\ Stored(cell[1], asked'[cell]) = asked'[cell] => held'[cell] = asked'[cell]
             /\ cell \in KeyCells /\ asked'[cell] <= RowMax => rows'[cell] = asked'[cell]
  <2>1. CASE /\ asked'[cell] = asked[cell] /\ held'[cell] = held[cell]
             /\ cell \in KeyCells => rows'[cell] = rows[cell]
    <3>1. ~spoiled
      BY <1>1, Zenon
    <3>2. /\ Stored(cell[1], asked[cell]) = asked[cell] => held[cell] = asked[cell]
          /\ cell \in KeyCells /\ asked[cell] <= RowMax => rows[cell] = asked[cell]
      BY <1>1, <2>1, <3>1, Zenon DEF AsTold
    <3> QED
      BY <2>1, <3>2
  <2>2. CASE /\ held'[cell] = Stored(cell[1], asked'[cell])
             /\ cell \in KeyCells /\ asked'[cell] <= RowMax => rows'[cell] = asked'[cell]
    BY <2>2
  <2> QED
    BY <1>1, <2>1, <2>2
<1> QED
  BY <1>1, Zenon DEF AsTold

(* Every exchange keeps AsTold and Progress.                               *)
LEMMA ExchangeAsTold ==
    ASSUME Ordered, Course, Devices, Saved, AsTold, Progress, at # 0, Exchanging
    PROVE  AsTold' /\ (at' # 0 => Progress')
<1> DEFINE h == req.handler
           e == StepAt(at)
           parts == PartsWritten(h)
<1>1. /\ req \in Requests /\ at \in Scripted(h) /\ at \in Nat
      /\ SetsInOrder(h) /\ h.steps[at] \in Exchanges
  BY ScriptFields DEF Course, InOrder
<1>2. \A j \in parts : Named(req, StepAt(j)) \in CellsWritten
  BY <1>1 DEF CellsWritten, StepAt
<1>3. parts \subseteq Scripted(h)
  BY DEF PartsWritten
<1>4. ASSUME NEW accepted \in BOOLEAN, NEW value \in Values, Proceed(req, accepted, value)
      PROVE  /\ req' = req /\ UNCHANGED <<clean, spoiled>>
             /\ at' = 0 \/ at' = After(h, accepted)
             /\ ~accepted /\ AllStop(h) => at' = 0
             /\ AllAccepted' <=> AllAccepted /\ accepted
             /\ at' # 0 \/ unseen' => asked' = asked
             /\ (\A j \in parts : asked[Named(req, StepAt(j))] = None)
                   => (at' # 0 => \A j \in PartsWritten(req'.handler) :
                                    asked'[Named(req', req'.handler.steps[j])] = None)
  <2>1. /\ req' = req /\ UNCHANGED <<clean, spoiled>>
        /\ at' = 0 \/ (at' = After(h, accepted) /\ at' > at)
        /\ told' = Append(told, [step |-> at, accepted |-> accepted, value |-> value])
    BY <1>4, ProceedCourse
  <2>2. AllAccepted' <=> AllAccepted /\ accepted
    BY <2>1, AcceptedNext
  <2>3. ~accepted /\ AllStop(h) => at' = 0
    <3> SUFFICES ASSUME ~accepted, AllStop(h) PROVE at' = 0
      OBVIOUS
    <3>1. h.steps[at].fails = "stop"
      BY <1>1 DEF AllStop
    <3>2. After(h, accepted) = Len(h.steps) + 1
      BY <1>1, <3>1, NextStep
    <3>3. at' = IF After(h, accepted) > Len(h.steps) THEN 0 ELSE After(h, accepted)
      BY <1>4 DEF Proceed
    <3>4. Len(h.steps) \in Nat
      BY <1>1, ScriptFields
    <3> QED
      BY <3>2, <3>3, <3>4
  <2>4. at' # 0 \/ unseen' => asked' = asked
    BY <1>4 DEF Proceed
  <2> QED
    BY <2>1, <2>2, <2>3, <2>4 DEF StepAt
<1>5. clean /\ AllAccepted' => \A p \in Ports : late'[p] = None
  <2> SUFFICES ASSUME clean, AllAccepted' PROVE \A p \in Ports : late'[p] = None
    OBVIOUS
  <2>1. AllAccepted
    BY <1>4, AnyExchange
  <2>2. \A p \in Ports : late[p] = None
    BY <2>1 DEF Progress
  <2>3. e.port \in Ports
    BY <1>1 DEF Exchanges, StepAt
  <2>4. PICK accepted \in BOOLEAN, value \in Values :
           /\ Proceed(req, accepted, value)
           /\ accepted => late' \in {late, [late EXCEPT ![e.port] = None]}
    BY <2>2, <2>3, Genuine
  <2>5. accepted
    BY <1>4, <2>4
  <2>6. late' \in {late, [late EXCEPT ![e.port] = None]}
    BY <2>4, <2>5
  <2> HIDE DEF e
  <2> QED
    BY <2>2, <2>6 DEF Devices
<1>6. spoiled' = spoiled /\ clean' = clean /\ req' = req
  BY <1>4, AnyExchange
<1>7. at' # 0 /\ AllStop(h) => AllAccepted'
  BY <1>4, AnyExchange DEF Progress
<1>8. at' # 0 => \A j \in parts : asked'[Named(req, StepAt(j))] = None
  BY <1>4, <1>6, AnyExchange DEF Progress, StepAt
<1>9. at' # 0 =>
        /\ ~clean \/ parts = {} => Progress'
        /\ /\ \A j \in 1 .. at' - 1 : Puts(h, j, "target") => target' = req.board
           /\ ~unseen' => \A j \in parts : j < at' => Written(j)'
           => Progress'
  BY <1>5, <1>6, <1>7, <1>8 DEF Progress, StepAt
<1>10. CASE parts = {}
  <2>1. PICK accepted \in BOOLEAN, value \in Values :
           Proceed(req, accepted, value) /\ (Do(req, e) \/ UNCHANGED device)
    BY AnyExchange
  <2>2. \A cell \in CellsWritten : held'[cell] = held[cell]
                                   /\ (cell \in KeyCells => rows'[cell] = rows[cell])
    BY <1>10, <2>1, OtherCells
  <2>3. \A cell \in CellsWritten : asked'[cell] = asked[cell]
    BY <1>10, <2>1 DEF Proceed
  <2>4. AsTold'
    <3>1. \A cell \in CellsWritten :
             /\ asked'[cell] = asked[cell] /\ held'[cell] = held[cell]
             /\ cell \in KeyCells => rows'[cell] = rows[cell]
      BY <2>2, <2>3
    <3>2. ~spoiled' => ~spoiled
      BY <1>6
    <3> QED
      BY <3>1, <3>2, AsToldNext, Zenon
  <2> QED
    BY <1>9, <1>10, <2>4
<1>11. CASE parts # {} /\ ~clean
  <2>1. spoiled
    BY <1>11, Zenon DEF Course
  <2>2. spoiled'
    BY <1>6, <2>1
  <2>3. AsTold'
    BY <2>2, Zenon DEF AsTold
  <2>4. at' # 0 => Progress'
    BY <1>9, <1>11
  <2> QED
    BY <2>3, <2>4
<1>12. CASE parts # {} /\ clean
  <2>1. /\ AllStop(h) /\ h.tells = "all" /\ AllAccepted
        /\ \A p \in Ports : late[p] = None
    BY <1>1, <1>12 DEF SetsInOrder, Progress
  <2>2. e.port \in Ports
    BY <1>1 DEF Exchanges, StepAt
  <2>3. PICK accepted \in BOOLEAN, value \in Values :
           /\ Proceed(req, accepted, value)
           /\ Do(req, e) \/ UNCHANGED device
           /\ accepted =>
                 /\ Do(req, e) \/ (unseen' /\ CanRefuse(e) /\ ~Looks(e))
                 /\ unseen => unseen'
    BY <2>1, <2>2, Genuine
  <2>4. ASSUME NEW cell \in CellsWritten,
               at \in parts => cell # Named(req, e)
        PROVE  /\ held'[cell] = held[cell]
               /\ cell \in KeyCells => rows'[cell] = rows[cell]
    BY <1>12, <2>3, <2>4, OtherCells
  <2>5. ASSUME asked' = asked PROVE AsTold'
    <3>1. ASSUME NEW cell \in CellsWritten, asked[cell] # None
          PROVE  /\ held'[cell] = held[cell]
                 /\ cell \in KeyCells => rows'[cell] = rows[cell]
      <4>1. at \in parts => cell # Named(req, e)
        BY <3>1 DEF Progress
      <4> QED
        BY <2>4, <4>1
    <3>2. ~spoiled' => ~spoiled
      BY <1>6
    <3> QED
      BY <2>5, <3>1, <3>2, AsToldNext
  <2>6. ASSUME ~accepted PROVE AsTold' /\ at' = 0
    <3>1. at' = 0
      BY <1>4, <2>1, <2>3, <2>6
    <3>2. asked' = asked
      <4>1. ~(\A i \in DOMAIN told' : told'[i].accepted)
        BY <1>4, <2>3, <2>6 DEF AllAccepted
      <4>2. ~Succeeds(req, told')
        BY <2>1, <4>1 DEF Succeeds
      <4> QED
        BY <2>3, <4>2 DEF Proceed
    <3> QED
      BY <2>5, <3>1, <3>2
  <2>7. ASSUME accepted PROVE at' # 0 =>
           /\ at' = at + 1
           /\ \A j \in 1 .. at' - 1 : Puts(h, j, "target") => target' = req.board
    <3> SUFFICES ASSUME at' # 0
                 PROVE  /\ at' = at + 1
                        /\ \A j \in 1 .. at' - 1 : Puts(h, j, "target") => target' = req.board
      OBVIOUS
    <3>1. After(h, TRUE) = at + 1
      BY <1>1, NextStep
    <3>2. at' = at + 1
      BY <1>4, <2>3, <2>7, <3>1
    <3>3. CanRefuse(e) => e.what # "target"
      BY DEF CanRefuse
    <3>4. /\ e.write /\ e.what = "target" => target' = req.board
          /\ target' \in {target, req.board}
      BY <2>3, <2>7, <3>3 DEF Do, device
    <3>5. ASSUME NEW j \in 1 .. at' - 1, Puts(h, j, "target") PROVE target' = req.board
      <4>1. j = at \/ j \in 1 .. at - 1
        BY <1>1, <3>2
      <4>2. CASE j = at
        BY <3>4, <3>5, <4>2 DEF Puts, StepAt
      <4>3. CASE j \in 1 .. at - 1
        BY <1>12, <3>4, <3>5, <4>3 DEF Progress
      <4> QED
        BY <4>1, <4>2, <4>3
    <3> QED
      BY <3>2, <3>5
  <2>8. ASSUME accepted, unseen' PROVE AsTold' /\ (at' # 0 => Progress')
    <3>1. asked' = asked
      BY <1>4, <2>3, <2>8
    <3> QED
      BY <1>9, <2>5, <2>7, <2>8, <3>1, Zenon
  <2>9. ASSUME accepted, ~unseen' PROVE AsTold' /\ (at' # 0 => Progress')
    <3>1. accepted = TRUE /\ Proceed(req, TRUE, value) /\ Do(req, e) /\ ~unseen
      BY <2>3, <2>9
    <3>2. \A k : k = at /\ k \in parts => Written(k)'
      BY <1>12, <3>1, PartWritten
    <3>3. \A j : Written(j)' <=>
             LET f == StepAt(j)
                 c == Named(req, f)
             IN  /\ held'[c] = Stored(f.what, req.value[f.arg])
                 /\ c \in KeyCells /\ req.value[f.arg] <= RowMax => rows'[c] = req.value[f.arg]
      BY <1>6 DEF Written, StepAt
    <3>4. ASSUME NEW j \in parts, j <= at PROVE Written(j)'
      <4> DEFINE f == StepAt(j)
                 cell == Named(req, f)
      <4>1. CASE at \in parts /\ cell = Named(req, e)
        <5>1. f.what = e.what /\ f.arg = e.arg
          <6>1. \A x : Named(req, x)[1] = x.what /\ Named(req, x)[2] = x.arg
            BY DEF Named, Cell
          <6> HIDE DEF f, e
          <6> QED
            BY <4>1, <6>1 DEF cell
        <5>2. /\ held'[cell] = Stored(e.what, req.value[e.arg])
              /\ cell \in KeyCells /\ req.value[e.arg] <= RowMax => rows'[cell] = req.value[e.arg]
          BY <3>2, <3>3, <4>1
        <5> QED
          BY <3>3, <5>1, <5>2
      <4>2. CASE at \in parts => cell # Named(req, e)
        <5>1. j # at
          BY <4>2
        <5>2. j < at
          BY <1>1, <1>3, <3>4, <5>1, ScriptFields
        <5>3. Written(j)
          BY <1>12, <3>1, <5>2 DEF Progress
        <5>4. /\ held'[cell] = held[cell]
              /\ cell \in KeyCells => rows'[cell] = rows[cell]
          BY <1>2, <2>4, <4>2
        <5> QED
          BY <3>3, <5>3, <5>4 DEF Written
      <4> QED
        BY <4>1, <4>2
    <3>5. After(h, accepted) = at + 1
      <4>1. After(h, TRUE) = at + 1
        BY <1>1, NextStep
      <4> QED
        BY <3>1, <4>1
    <3>6. at' # 0 => Progress'
      <4> SUFFICES ASSUME at' # 0 PROVE Progress'
        OBVIOUS
      <4>1. at' = at + 1
        BY <2>7, <2>9
      <4>2. \A j \in parts : j < at' => Written(j)'
        <5>1. \A j \in parts : j \in Nat
          BY <1>1, <1>3, ScriptFields
        <5> QED
          BY <1>1, <3>4, <4>1, <5>1
      <4> QED
        BY <1>9, <2>7, <2>9, <4>2
    <3>7. ASSUME NEW cell \in CellsWritten, \A j \in parts : Named(req, StepAt(j)) # cell
          PROVE  /\ held'[cell] = held[cell]
                 /\ cell \in KeyCells => rows'[cell] = rows[cell]
      BY <2>4, <3>7
    <3>8. ~spoiled' => ~spoiled
      BY <1>6
    <3>9. CASE at' # 0
      <4>1. asked' = asked
        BY <1>4, <2>3, <3>9
      <4>2. \A cell \in CellsWritten : asked'[cell] # None =>
               /\ asked'[cell] = asked[cell] /\ held'[cell] = held[cell]
               /\ cell \in KeyCells => rows'[cell] = rows[cell]
        BY <3>7, <4>1 DEF Progress
      <4>3. AsTold'
        BY <3>8, <4>2, AsToldNext
      <4> QED
        BY <3>6, <4>3
    <3>10. CASE at' = 0
      <4>1. at = Len(h.steps)
        <5>1. Len(h.steps) \in Nat /\ Scripted(h) = 1 .. Len(h.steps)
          BY <1>1, ScriptFields
        <5>2. at' = IF After(h, accepted) > Len(h.steps) THEN 0 ELSE After(h, accepted)
          BY <2>3 DEF Proceed
        <5> QED
          BY <1>1, <3>5, <3>10, <5>1, <5>2
      <4>2. After(h, accepted) > Len(h.steps)
        BY <1>1, <3>5, <4>1
      <4>3. Succeeds(req, told')
        BY <1>4, <2>1, <2>3, <2>9 DEF AllAccepted, Succeeds
      <4>4. told' = Append(told, [step |-> at, accepted |-> accepted, value |-> value])
        BY <2>3 DEF Proceed
      <4>5. asked' = [cell \in CellsWritten |->
                        IF \E i \in parts : Named(req, StepAt(i)) = cell
                        THEN req.value[cell[2]] ELSE asked[cell]]
        BY <2>3, <2>9, <4>2, <4>3, <4>4 DEF Proceed, StepAt
      <4>6. ASSUME NEW cell \in CellsWritten, NEW j \in parts, Named(req, StepAt(j)) = cell
            PROVE  /\ held'[cell] = Stored(cell[1], asked'[cell])
                   /\ cell \in KeyCells /\ asked'[cell] <= RowMax => rows'[cell] = asked'[cell]
        <5> DEFINE f == StepAt(j)
        <5>1. cell[1] = f.what /\ cell[2] = f.arg
          BY <4>6 DEF Named, Cell
        <5>2. asked'[cell] = req.value[f.arg]
          BY <4>5, <4>6, <5>1
        <5>3. j <= at
          BY <1>1, <1>3, <4>1, ScriptFields
        <5>4. Written(j)'
          BY <3>4, <5>3
        <5> QED
          BY <3>3, <4>6, <5>1, <5>2, <5>4
      <4>7. \A cell \in CellsWritten :
               \/ /\ asked'[cell] = asked[cell] /\ held'[cell] = held[cell]
                  /\ cell \in KeyCells => rows'[cell] = rows[cell]
               \/ /\ held'[cell] = Stored(cell[1], asked'[cell])
                  /\ cell \in KeyCells /\ asked'[cell] <= RowMax => rows'[cell] = asked'[cell]
        BY <3>7, <4>5, <4>6
      <4>8. AsTold'
        BY <3>8, <4>7, AsToldNext
      <4> QED
        BY <3>10, <4>8
    <3> QED
      BY <3>9, <3>10
  <2> QED
    BY <2>6, <2>8, <2>9, Zenon
<1> QED
  BY <1>10, <1>11, <1>12

LEMMA BeginAsTold ==
    ASSUME Ordered, Course, Devices, Saved, AsTold, NEW r \in Requests, Begin(r)
    PROVE  AsTold' /\ Progress'
<1>1. /\ req' = r /\ at' = 1 /\ told' = <<>> /\ UNCHANGED <<device, rows, late>>
      /\ clean' = \A p \in Ports : late[p] = None
      /\ spoiled' = (spoiled \/ ~clean')
      /\ asked' = [cell \in CellsWritten |->
                     IF \E i \in PartsWritten(r.handler) : Named(r, r.handler.steps[i]) = cell
                     THEN None ELSE asked[cell]]
  BY DEF Begin
<1>2. \A cell \in CellsWritten : asked'[cell] # None =>
         /\ asked'[cell] = asked[cell] /\ held'[cell] = held[cell]
         /\ cell \in KeyCells => rows'[cell] = rows[cell]
  BY <1>1 DEF device
<1>3. ~spoiled' => ~spoiled
  BY <1>1, Zenon
<1>4. AsTold'
  BY <1>2, <1>3, AsToldNext
<1>5. AllAccepted'
  BY <1>1 DEF AllAccepted
<1>6. clean' => \A p \in Ports : late'[p] = None
  BY <1>1
<1>7. \A j \in PartsWritten(r.handler) : Named(r, r.handler.steps[j]) \in CellsWritten
  BY DEF CellsWritten
<1>8. \A j \in PartsWritten(r.handler) : asked'[Named(r, r.handler.steps[j])] = None
  BY <1>1, <1>7
<1>9. \A j \in PartsWritten(r.handler) : ~(j < 1)
  BY ScriptFields DEF PartsWritten
<1>10. Progress'
  BY <1>1, <1>5, <1>6, <1>8, <1>9 DEF Progress, StepAt
<1> QED
  BY <1>4, <1>10

(* The invariant: what was told holds, and a request is where it can be.   *)
IInv == Course /\ Devices /\ Saved /\ AsTold /\ (at # 0 => Progress)

LEMMA IInvInit == ASSUME Init PROVE IInv
<1>1. Course /\ Devices /\ Saved
  BY TypesInit
<1>2. AsTold /\ at = 0
  BY DEF Init, AsTold
<1> QED
  BY <1>1, <1>2 DEF IInv

LEMMA IInvNext == ASSUME Ordered, IInv, [Next]_vars PROVE IInv'
<1> SUFFICES AsTold' /\ (at' # 0 => Progress')
  BY TypesStep DEF IInv
<1>1. ASSUME NEW r \in Requests, Begin(r) PROVE AsTold' /\ Progress'
  BY <1>1, BeginAsTold DEF IInv
<1>2. CASE Exchanging
  <2>1. at # 0
    BY <1>2 DEF Exchanging
  <2> QED
    BY <1>2, <2>1, ExchangeAsTold DEF IInv
<1>3. CASE UNCHANGED vars
  BY <1>3 DEF vars, device, AsTold, Progress, AllAccepted, Written, StepAt, IInv
<1>4. CASE Done
  BY <1>3, <1>4 DEF Done
<1> QED
  BY <1>1, <1>2, <1>3, <1>4 DEF Next

(* What a setter answers as done is done, unless the core refused it and   *)
(* said so where the handler does not look, and stays so: for any scripts  *)
(* in order, any boards, outputs and settings, and any number of requests. *)
THEOREM SettersDoAsTold == ASSUME Ordered PROVE Spec => []AsTold
<1>1. Init => IInv
  BY IInvInit
<1>2. IInv /\ [Next]_vars => IInv'
  BY IInvNext
<1>3. IInv => AsTold
  BY DEF IInv
<1> QED
  BY <1>1, <1>2, <1>3, PTL DEF Spec

-------------------------------------------------------------------------------
(* Readers.                                                                *)

(* An exchange with command c failed.                                      *)
FailedWith(c) == \E i \in DOMAIN told : ~told[i].accepted /\ StepAt(told[i].step).code = c

(* The selections that the next exchange is under have been made, that of  *)
(* a channel unless a late answer may have been taken for it.              *)
BoardSelected ==
    \A k \in 1 .. at - 1 :
        Puts(req.handler, k, "target") /\ SameGroup(req.handler, k, at) => target = req.board
ChannelSelected ==
    Selects(req.handler) /\ ~FailedWith(Pair.code) =>
        \A j \in 1 .. at - 1 :
            /\ Puts(req.handler, j, "pair") /\ SameGroup(req.handler, j, at)
            /\ \A k \in j + 1 .. at - 1 : ~Puts(req.handler, k, "pair")
            => pair[req.board] = ChannelOf(req, StepAt(j))

(* Where the handler goes on after a failure, an answer that is late on the*)
(* port of the control FPGA is that of a selection which has taken effect, *)
(* one on the other port that of a command which failed.                   *)
LateKnown ==
    ~AllStop(req.handler) =>
        /\ late["fpga"] # None => target = req.board
        /\ late["board"] # None => FailedWith(late["board"].code)

(* The readings of the request so far are right.                           *)
RightSoFar ==
    \A i \in DOMAIN told :
        LET e == StepAt(told[i].step)
            cell == Named(req, e)
        IN  told[i].accepted /\ ~e.write /\ SelectsFor(req.handler, e)
                /\ Unmistakable(req.handler, told, i)
            => told[i].value = <<cell, Contents(cell)>>

LEMMA FailedNext ==
    ASSUME Course, at # 0, NEW accepted \in BOOLEAN, NEW value \in Values,
           Proceed(req, accepted, value), NEW c
    PROVE  FailedWith(c)' <=> FailedWith(c) \/ (~accepted /\ StepAt(at).code = c)
<1>1. /\ req' = req
      /\ told' = Append(told, [step |-> at, accepted |-> accepted, value |-> value])
  BY DEF Proceed
<1>2. /\ DOMAIN told' = DOMAIN told \union {Len(told) + 1}
      /\ told'[Len(told) + 1].step = at /\ told'[Len(told) + 1].accepted = accepted
      /\ \A i \in DOMAIN told : told'[i] = told[i]
  BY <1>1, AcceptedNext
<1>3. FailedWith(c)' <=> \E i \in DOMAIN told' :
                            ~told'[i].accepted /\ StepAt(told'[i].step).code = c
  BY <1>1 DEF FailedWith, StepAt
<1> HIDE DEF StepAt
<1> QED
  BY <1>2, <1>3 DEF FailedWith

(* The board is selected where an exchange takes effect.                   *)
LEMMA BoardReached ==
    ASSUME Ordered, Course, BoardSelected, at # 0, Selects(req.handler),
           StepAt(at).scope # "fpga"
    PROVE  target = req.board
<1>1. SelectsInOrder(req.handler) /\ at \in Scripted(req.handler)
  BY ScriptFields DEF Course, InOrder
<1>2. PICK k \in 1 .. at - 1 :
         Puts(req.handler, k, "target") /\ SameGroup(req.handler, k, at)
  BY <1>1 DEF SelectsInOrder, StepAt
<1> QED
  BY <1>2 DEF BoardSelected

(* An exchange for which all was selected takes effect where it is meant.  *)
LEMMA ReachesSelected ==
    ASSUME Ordered, Course, BoardSelected, ChannelSelected, at # 0,
           SelectsFor(req.handler, StepAt(at)), ~FailedWith(Pair.code)
    PROVE  Reached(req, StepAt(at)) = Named(req, StepAt(at))
<1> DEFINE h == req.handler
           e == StepAt(at)
<1>1. /\ SelectsInOrder(h) /\ at \in Scripted(h) /\ at \in Nat
      /\ e.scope \in {"fpga", "board", "output", "pair"}
  BY ScriptFields DEF Course, InOrder, StepAt, Exchanges
<1>2. e.scope # "fpga" => target = req.board
  BY BoardReached DEF SelectsFor
<1>3. e.scope = "pair" => pair[req.board] = ChannelOf(req, e)
  <2> SUFFICES ASSUME e.scope = "pair" PROVE pair[req.board] = ChannelOf(req, e)
    OBVIOUS
  <2>1. Selects(h) /\ \E i \in Scripted(h) : Puts(h, i, "pair")
    BY DEF SelectsFor, Puts
  <2>2. PICK k \in 1 .. at - 1 : /\ Puts(h, k, "pair") /\ SameGroup(h, k, at)
                                 /\ \A j \in k + 1 .. at - 1 : ~Puts(h, j, "pair")
    BY <1>1, <2>1 DEF SelectsInOrder, StepAt
  <2>3. pair[req.board] = ChannelOf(req, StepAt(k))
    BY <2>1, <2>2 DEF ChannelSelected
  <2>4. StepAt(k).group = e.group
    BY <1>1, <2>2 DEF SameGroup, StepAt
  <2> QED
    BY <2>3, <2>4 DEF ChannelOf
<1> HIDE DEF e, h
<1>4. Reached(req, e) = Named(req, e)
  <2>1. CASE e.scope = "fpga"
    BY <2>1 DEF Reached, Named, Cell
  <2>2. CASE e.scope = "board"
    BY <1>2, <2>2 DEF Reached, Named, Cell
  <2>3. CASE e.scope = "output"
    BY <1>2, <2>3 DEF Reached, Named, Cell
  <2>4. CASE e.scope = "pair"
    BY <1>2, <1>3, <2>4 DEF Reached, Named, Cell
  <2> QED
    BY <1>1, <2>1, <2>2, <2>3, <2>4
<1> QED
  BY <1>4 DEF e

(* The invariants of a reader before exchange `at'.                        *)
Reading == Progress /\ BoardSelected /\ ChannelSelected /\ LateKnown

(* What the handler makes of an exchange: a selection of the board that it *)
(* accepts has taken effect, and so has whatever else it accepts that no   *)
(* failed exchange can be mistaken for.                                    *)
Justified(accepted, value) ==
    LET e == StepAt(at)
    IN  /\ Proceed(req, accepted, value)
        /\ Do(req, e) \/ UNCHANGED device
        /\ accepted /\ Puts(req.handler, at, "target") => target' = req.board
        /\ accepted /\ ~Puts(req.handler, at, "target") /\ ~FailedWith(e.code) =>
              Do(req, e) /\ value = Answer(req, e, TRUE).value

LEMMA JustifiedStopping ==
    ASSUME Ordered, Course, Devices, Reading, at # 0, clean, AllStop(req.handler), Exchanging,
           PartsWritten(req.handler) = {}
    PROVE  \E accepted \in BOOLEAN, value \in Values : Justified(accepted, value)
<1>1. \A p \in Ports : late[p] = None
  BY DEF Reading, Progress
<1>2. StepAt(at).port \in Ports
  BY ScriptFields DEF Course, StepAt, Exchanges
<1>3. PICK accepted \in BOOLEAN, value \in Values :
         /\ Proceed(req, accepted, value)
         /\ Do(req, StepAt(at)) \/ UNCHANGED device
         /\ accepted =>
               /\ Do(req, StepAt(at)) \/ (CanRefuse(StepAt(at)) /\ ~Looks(StepAt(at)))
               /\ value = Answer(req, StepAt(at), TRUE).value
  BY <1>1, <1>2, Genuine
<1>4. CanRefuse(StepAt(at)) => Looks(StepAt(at))
  <2> SUFFICES ASSUME CanRefuse(StepAt(at)) PROVE Looks(StepAt(at))
    OBVIOUS
  <2>1. SelectsInOrder(req.handler) /\ at \in Scripted(req.handler)
    BY ScriptFields DEF Course, InOrder
  <2>2. Puts(req.handler, at, "pair")
    BY <2>1 DEF CanRefuse, PartsWritten, Puts, StepAt
  <2> QED
    BY <2>1, <2>2 DEF SelectsInOrder, Looks, StepAt
<1>5. Do(req, StepAt(at)) /\ Puts(req.handler, at, "target") => target' = req.board
  BY DEF Do, Puts, StepAt
<1> QED
  BY <1>3, <1>4, <1>5 DEF Justified

LEMMA JustifiedGoingOn ==
    ASSUME Ordered, Course, Devices, Reading, at # 0, ~AllStop(req.handler), Exchanging
    PROVE  (\E accepted \in BOOLEAN, value \in Values : Justified(accepted, value)) /\ LateKnown'
<1> DEFINE h == req.handler
           e == StepAt(at)
<1>1. /\ req \in Requests /\ at \in Scripted(h) /\ e \in Exchanges
      /\ SelectsInOrder(h) /\ ReadsInOrder(h)
  BY ScriptFields DEF Course, InOrder, StepAt
<1>2. /\ IF e.port = "fpga" THEN Puts(h, at, "target") ELSE e.checks = "code"
      /\ CanRefuse(e) => Looks(e)
      /\ e.port = "fpga" => ~CanRefuse(e)
  BY <1>1 DEF ReadsInOrder, StepAt, Looks, CanRefuse, Puts
<1>3. Puts(h, at, "target") => e.port = "fpga" /\ e.write /\ e.what = "target"
  BY <1>1 DEF SelectsInOrder, Puts, StepAt
<1>4. /\ Do(req, e) => target' = IF Puts(h, at, "target") THEN req.board ELSE target
      /\ UNCHANGED device => target' = target
  BY DEF Do, Puts, StepAt, device
<1>5. /\ late["fpga"] # None => target = req.board
      /\ late["board"] # None => FailedWith(late["board"].code)
  BY DEF Reading, LateKnown
<1>6. ASSUME NEW accepted \in BOOLEAN, NEW value \in Values, Proceed(req, accepted, value)
      PROVE  /\ \A c : FailedWith(c)' <=> FailedWith(c) \/ (~accepted /\ e.code = c)
             /\ /\ late'["fpga"] # None => target' = req.board
                /\ late'["board"] # None =>
                      \/ FailedWith(late'["board"].code)
                      \/ ~accepted /\ e.code = late'["board"].code
                => LateKnown'
  <2>1. req' = req
    BY <1>6 DEF Proceed
  <2>2. \A c : FailedWith(c)' <=> FailedWith(c) \/ (~accepted /\ e.code = c)
    BY <1>6, FailedNext
  <2>3. ASSUME late'["fpga"] # None => target' = req.board,
               late'["board"] # None =>
                      \/ FailedWith(late'["board"].code)
                      \/ ~accepted /\ e.code = late'["board"].code
        PROVE  LateKnown'
    <3>1. late'["board"] # None => FailedWith(late["board"].code)'
      <4> DEFINE c == late'["board"].code
      <4>1. FailedWith(c) \/ (~accepted /\ e.code = c) =>
               \E i \in DOMAIN told' : /\ ~told'[i].accepted
                                         /\ req'.handler.steps[told'[i].step].code = c
        BY <2>2 DEF FailedWith, StepAt
      <4> QED
        BY <2>3, <4>1 DEF FailedWith, StepAt
    <3> QED
      BY <2>1, <2>3, <3>1 DEF LateKnown
  <2> QED
    BY <2>2, <2>3
<1>7. late \in [Ports -> Answers \union {None}] /\ e.port \in Ports
  BY <1>1 DEF Devices, Exchanges
<1>8. target' = target \/ target' = req.board
  BY <1>4, AnyExchange
<1>9. CASE InTime(req)
  <2>1. PICK done \in BOOLEAN, accepted \in BOOLEAN, value \in Values :
           /\ IF done THEN Do(req, e) ELSE UNCHANGED device /\ CanRefuse(e)
           /\ late' \in {late, [late EXCEPT ![e.port] = None]}
           /\ accepted = Accepts(e, Answer(req, e, done))
           /\ value = IF accepted THEN Answer(req, e, done).value ELSE Nothing
           /\ Proceed(req, accepted, value)
    BY <1>9, InTimeCases DEF StepAt
  <2>2. accepted => done = TRUE
    BY <1>2, <2>1, AcceptedDone
  <2>3. accepted => Do(req, e) /\ value = Answer(req, e, TRUE).value
    <3> HIDE DEF e
    <3> QED
      BY <2>1, <2>2
  <2>4. \A p \in Ports : late'[p] = late[p] \/ late'[p] = None
    <3> HIDE DEF e
    <3> QED
      BY <1>7, <2>1
  <2>5. Justified(accepted, value)
    BY <1>4, <2>1, <2>3 DEF Justified
  <2>6. LateKnown'
    BY <1>5, <1>6, <1>8, <2>1, <2>4 DEF Ports
  <2> QED
    BY <2>5, <2>6
<1>10. CASE FromBefore(req)
  <2>1. PICK done \in BOOLEAN, accepted \in BOOLEAN, value \in Values :
           /\ late[e.port] # None
           /\ \/ UNCHANGED device /\ late' = [late EXCEPT ![e.port] = None]
              \/ /\ IF done THEN Do(req, e) ELSE UNCHANGED device /\ CanRefuse(e)
                 /\ late' \in {[late EXCEPT ![e.port] = Answer(req, e, done)],
                               [late EXCEPT ![e.port] = None]}
           /\ accepted = Accepts(e, late[e.port])
           /\ Proceed(req, accepted, value)
    BY <1>10, FromBeforeCases DEF StepAt
  <2>2. Answer(req, e, done).code = e.code
    BY SameValue
  <2>3. CASE e.port = "fpga"
    <3>1. Puts(h, at, "target") /\ target = req.board
      BY <1>2, <1>5, <2>1, <2>3
    <3>2. target' = req.board
      BY <1>8, <3>1
    <3>3. late'["board"] = late["board"]
      <4> HIDE DEF e
      <4> QED
        BY <1>7, <2>1, <2>3 DEF Ports
    <3>4. Justified(accepted, value)
      BY <2>1, <3>1, <3>2 DEF Justified
    <3>5. LateKnown'
      BY <1>5, <1>6, <2>1, <3>2, <3>3
    <3> QED
      BY <3>4, <3>5
  <2>4. CASE e.port # "fpga"
    <3>1. e.port = "board" /\ e.checks = "code" /\ ~Puts(h, at, "target")
      BY <1>2, <1>3, <1>7, <2>4 DEF Ports
    <3>2. accepted => late["board"].code = e.code
      BY <2>1, <3>1 DEF Accepts
    <3>3. accepted => FailedWith(e.code)
      BY <1>5, <2>1, <3>1, <3>2
    <3>4. late'["fpga"] = late["fpga"] /\ late'["board"] \in {None, Answer(req, e, done)}
      <4> HIDE DEF e
      <4> QED
        BY <1>7, <2>1, <3>1 DEF Ports
    <3>5. Justified(accepted, value)
      BY <2>1, <3>1, <3>3 DEF Justified
    <3>6. late'["board"] # None =>
             \/ FailedWith(late'["board"].code)
             \/ ~accepted /\ e.code = late'["board"].code
      <4> HIDE DEF e
      <4> QED
        BY <2>2, <3>3, <3>4
    <3>7. LateKnown'
      BY <1>5, <1>6, <1>8, <2>1, <3>4, <3>6
    <3> QED
      BY <3>5, <3>7
  <2> QED
    BY <2>3, <2>4
<1>11. CASE TimesOut(req)
  <2>1. PICK done \in BOOLEAN :
           /\ \/ UNCHANGED <<device, late>>
              \/ /\ IF done THEN Do(req, e) ELSE UNCHANGED device /\ CanRefuse(e)
                 /\ late' \in {late, [late EXCEPT ![e.port] = Answer(req, e, done)]}
           /\ Proceed(req, FALSE, Nothing)
    BY <1>11, TimesOutCases DEF StepAt
  <2>2. Answer(req, e, done).code = e.code
    BY SameValue
  <2>3. Nothing \in Values
    BY DEF Values
  <2>4. Justified(FALSE, Nothing)
    BY <2>1 DEF Justified, device
  <2>5. late'["fpga"] # None => target' = req.board
    <3>1. CASE e.port = "fpga" /\ Do(req, e)
      BY <1>2, <1>4, <3>1
    <3>2. CASE ~(e.port = "fpga" /\ Do(req, e))
      <4>1. late'["fpga"] = late["fpga"]
        <5> HIDE DEF e
        <5> QED
          BY <1>2, <1>7, <2>1, <3>2 DEF Ports
      <4> QED
        BY <1>5, <1>8, <4>1
    <3> QED
      BY <3>1, <3>2
  <2>6. late'["board"] = late["board"] \/ late'["board"] = Answer(req, e, done)
    <3> HIDE DEF e
    <3> QED
      BY <1>7, <2>1 DEF Ports
  <2>7. LateKnown'
    <3>1. late'["board"] # None => FailedWith(late'["board"].code) \/ e.code = late'["board"].code
      <4> HIDE DEF e
      <4> QED
        BY <1>5, <2>2, <2>6
    <3> QED
      BY <1>6, <2>1, <2>3, <2>5, <3>1
  <2> QED
    BY <2>3, <2>4, <2>7
<1> QED
  BY <1>9, <1>10, <1>11 DEF Exchanging

(* The selections that the exchange after it is under.                     *)
LEMMA SelectedNext ==
    ASSUME Ordered, Course, Devices, Reading, at # 0, at' # 0,
           NEW accepted \in BOOLEAN, NEW value \in Values, Justified(accepted, value)
    PROVE  BoardSelected' /\ ChannelSelected'
<1> DEFINE h == req.handler
           e == StepAt(at)
<1>1. /\ req \in Requests /\ at \in Scripted(h) /\ at \in Nat /\ SelectsInOrder(h)
      /\ Scripted(h) = 1 .. Len(h.steps) /\ Len(h.steps) \in Nat
      /\ e.fails \in {"stop", "go", "skip"}
  BY ScriptFields DEF Course, InOrder, StepAt, Exchanges
<1>2. /\ req' = req /\ at' = After(h, accepted) /\ at' > at
      /\ at' \in Scripted(h) /\ at' \in Nat
  BY ProceedCourse DEF Justified, Course
<1>3. ASSUME NEW k \in at .. at' - 1, SameGroup(h, k, at')
      PROVE  k = at /\ (accepted \/ e.fails = "go")
  <2>1. CASE accepted \/ e.fails = "go"
    <3>1. at' = at + 1
      BY <1>1, <1>2, <2>1, NextStep DEF StepAt
    <3> QED
      BY <1>1, <2>1, <3>1
  <2>2. CASE ~accepted /\ e.fails = "stop"
    <3>1. at' = Len(h.steps) + 1
      BY <1>1, <1>2, <2>2, NextStep DEF StepAt
    <3> QED
      BY <1>1, <1>2, <3>1
  <2>3. CASE ~accepted /\ e.fails = "skip"
    <3>1. /\ h.steps[at'].group # e.group
          /\ \A i \in at + 1 .. at' - 1 : h.steps[i].group = e.group
      BY <1>1, <1>2, <2>3, NextStep DEF StepAt
    <3>2. h.steps[k].group = e.group
      BY <1>1, <1>2, <3>1 DEF StepAt
    <3>3. h.steps[k].group = h.steps[at'].group
      BY <1>1, <1>2, <1>3 DEF SameGroup
    <3> QED
      BY <3>1, <3>2, <3>3
  <2> QED
    BY <1>1, <2>1, <2>2, <2>3
<1>4. ASSUME NEW k \in 1 .. at - 1, SameGroup(h, k, at') PROVE SameGroup(h, k, at)
  <2>1. \A i \in k .. at : i \in k .. at'
    BY <1>1, <1>2
  <2>2. at \in k .. at
    BY <1>1
  <2> QED
    BY <1>4, <2>1, <2>2 DEF SameGroup
<1>5. \A k \in 1 .. at' - 1 : k \in 1 .. at - 1 \/ k \in at .. at' - 1
  BY <1>1, <1>2
<1>6. target' = target \/ target' = req.board
  BY DEF Justified, Do, device
<1>7. BoardSelected'
  <2> SUFFICES ASSUME NEW k \in 1 .. at' - 1, Puts(h, k, "target"), SameGroup(h, k, at')
               PROVE  target' = req.board
    BY <1>2 DEF BoardSelected
  <2>1. CASE k \in 1 .. at - 1
    BY <1>4, <1>6, <2>1 DEF Reading, BoardSelected
  <2>2. CASE k \in at .. at' - 1
    <3>1. k = at /\ accepted
      BY <1>1, <1>3, <2>2 DEF SelectsInOrder, Puts, StepAt
    <3> QED
      BY <3>1 DEF Justified
  <2> QED
    BY <1>5, <2>1, <2>2
<1>8. ChannelSelected'
  <2>1. FailedWith(Pair.code)' <=> FailedWith(Pair.code) \/ (~accepted /\ e.code = Pair.code)
    BY FailedNext DEF Justified
  <2> SUFFICES ASSUME Selects(h), ~FailedWith(Pair.code), accepted \/ e.code # Pair.code,
                      NEW j \in 1 .. at' - 1, Puts(h, j, "pair"), SameGroup(h, j, at'),
                      \A k \in j + 1 .. at' - 1 : ~Puts(h, k, "pair")
               PROVE  pair'[req.board] = ChannelOf(req, StepAt(j))
    BY <1>2, <2>1 DEF ChannelSelected, StepAt
  <2>2. CASE j \in 1 .. at - 1
    <3>1. at \in j + 1 .. at' - 1 /\ \A k \in j + 1 .. at - 1 : k \in j + 1 .. at' - 1
      BY <1>1, <1>2, <2>2
    <3>2. pair[req.board] = ChannelOf(req, StepAt(j))
      BY <1>4, <2>2, <3>1 DEF Reading, ChannelSelected
    <3>3. pair' = pair
      BY <3>1 DEF Justified, Do, device, Puts, StepAt
    <3> QED
      BY <3>2, <3>3
  <2>3. CASE j \in at .. at' - 1
    <3>1. j = at
      BY <1>3, <2>3
    <3>2. e.code = Pair.code /\ e.scope = "board" /\ e.write /\ e.what = "pair"
      BY <1>1, <3>1 DEF SelectsInOrder, Puts, StepAt
    <3>3. Do(req, e)
      BY <3>2 DEF Justified, Puts, StepAt
    <3>4. target = req.board
      BY <3>2, BoardReached DEF Reading
    <3>5. pair' = [pair EXCEPT ![req.board] = ChannelOf(req, e)]
      BY <3>2, <3>3, <3>4 DEF Do
    <3>6. pair'[req.board] = ChannelOf(req, e)
      <4> HIDE DEF e
      <4> QED
        BY <1>1, <3>5, RequestFields DEF Devices
    <3> QED
      BY <3>1, <3>6
  <2> QED
    BY <1>5, <2>2, <2>3
<1> QED
  BY <1>7, <1>8

(* What a reader has read stays as it is.                                  *)
LEMMA ContentsStay ==
    ASSUME Ordered, Course, Devices, Saved, Progress, at # 0, PartsWritten(req.handler) = {},
           NEW accepted \in BOOLEAN, NEW value \in Values, Proceed(req, accepted, value),
           Do(req, StepAt(at)) \/ UNCHANGED device,
           NEW s \in Scripted(req.handler), ~StepAt(s).write,
           NEW cell, cell = Named(req, StepAt(s))
    PROVE  Contents(cell)' = Contents(cell)
<1>1. \A c \in CellsWritten : held'[c] = held[c]
  BY OtherCells
<1>2. cell[1] = StepAt(s).what
  BY DEF Named, Cell
<1>3. cell[1] = "pair" => pair' = pair
  <2> SUFFICES ASSUME cell[1] = "pair" PROVE pair' = pair
    OBVIOUS
  <2>1. ReadsInOrder(req.handler) /\ at \in Scripted(req.handler)
    BY ScriptFields DEF Course, InOrder
  <2>2. ~Puts(req.handler, at, "pair")
    BY <1>2, <2>1 DEF ReadsInOrder, StepAt
  <2> QED
    BY <2>2 DEF Do, device, Puts, StepAt
<1> QED
  BY <1>1, <1>3 DEF Contents

(* The readings after an exchange.                                         *)
LEMMA RightNext ==
    ASSUME Ordered, Course, Devices, Saved, Reading, RightSoFar, at # 0,
           PartsWritten(req.handler) = {},
           NEW accepted \in BOOLEAN, NEW value \in Values, Justified(accepted, value)
    PROVE  RightSoFar'
<1> DEFINE h == req.handler
           n == Len(told) + 1
<1>1. /\ req' = req
      /\ told' = Append(told, [step |-> at, accepted |-> accepted, value |-> value])
  BY DEF Justified, Proceed
<1>2. /\ DOMAIN told' = DOMAIN told \union {n} /\ DOMAIN told = 1 .. Len(told)
      /\ Len(told) \in Nat
      /\ told'[n].step = at /\ told'[n].accepted = accepted /\ told'[n].value = value
      /\ \A i \in DOMAIN told : told'[i] = told[i]
  BY <1>1, AcceptedNext
<1>3. /\ at \in Scripted(h) /\ \A i \in DOMAIN told : told[i].step \in Scripted(h)
      /\ req # None
  BY CompositeAssumption DEF Course
<1>4. ASSUME NEW i \in DOMAIN told', NEW s, s = told'[i].step, ~StepAt(s).write,
             told'[i].accepted, SelectsFor(h, StepAt(s)), Unmistakable(h, told', i)
      PROVE  \E cell : /\ cell = Named(req, StepAt(s))
                       /\ told'[i].value = <<cell, Contents(cell)>>
                       /\ Contents(cell)' = Contents(cell)
  <2> PICK cell : cell = Named(req, StepAt(s))
    OBVIOUS
  <2>1. s \in Scripted(h)
    BY <1>2, <1>3, <1>4
  <2>2. Contents(cell)' = Contents(cell)
    BY <1>4, <2>1, ContentsStay DEF Justified, Reading
  <2>3. told'[i].value = <<cell, Contents(cell)>>
    <3>1. CASE i \in DOMAIN told
      <4>1. Unmistakable(h, told, i)
        BY <1>2, <1>4, <3>1 DEF Unmistakable
      <4> QED
        BY <1>2, <1>4, <3>1, <4>1 DEF RightSoFar
    <3>2. CASE i = n
      <4>1. s = at /\ accepted
        BY <1>2, <1>4, <3>2
      <4>2. ~FailedWith(StepAt(s).code) /\ ~FailedWith(Pair.code)
        <5> SUFFICES ASSUME NEW j \in DOMAIN told, ~told[j].accepted
                     PROVE  StepAt(told[j].step).code \notin {StepAt(s).code, Pair.code}
          BY DEF FailedWith
        <5>1. j \in 1 .. i - 1 /\ told'[j] = told[j]
          BY <1>2, <3>2
        <5>2. told'[j].accepted \/ h.steps[told'[j].step].code
                                     \notin {h.steps[told'[i].step].code, Pair.code}
          BY <1>4, <5>1 DEF Unmistakable
        <5> QED
          BY <1>4, <5>1, <5>2 DEF StepAt
      <4>3. Do(req, StepAt(s)) /\ value = Answer(req, StepAt(s), TRUE).value
        BY <1>4, <4>1, <4>2 DEF Justified, Puts, StepAt
      <4>4. Reached(req, StepAt(s)) = cell
        BY <1>4, <4>1, <4>2, ReachesSelected DEF Reading
      <4>5. value = <<cell, Contents(cell)>>
        BY <1>4, <4>3, <4>4 DEF Answer
      <4> QED
        BY <1>2, <3>2, <4>5
    <3> QED
      BY <1>2, <3>1, <3>2
  <2> QED
    BY <2>2, <2>3
<1> QED
  BY <1>1, <1>4 DEF RightSoFar, StepAt

LEMMA ExchangeShows ==
    ASSUME Ordered, Course, Devices, Saved, at # 0, clean, PartsWritten(req.handler) = {},
           Reading, RightSoFar, Exchanging
    PROVE  /\ at' # 0 => BoardSelected' /\ ChannelSelected' /\ LateKnown'
           /\ RightSoFar'
<1>1. \E accepted \in BOOLEAN, value \in Values : Justified(accepted, value)
  BY JustifiedStopping, JustifiedGoingOn
<1>2. AllStop(req.handler) => LateKnown'
  <2>1. req' = req
    BY <1>1 DEF Justified, Proceed
  <2> QED
    BY <2>1 DEF LateKnown
<1>3. LateKnown'
  BY <1>2, JustifiedGoingOn
<1>4. at' # 0 => BoardSelected' /\ ChannelSelected'
  BY <1>1, SelectedNext
<1>5. RightSoFar'
  BY <1>1, RightNext
<1> QED
  BY <1>3, <1>4, <1>5

(* A request that reads, with no answer under way when it began.           *)
Reader == req # None /\ clean /\ PartsWritten(req.handler) = {}
Shows ==
    Reader => /\ RightSoFar
              /\ at # 0 => BoardSelected /\ ChannelSelected /\ LateKnown

LEMMA BeginShows == ASSUME NEW r \in Requests, Begin(r) PROVE Shows'
<1>1. /\ req' = r /\ at' = 1 /\ told' = <<>> /\ late' = late
      /\ clean' => \A p \in Ports : late[p] = None
  BY DEF Begin
<1>2. RightSoFar'
  BY <1>1 DEF RightSoFar
<1>3. BoardSelected' /\ ChannelSelected'
  BY <1>1 DEF BoardSelected, ChannelSelected
<1>4. clean' => LateKnown'
  BY <1>1 DEF LateKnown, Ports
<1> QED
  BY <1>2, <1>3, <1>4 DEF Shows, Reader

LEMMA StepShows ==
    ASSUME Ordered, Course, Devices, Saved, at # 0 => Progress, Shows, [Next]_vars
    PROVE  Shows'
<1>1. CASE Exchanging
  <2>1. at # 0 /\ req # None
    BY <1>1, CompositeAssumption DEF Exchanging, Course
  <2>2. req' = req /\ clean' = clean
    BY <1>1, <2>1, AnyExchange, ProceedCourse
  <2>3. CASE Reader
    <3>1. Reading /\ RightSoFar /\ clean /\ PartsWritten(req.handler) = {}
      BY <2>1, <2>3 DEF Shows, Reading, Reader
    <3>2. /\ at' # 0 => BoardSelected' /\ ChannelSelected' /\ LateKnown'
          /\ RightSoFar'
      BY <1>1, <2>1, <3>1, ExchangeShows
    <3> QED
      BY <3>2 DEF Shows
  <2>4. CASE ~Reader
    <3>1. ~Reader'
      BY <2>2, <2>4 DEF Reader
    <3> QED
      BY <3>1 DEF Shows
  <2> QED
    BY <2>3, <2>4
<1>2. CASE UNCHANGED vars
  <2>1. UNCHANGED <<req, at, told, target, pair, held, late, clean>>
    BY <1>2 DEF vars, device
  <2>2. /\ Reader' <=> Reader
        /\ RightSoFar' <=> RightSoFar
        /\ BoardSelected' <=> BoardSelected
        /\ ChannelSelected' <=> ChannelSelected
        /\ LateKnown' <=> LateKnown
    BY <2>1 DEF Reader, RightSoFar, BoardSelected, ChannelSelected, LateKnown, FailedWith,
                StepAt, Contents
  <2> QED
    BY <2>1, <2>2 DEF Shows
<1>3. CASE Done
  BY <1>2, <1>3 DEF Done
<1> QED
  BY <1>1, <1>2, <1>3, BeginShows DEF Next

(* What the composite answers show is what the cores hold under the name of*)
(* each part, although exchanges fail and are answered late: for any       *)
(* scripts in order, any boards, channels, inputs and programs, any number *)
(* of requests.                                                            *)
THEOREM ReadersShowWhatIs == ASSUME Ordered PROVE Spec => []ShownIsRight
<1>1. Init => IInv /\ Shows
  BY IInvInit DEF Init, Shows, Reader
<1>2. IInv /\ Shows /\ [Next]_vars => IInv' /\ Shows'
  BY IInvNext, StepShows DEF IInv
<1>3. IInv /\ Shows => ShownIsRight
  <2> SUFFICES ASSUME Course, Shows, at = 0, clean, NEW i \in DOMAIN told,
                      i \in Shown(req, told),
                      SelectsFor(req.handler, StepAt(told[i].step)),
                      Unmistakable(req.handler, told, i)
               PROVE  told[i].value = <<Named(req, StepAt(told[i].step)),
                                        Contents(Named(req, StepAt(told[i].step)))>>
    BY Zenon DEF ShownIsRight, StepAt, IInv
  <2>1. req # None /\ req \in Requests /\ told[i].step \in Scripted(req.handler)
    BY DEF Course
  <2>2. told[i].accepted /\ ~StepAt(told[i].step).write
    BY DEF Shown, StepAt
  <2>3. PartsWritten(req.handler) = {}
    BY <2>1, <2>2, ScriptFields DEF InOrder, SetsInOrder, StepAt
  <2> QED
    BY <2>1, <2>2, <2>3 DEF Shows, Reader, RightSoFar
<1> QED
  BY <1>1, <1>2, <1>3, PTL DEF Spec

-------------------------------------------------------------------------------
(* The setters of the catalogue are in order.                              *)

LEMMA ExchangeFields ==
    ASSUME NEW port \in Ports, NEW code \in Nat, NEW scope \in {"fpga", "board", "output", "pair"},
           NEW what \in Subjects, NEW arg \in Nat
    PROVE  LET e == Exchange(port, code, scope, what, arg)
           IN  /\ e \in Exchanges
               /\ e.port = port /\ e.code = code /\ e.scope = scope /\ e.what = what
               /\ e.arg = arg /\ e.fails = "stop" /\ e.group = 0
  BY DEF Exchange, Exchanges

LEMMA WritingFields ==
    ASSUME NEW e \in Exchanges
    PROVE  LET w == Writing(e)
           IN  /\ w \in Exchanges /\ w.write
               /\ w.port = e.port /\ w.code = e.code /\ w.scope = e.scope /\ w.what = e.what
               /\ w.arg = e.arg /\ w.checks = e.checks /\ w.fails = e.fails /\ w.group = e.group
  BY DEF Writing, Exchanges

LEMMA CheckingFields ==
    ASSUME NEW e \in Exchanges, NEW c \in {"code", "status", "header", "nothing"}
    PROVE  LET w == Checking(e, c)
           IN  /\ w \in Exchanges
               /\ w.port = e.port /\ w.code = e.code /\ w.scope = e.scope /\ w.what = e.what
               /\ w.arg = e.arg /\ w.write = e.write /\ w.fails = e.fails /\ w.group = e.group
  BY DEF Checking, Exchanges

(* An exchange of a setter other than the selection of the board.          *)
IsPart(e) ==
    /\ e \in Exchanges /\ e.write /\ e.what \notin {"target", "pair", "programs"}
    /\ e.arg \in 1 .. 3 /\ e.scope \in {"fpga", "output"}
    /\ e.fails = "stop" /\ e.group = 0

LEMMA BoardFields ==
    /\ Board \in Exchanges /\ Board.write /\ Board.what = "target" /\ Board.scope = "fpga"
    /\ Board.fails = "stop" /\ Board.group = 0 /\ Board.port = "fpga"
<1> DEFINE e == Exchange("fpga", 0, "fpga", "target", 0)
<1>1. /\ e \in Exchanges /\ e.port = "fpga" /\ e.scope = "fpga" /\ e.what = "target"
      /\ e.fails = "stop" /\ e.group = 0
  BY DEF Exchange, Exchanges, Ports, Subjects
<1> HIDE DEF e
<1> QED
  BY <1>1, WritingFields, CheckingFields DEF Board, e

(* A script of such exchanges, after the selection of the board if one of  *)
(* them needs it.                                                          *)
LEMMA PartsInOrder ==
    ASSUME NEW h, NEW n \in Nat, h.tells = "all",
           h.steps \in Seq(Exchanges), Len(h.steps) = n, n # 0,
           \A i \in 1 .. n : IsPart(h.steps[i]) \/ (i = 1 /\ h.steps[i] = Board),
           \A i \in 1 .. n : h.steps[i].scope = "output" => h.steps[1] = Board
    PROVE  InOrder(h)
<1>1. Scripted(h) = 1 .. n /\ h.steps # <<>>
  BY DEF Scripted
<1>2. \A i \in 1 .. n :
         /\ h.steps[i].write /\ h.steps[i].fails = "stop" /\ h.steps[i].group = 0
         /\ h.steps[i].what \notin {"pair", "programs"}
         /\ h.steps[i].scope \in {"fpga", "output"}
         /\ h.steps[i].what # "target" => h.steps[i].arg \in 1 .. 3
  BY BoardFields DEF IsPart
<1>3. \A i \in 1 .. n : h.steps[i].scope = "output" =>
         1 \in 1 .. i - 1 /\ Puts(h, 1, "target") /\ SameGroup(h, 1, i)
  <2> SUFFICES ASSUME NEW i \in 1 .. n, h.steps[i].scope = "output"
               PROVE  1 \in 1 .. i - 1 /\ Puts(h, 1, "target") /\ SameGroup(h, 1, i)
    OBVIOUS
  <2>1. h.steps[1] = Board /\ i # 1
    BY BoardFields
  <2>2. Puts(h, 1, "target") /\ 1 \in 1 .. i - 1
    BY <2>1, BoardFields DEF Puts
  <2>3. SameGroup(h, 1, i)
    BY <1>2 DEF SameGroup
  <2> QED
    BY <2>2, <2>3
<1>4. AllStop(h)
  BY <1>1, <1>2 DEF AllStop
<1>5. SetsInOrder(h)
  BY <1>1, <1>2, <1>3, <1>4 DEF SetsInOrder, PartsWritten, Selects, Puts
<1>6. SelectsInOrder(h)
  <2>1. \A i \in 1 .. n : ~Puts(h, i, "pair") /\ h.steps[i].scope # "pair"
    BY <1>2 DEF Puts
  <2>2. \A i \in 1 .. n : h.steps[i].what = "target" =>
           h.steps[i].port = "fpga" /\ h.steps[i].write /\ h.steps[i].fails # "go"
    BY <1>2, BoardFields DEF IsPart
  <2>3. \A i \in 1 .. n : h.steps[i].scope # "fpga" =>
           \E k \in 1 .. i - 1 : Puts(h, k, "target") /\ SameGroup(h, k, i)
    BY <1>2, <1>3
  <2> QED
    BY <1>1, <2>1, <2>2, <2>3 DEF SelectsInOrder
<1>7. ReadsInOrder(h)
  BY <1>1, <1>2, <1>4 DEF ReadsInOrder
<1> QED
  BY <1>1, <1>5, <1>6, <1>7 DEF InOrder

LEMMA StackFields ==
    ASSUME NEW code \in Nat, NEW what \in Subjects, NEW arg \in Nat
    PROVE  LET e == Stack(code, what, arg)
           IN  /\ e \in Exchanges /\ e.scope = "fpga" /\ e.what = what
               /\ e.arg = arg /\ e.fails = "stop" /\ e.group = 0
<1> DEFINE e == Exchange("fpga", code, "fpga", what, arg)
<1>1. /\ e \in Exchanges /\ e.scope = "fpga" /\ e.what = what
      /\ e.arg = arg /\ e.fails = "stop" /\ e.group = 0
  BY DEF Exchange, Exchanges, Ports
<1> HIDE DEF e
<1> QED
  BY <1>1, CheckingFields DEF Stack, e

(* The setters of single registers of the IP stack.                        *)
LEMMA StackPart ==
    ASSUME NEW code \in Nat, NEW what \in Subjects \ {"target", "pair", "programs"},
           NEW arg \in 1 .. 3
    PROVE  /\ IsPart(Writing(Stack(code, what, arg)))
           /\ IsPart(Checking(Writing(Stack(code, what, arg)), "status"))
           /\ Writing(Stack(code, what, arg)).scope = "fpga"
           /\ Checking(Writing(Stack(code, what, arg)), "status").scope = "fpga"
<1> DEFINE e == Stack(code, what, arg)
<1>1. /\ e \in Exchanges /\ e.scope = "fpga" /\ e.what = what
      /\ e.arg = arg /\ e.fails = "stop" /\ e.group = 0
  BY StackFields
<1> HIDE DEF e
<1> DEFINE w == Writing(e)
<1>2. /\ w \in Exchanges /\ w.scope = "fpga" /\ w.what = what /\ w.write
      /\ w.arg = arg /\ w.fails = "stop" /\ w.group = 0
  BY <1>1, WritingFields
<1> HIDE DEF w
<1> DEFINE c == Checking(w, "status")
<1>3. /\ c \in Exchanges /\ c.scope = "fpga" /\ c.what = what /\ c.write
      /\ c.arg = arg /\ c.fails = "stop" /\ c.group = 0
  BY <1>2, CheckingFields
<1> HIDE DEF c
<1> QED
  BY <1>2, <1>3 DEF IsPart, c, w, e

LEMMA Singleton ==
    ASSUME NEW name, NEW e, IsPart(e), e.scope = "fpga"
    PROVE  InOrder(Handler(name, <<e>>, "all"))
<1> DEFINE h == Handler(name, <<e>>, "all")
<1>1. h.steps = <<e>> /\ h.tells = "all"
  BY DEF Handler
<1> HIDE DEF h
<1>2. h.steps \in Seq(Exchanges) /\ Len(h.steps) = 1
  BY <1>1 DEF IsPart
<1>3. h.steps[1] = e
  BY <1>1
<1>4. \A i \in 1 .. 1 : IsPart(h.steps[i]) /\ h.steps[i].scope # "output"
  BY <1>3
<1>5. 1 \in Nat /\ 1 # 0
  OBVIOUS
<1>6. InOrder(h)
  BY <1>1, <1>2, <1>4, <1>5, PartsInOrder, Zenon
<1> QED
  BY <1>6 DEF h

(* The registers of the core of an output.                                 *)
LEMMA CorePart ==
    ASSUME NEW i \in 1 .. 3 PROVE IsPart(Writing(KeyRegisters[i]))
<1>1. ASSUME NEW what \in {"lsb", "msb", "key_id"}, NEW arg \in 1 .. 3
      PROVE  IsPart(Writing(Core(what, arg)))
  <2> DEFINE e == Core(what, arg)
  <2>1. /\ e \in Exchanges /\ e.scope = "output" /\ e.what = what
        /\ e.arg = arg /\ e.fails = "stop" /\ e.group = 0
    BY DEF Core, Exchange, Exchanges, Ports, Subjects
  <2> HIDE DEF e
  <2> DEFINE w == Writing(e)
  <2>2. /\ w \in Exchanges /\ w.scope = "output" /\ w.what = what /\ w.write
        /\ w.arg = arg /\ w.fails = "stop" /\ w.group = 0
    BY <2>1, WritingFields
  <2> HIDE DEF w
  <2> QED
    BY <2>2 DEF IsPart, w, e
<1>2. /\ KeyRegisters[1] = Core("lsb", 1) /\ KeyRegisters[2] = Core("msb", 2)
      /\ KeyRegisters[3] = Core("key_id", 3)
  BY DEF KeyRegisters
<1>3. i = 1 \/ i = 2 \/ i = 3
  OBVIOUS
<1> QED
  BY <1>1, <1>2, <1>3

(* The keys of an output: the board, then three registers of its core.     *)
LEMMA KeySetter == InOrder(setDVBCSAKey)
<1> DEFINE h == setDVBCSAKey
           part(i) == Writing(KeyRegisters[i])
<1>1. \A i \in 1 .. 3 : IsPart(part(i))
  BY CorePart
<1>2. h.steps = <<Board>> \o [i \in 1 .. 3 |-> part(i)] /\ h.tells = "all"
  BY DEF setDVBCSAKey, Handler
<1> HIDE DEF h, part
<1>3. <<Board>> \in Seq(Exchanges) /\ [i \in 1 .. 3 |-> part(i)] \in Seq(Exchanges)
  BY <1>1, BoardFields DEF IsPart
<1>4. /\ h.steps \in Seq(Exchanges) /\ Len(h.steps) = 4 /\ h.steps[1] = Board
      /\ \A i \in 2 .. 4 : h.steps[i] = part(i - 1)
  BY <1>2, <1>3
<1>5. \A i \in 1 .. 4 : IsPart(h.steps[i]) \/ (i = 1 /\ h.steps[i] = Board)
  BY <1>1, <1>4
<1>6. \A i \in 1 .. 4 : h.steps[i].scope = "output" => h.steps[1] = Board
  BY <1>4
<1>7. 4 \in Nat /\ 4 # 0
  OBVIOUS
<1>8. InOrder(h)
  BY <1>2, <1>4, <1>5, <1>6, <1>7, PartsInOrder, Zenon
<1> QED
  BY <1>8 DEF h

(* One of these registers alone.                                           *)
LEMMA CoreSetter == ASSUME NEW k \in 1 .. 3 PROVE InOrder(setCore(k))
<1> DEFINE h == setCore(k)
           part == Writing(KeyRegisters[k])
<1>1. IsPart(part)
  BY CorePart
<1>2. h.steps = <<Board, part>> /\ h.tells = "all"
  BY DEF setCore, Handler
<1> HIDE DEF h, part
<1>3. /\ h.steps \in Seq(Exchanges) /\ Len(h.steps) = 2
      /\ h.steps[1] = Board /\ h.steps[2] = part
  BY <1>1, <1>2, BoardFields DEF IsPart
<1>4. \A i \in 1 .. 2 : IsPart(h.steps[i]) \/ (i = 1 /\ h.steps[i] = Board)
  BY <1>1, <1>3
<1>5. \A i \in 1 .. 2 : h.steps[i].scope = "output" => h.steps[1] = Board
  BY <1>3
<1>6. 2 \in Nat /\ 2 # 0
  OBVIOUS
<1>7. InOrder(h)
  BY <1>2, <1>3, <1>4, <1>5, <1>6, PartsInOrder, Zenon
<1> QED
  BY <1>7 DEF h

(* The MAC address: two registers of the IP stack.                         *)
LEMMA AddressSetter == InOrder(setFpgaMACAddress)
<1> DEFINE h == setFpgaMACAddress
           part(i) == Writing(MacRegisters[i])
<1>1. MacRegisters[1] = Stack(12, "mac_lsb", 1) /\ MacRegisters[2] = Stack(16, "mac_msb", 2)
  BY DEF MacRegisters
<1>2. "mac_lsb" \in Subjects \ {"target", "pair", "programs"}
      /\ "mac_msb" \in Subjects \ {"target", "pair", "programs"}
  BY DEF Subjects
<1>3. \A i \in 1 .. 2 : IsPart(part(i)) /\ part(i).scope = "fpga"
  BY <1>1, <1>2, StackPart
<1>4. h.steps = [i \in 1 .. 2 |-> part(i)] /\ h.tells = "all"
  BY DEF setFpgaMACAddress, Handler
<1> HIDE DEF h, part
<1>5. h.steps \in Seq(Exchanges) /\ Len(h.steps) = 2
  BY <1>3, <1>4 DEF IsPart
<1>6. \A i \in 1 .. 2 : IsPart(h.steps[i]) \/ (i = 1 /\ h.steps[i] = Board)
  BY <1>3, <1>4
<1>7. \A i \in 1 .. 2 : h.steps[i].scope = "output" => h.steps[1] = Board
  BY <1>3, <1>4
<1>8. 2 \in Nat /\ 2 # 0
  OBVIOUS
<1>9. InOrder(h)
  BY <1>4, <1>5, <1>6, <1>7, <1>8, PartsInOrder, Zenon
<1> QED
  BY <1>9 DEF h

Setters ==
    {setCore(k) : k \in 1 .. 3} \union
    {setDVBCSAKey, setFpgaMACAddress, setSubnetmask, setIpgateway, setIpmulticast,
     setFpgaipDhcp, setUDPportSource, setUDPportDestination, setUDPChannelNumber,
     setIGMPChannelNumber}

LEMMA SettersInOrder == \A h \in Setters : InOrder(h)
<1> DEFINE Registers == Subjects \ {"target", "pair", "programs"}
<1>1. {"mask", "gateway", "multicast", "dhcp_ip", "source_port", "destination_port",
       "udp_channel", "igmp_channel"} \subseteq Registers
  BY DEF Subjects
<1> HIDE DEF Registers
<1>2. ASSUME NEW name, NEW code \in Nat, NEW what \in Registers
      PROVE  InOrder(AddressWriter(name, code, what)) /\ InOrder(NumberWriter(name, code, what))
  BY StackPart, Singleton DEF AddressWriter, NumberWriter, Registers
<1>3. /\ InOrder(setSubnetmask) /\ InOrder(setIpgateway) /\ InOrder(setIpmulticast)
      /\ InOrder(setFpgaipDhcp)
  BY <1>1, <1>2 DEF setSubnetmask, setIpgateway, setIpmulticast, setFpgaipDhcp
<1>4. /\ InOrder(setUDPportSource) /\ InOrder(setUDPportDestination)
      /\ InOrder(setUDPChannelNumber) /\ InOrder(setIGMPChannelNumber)
  BY <1>1, <1>2 DEF setUDPportSource, setUDPportDestination, setUDPChannelNumber,
                    setIGMPChannelNumber
<1> QED
  BY <1>3, <1>4, KeySetter, CoreSetter, AddressSetter DEF Setters

(* So nothing is left to assume where the clients only set.                *)
THEOREM CatalogueSetters == ASSUME Handlers \subseteq Setters PROVE Spec => []AsTold
<1>1. Ordered
  BY SettersInOrder DEF Ordered
<1> QED
  BY <1>1, SettersDoAsTold
===============================================================================
