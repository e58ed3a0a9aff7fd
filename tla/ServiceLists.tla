----------------------------- MODULE ServiceLists -----------------------------
(***************************************************************************)
(* The service lists of the boards (examples/rest_server.cc, the handlers  *)
(* of commands 11, 36, 37, 40, 41 and 42) and the tables that mirror them  *)
(* (src/common/dbHandler.cc, rmx_contr_db.sql).                            *)
(*                                                                         *)
(* A board keeps, per input/output pair, a list of programs for each kind: *)
(* LCN numbers, locked PIDs, high-priority services, PMT alarms, programs  *)
(* whose CA descriptors are erased, and programs kept in the output.  A    *)
(* command replaces the whole list.  To add one program a handler selects  *)
(* the pair, reads the other programs back from the database, sends the    *)
(* union, and saves a row: a read-modify-write without a transaction.      *)
(*                                                                         *)
(* An exchange with the board is one step here; RmxControl takes it apart. *)
(***************************************************************************)
EXTENDS Naturals, FiniteSets

CONSTANTS
    Workers,      \* the worker threads of the HTTP endpoint
    Boards,       \* the remultiplexer boards (rmx_no)
    Chans,        \* the input/output pairs that can be selected
    Programs,     \* program numbers
    Vals,         \* what a program is listed with: LCN numbers, alarm states
    Listed,       \* the value of a bare membership, one of Vals
    Kinds,        \* the kinds of lists in use, some of AllKinds
    MaxRequests,  \* bound: how many requests the clients send
    None          \* no row, no list entry, no request

AllKinds == {"lcn", "locked", "priority", "pmt", "freeca", "active"}

ASSUME ListsAssumption ==
    /\ Kinds \subseteq AllKinds
    /\ MaxRequests \in Nat
    /\ None \notin Vals
    /\ Listed \in Vals

VARIABLES
    pc,      \* pc[w]: where worker w is in its request
    op,      \* op[w]: the request of worker w
    seen,    \* seen[w]: the other programs it read from the database
    target,  \* the board-select register
    sel,     \* sel[b]: the pair selected on board b
    hw,      \* hw[l]: list l on its board, a value for each listed program
    rows,    \* rows[l]: the rows of list l in its table
    known,   \* the rows <<board, program>> of channel_list
    count,   \* requests accepted so far
    last     \* ghost: what the client was last told about list l

vars == <<pc, op, seen, target, sel, hw, rows, known, count, last>>

Lists == Kinds \X Boards \X Chans
Contents == [Programs -> Vals \cup {None}]
Empty == [p \in Programs |-> None]

(* "set" adds programs (setKeepProg several, the others one), "drop" is    *)
(* setKeepProg with includeFlag 0, "flush" empties the lists of a board.   *)
Requests == [do : {"set", "drop", "flush"}, k : Kinds, b : Boards, c : Chans,
             ps : SUBSET Programs, v : Vals]

WellFormed(r) ==
    /\ r.v = Listed \/ (r.do = "set" /\ r.k \in {"lcn", "pmt"})
    /\ CASE r.do = "set"  -> r.ps # {} /\ (r.k = "active" \/ Cardinality(r.ps) = 1)
         [] r.do = "drop" -> r.ps # {} /\ r.k = "active"
         [] OTHER         -> r.ps = {} /\ r.k \in {"locked", "priority", "freeca"}

ListOf(r) == <<r.k, r.b, r.c>>

(* The lists a request is about.                                           *)
Concerns(r, l) == IF r.do = "flush" THEN l[1] = r.k /\ l[2] = r.b ELSE l = ListOf(r)

TypeOK ==
    /\ pc \in [Workers -> {"idle", "select", "read", "send", "save"}]
    /\ op \in [Workers -> Requests \cup {None}]
    /\ \A w \in Workers : pc[w] # "idle" => op[w] \in Requests
    /\ seen \in [Workers -> Contents]
    /\ target \in Boards
    /\ sel \in [Boards -> Chans]
    /\ hw \in [Lists -> Contents]
    /\ rows \in [Lists -> Contents]
    /\ known \subseteq Boards \X Programs
    /\ count \in 0 .. MaxRequests
    /\ last \in [Lists -> {"none", "busy", "ok", "error"}]

Init ==
    /\ pc = [w \in Workers |-> "idle"]
    /\ op = [w \in Workers |-> None]
    /\ seen = [w \in Workers |-> Empty]
    /\ target \in Boards
    /\ sel \in [Boards -> Chans]
    /\ hw = [l \in Lists |-> Empty]
    /\ rows = [l \in Lists |-> Empty]
    /\ known = {}
    /\ count = 0
    /\ last = [l \in Lists |-> "none"]

-------------------------------------------------------------------------------
(* The database.                                                           *)

(* The queries join channel_list on channel_number only: a program counts  *)
(* as known when any board has reported it.                                *)
IsKnown(p) == \E b \in Boards : <<b, p>> \in known

(* The boards whose rows a query returns.  Only the one for active_service_list *)
(* has a rmx_id in its WHERE clause.                                       *)
Queried(r) == IF r.k = "active" THEN {r.b} ELSE Boards

(* What getActivePrograms, getLcnNumbers, ... (input, ..., programs) may   *)
(* return: the known programs but those of the request.  Two boards with   *)
(* different values give two entries for a program; the board keeps one.   *)
Existing(r) ==
    {g \in Contents : \A p \in Programs :
        LET vs == {rows[<<r.k, b, r.c>>][p] : b \in Queried(r)} \ {None}
        IN  IF p \in r.ps \/ ~IsKnown(p) \/ vs = {} THEN g[p] = None ELSE g[p] \in vs}

(* active_service_list has a second unique key (in, out, program) without  *)
(* rmx_id: an INSERT that meets the row of another board falls into its    *)
(* ON DUPLICATE KEY UPDATE channel_num = channel_num and inserts nothing.  *)
DuplicateKey(r, p) ==
    r.k = "active" /\ \E b \in Boards \ {r.b} : rows[<<r.k, b, r.c>>][p] # None

(* Mutant: a row that exists is not updated.                               *)
Saved_KeepsFirst(r, l) ==
    CASE r.do = "flush" /\ l[1] = r.k     -> Empty
      [] r.do = "drop" /\ l = ListOf(r)   ->
            [p \in Programs |-> IF p \in r.ps THEN None ELSE rows[l][p]]
      [] r.do = "set" /\ l = ListOf(r)    ->
            [p \in Programs |-> IF p \in r.ps /\ rows[l][p] = None THEN r.v ELSE rows[l][p]]
      [] OTHER                            -> rows[l]

(* What addX, the DELETE of addActivatedPrograms or deleteX leave in the   *)
(* table for list l.  The deletes of a flush have no WHERE clause.         *)
Saved(r, l) ==
    CASE r.do = "flush" /\ l[1] = r.k     -> Empty
      [] r.do = "drop" /\ l = ListOf(r)   ->
            [p \in Programs |-> IF p \in r.ps THEN None ELSE rows[l][p]]
      [] r.do = "set" /\ l = ListOf(r)    ->
            [p \in Programs |-> IF p \in r.ps /\ ~DuplicateKey(r, p) THEN r.v ELSE rows[l][p]]
      [] OTHER                            -> rows[l]

-------------------------------------------------------------------------------
(* The handlers.                                                           *)

(* callSetInputOutput(c, b): it selects the pair, or it fails, having      *)
(* selected nothing, or the board, or both.                                *)
Selects(b, c) == target' = b /\ sel' = [sel EXCEPT ![b] = c]

(* The GET routes of a flush select the board, the POST routes the pair,   *)
(* although the command empties the lists of all pairs.                    *)
SelectsForFlush(b, c) == target' = b /\ sel' \in {sel, [sel EXCEPT ![b] = c]}

SelectsInPart(b, c) ==
    \/ UNCHANGED <<target, sel>>
    \/ target' = b /\ UNCHANGED sel
    \/ Selects(b, c)

(* getProgramList: callGetProgramList selects the input that was selected  *)
(* last and adds a row of channel_list for each program the board reports; *)
(* rows are never deleted.                                                 *)
GetProgramList(w) ==
    /\ pc[w] = "idle"
    /\ \E b \in Boards, c \in Chans :
          \/ /\ Selects(b, c)
             /\ \E ps \in SUBSET Programs : known' = known \cup ({b} \X ps)
          \/ /\ SelectsInPart(b, c)
             /\ UNCHANGED known
    /\ UNCHANGED <<pc, op, seen, hw, rows, count, last>>

(* Mutant: the value is not validated.                                     *)
Accept_NotValidated(w) ==
    /\ pc[w] = "idle"
    /\ count < MaxRequests
    /\ \E v \in Vals \cup {None}, q \in Requests : \E r \in {[q EXCEPT !.v = v]} :
          /\ WellFormed(r)
          /\ \A p \in r.ps : <<r.b, p>> \in known
          /\ op' = [op EXCEPT ![w] = r]
          /\ last' = [l \in Lists |-> IF Concerns(r, l) THEN "busy" ELSE last[l]]
    /\ pc' = [pc EXCEPT ![w] = "select"]
    /\ count' = count + 1
    /\ UNCHANGED <<seen, target, sel, hw, rows, known>>

(* A valid request.  Clients choose programs from the program list.        *)
Accept(w) ==
    /\ pc[w] = "idle"
    /\ count < MaxRequests
    /\ \E r \in Requests :
          /\ WellFormed(r)
          /\ \A p \in r.ps : <<r.b, p>> \in known
          /\ op' = [op EXCEPT ![w] = r]
          /\ last' = [l \in Lists |-> IF Concerns(r, l) THEN "busy" ELSE last[l]]
    /\ pc' = [pc EXCEPT ![w] = "select"]
    /\ count' = count + 1
    /\ UNCHANGED <<seen, target, sel, hw, rows, known>>

Fail(w) ==
    /\ pc' = [pc EXCEPT ![w] = "idle"]
    /\ last' = [l \in Lists |-> IF Concerns(op[w], l) THEN "error" ELSE last[l]]
    /\ UNCHANGED <<op, seen, rows, known, count>>

(* callSetInputOutput, or what selects for a flush.                        *)
Select(w) ==
    /\ pc[w] = "select"
    /\ IF op[w].do = "flush"
       THEN /\ pc' = [pc EXCEPT ![w] = "send"]
            /\ SelectsForFlush(op[w].b, op[w].c)
       ELSE /\ pc' = [pc EXCEPT ![w] = "read"]
            /\ Selects(op[w].b, op[w].c)
    /\ UNCHANGED <<op, seen, hw, rows, known, count, last>>

SelectFails(w) ==
    /\ pc[w] = "select"
    /\ SelectsInPart(op[w].b, op[w].c)
    /\ Fail(w)
    /\ UNCHANGED hw

(* The query for the programs already listed.                              *)
Read(w) ==
    /\ pc[w] = "read"
    /\ \E g \in Existing(op[w]) : seen' = [seen EXCEPT ![w] = g]
    /\ pc' = [pc EXCEPT ![w] = "send"]
    /\ UNCHANGED <<op, target, sel, hw, rows, known, count, last>>

(* Mutant: only the programs of the request are sent.                      *)
Sent_OnlyNew(w) ==
    [p \in Programs |-> IF op[w].do = "set" /\ p \in op[w].ps THEN op[w].v ELSE None]

(* The list a worker sends ...                                             *)
Sent(w) ==
    [p \in Programs |-> IF op[w].do = "set" /\ p \in op[w].ps THEN op[w].v
                        ELSE IF op[w].do = "flush" THEN None ELSE seen[w][p]]

(* ... and its effect: it replaces the list of the pair that is selected   *)
(* now on the board that is selected now (external).  A flush empties the  *)
(* lists of all pairs of that board.                                       *)
Replaced(w) ==
    [l \in Lists |->
        IF /\ l[1] = op[w].k
           /\ l[2] = target
           /\ op[w].do = "flush" \/ l[3] = sel[target]
        THEN Sent(w) ELSE hw[l]]

(* callCommand succeeds: the reply has the status the handler checks for   *)
(* (0 in callEraseCAMod, 1 in the others).                                 *)
Send(w) ==
    /\ pc[w] = "send"
    /\ hw' = Replaced(w)
    /\ pc' = [pc EXCEPT ![w] = "save"]
    /\ UNCHANGED <<op, seen, target, sel, rows, known, count, last>>

(* It fails: the board refused or never got the command, or the reply is   *)
(* lost.                                                                   *)
SendFails(w) ==
    /\ pc[w] = "send"
    /\ hw' \in {hw, Replaced(w)}
    /\ Fail(w)
    /\ UNCHANGED <<target, sel>>

(* The row, and the answer.                                                *)
Save(w) ==
    /\ pc[w] = "save"
    /\ rows' = [l \in Lists |-> Saved(op[w], l)]
    /\ last' = [l \in Lists |-> IF Concerns(op[w], l) THEN "ok" ELSE last[l]]
    /\ pc' = [pc EXCEPT ![w] = "idle"]
    /\ UNCHANGED <<op, seen, target, sel, hw, known, count>>

WorkerStep(w) ==
    \/ GetProgramList(w) \/ Accept(w) \/ Select(w) \/ SelectFails(w) \/ Read(w)
    \/ Send(w) \/ SendFails(w) \/ Save(w)

Next == \E w \in Workers : WorkerStep(w)

Spec == Init /\ [][Next]_vars

-------------------------------------------------------------------------------
(* Properties.                                                             *)

(* When the last request for a list was answered with "error": false, the  *)
(* board holds exactly the rows saved for it, whatever failed before.      *)
AcknowledgedListsAgree ==
    \A l \in Lists : last[l] = "ok" => hw[l] = rows[l]

(* Rewriting a whole list drops no service: a program that is saved and    *)
(* listed stays listed, with its value, unless the request under way names *)
(* it or flushes its list.                                                 *)
Touched(l, p) ==
    \E w \in Workers : pc[w] = "send" /\ Concerns(op[w], l)
                       /\ (op[w].do = "flush" \/ p \in op[w].ps)

NoServiceDropped ==
    [][\A l \in Lists, p \in Programs :
          /\ rows[l][p] # None
          /\ hw[l][p] = rows[l][p]
          /\ hw'[l][p] # hw[l][p]
          => Touched(l, p)]_vars
===============================================================================
