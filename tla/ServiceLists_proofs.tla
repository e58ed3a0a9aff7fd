-------------------------- MODULE ServiceLists_proofs --------------------------
(***************************************************************************)
(* Theorems about ServiceLists: on a controller with one board and one     *)
(* worker, rewriting whole lists from the database loses nothing.          *)
(***************************************************************************)
EXTENDS ServiceLists, TLAPS

LEMMA RequestType ==
    ASSUME NEW r \in Requests
    PROVE  /\ r.k \in Kinds /\ r.b \in Boards /\ r.c \in Chans
           /\ r.ps \in SUBSET Programs /\ r.v \in Vals
           /\ r.do \in {"set", "drop", "flush"}
           /\ ListOf(r) \in Lists
  BY DEF Requests, ListOf, Lists

LEMMA SavedType ==
    ASSUME NEW r \in Requests, NEW l \in Lists, rows \in [Lists -> Contents]
    PROVE  Saved(r, l) \in Contents
  BY RequestType DEF Saved, Contents, Empty

LEMMA SentType ==
    ASSUME NEW w \in Workers, TypeOK, op[w] \in Requests
    PROVE  Sent(w) \in Contents
  BY RequestType DEF TypeOK, Sent, Contents

LEMMA ReplacedType ==
    ASSUME NEW w \in Workers, TypeOK, op[w] \in Requests
    PROVE  Replaced(w) \in [Lists -> Contents]
  BY SentType DEF TypeOK, Replaced

(* Every variable keeps its type, for any number of workers and boards.    *)
THEOREM TypeCorrect == Spec => []TypeOK
<1>1. Init => TypeOK
  BY ListsAssumption DEF Init, TypeOK, Contents, Empty
<1>2. TypeOK /\ [Next]_vars => TypeOK'
  <2> SUFFICES ASSUME TypeOK, [Next]_vars PROVE TypeOK'
    OBVIOUS
  <2> USE DEF TypeOK
  <2>1. ASSUME NEW w \in Workers, GetProgramList(w) PROVE TypeOK'
    BY <2>1 DEF GetProgramList, SelectsInPart, Selects
  <2>2. ASSUME NEW w \in Workers, Accept(w) PROVE TypeOK'
    BY <2>2, ListsAssumption DEF Accept
  <2>3. ASSUME NEW w \in Workers, Select(w) PROVE TypeOK'
    BY <2>3, RequestType DEF Select, Selects, SelectsForFlush
  <2>4. ASSUME NEW w \in Workers, SelectFails(w) PROVE TypeOK'
    BY <2>4, RequestType DEF SelectFails, Fail, SelectsInPart, Selects
  <2>5. ASSUME NEW w \in Workers, Read(w) PROVE TypeOK'
    BY <2>5 DEF Read, Existing
  <2>6. ASSUME NEW w \in Workers, Send(w) PROVE TypeOK'
    BY <2>6, ReplacedType DEF Send
  <2>7. ASSUME NEW w \in Workers, SendFails(w) PROVE TypeOK'
    BY <2>7, ReplacedType DEF SendFails, Fail
  <2>8. ASSUME NEW w \in Workers, Save(w) PROVE TypeOK'
    BY <2>8, SavedType DEF Save
  <2>9. CASE UNCHANGED vars
    BY <2>9 DEF vars
  <2> QED
    BY <2>1, <2>2, <2>3, <2>4, <2>5, <2>6, <2>7, <2>8, <2>9 DEF Next, WorkerStep
<1> QED
  BY <1>1, <1>2, PTL DEF Spec

-------------------------------------------------------------------------------
(* One worker and one board: the selection of a request stays in force     *)
(* until its list is sent, and what it read is still what is saved.        *)
Alone ==
    /\ \A v, w \in Workers : v = w
    /\ \A b, d \in Boards : b = d

InForce(w) == target = op[w].b /\ (op[w].do # "flush" => sel[target] = op[w].c)

UpToDate(w) ==
    op[w].do # "flush" =>
       \A p \in Programs : seen[w][p] = IF p \in op[w].ps THEN None ELSE rows[ListOf(op[w])][p]

Busy(w) ==
    /\ WellFormed(op[w])
    /\ \A p \in op[w].ps : IsKnown(p)
    /\ \A l \in Lists : Concerns(op[w], l) => last[l] = "busy"

SavedAreKnown == \A l \in Lists, p \in Programs : rows[l][p] # None => IsKnown(p)

Rewriting ==
    /\ \A w \in Workers :
          /\ pc[w] # "idle" => Busy(w)
          /\ pc[w] \in {"read", "send"} => InForce(w)
          /\ pc[w] = "read" => op[w].do # "flush"
          /\ pc[w] = "send" => UpToDate(w)
          /\ pc[w] = "save" => \A l \in Lists : Concerns(op[w], l) => hw[l] = Saved(op[w], l)
    /\ SavedAreKnown
    /\ AcknowledgedListsAgree

LEMMA RewritingInit == Init => Rewriting
  BY DEF Init, Rewriting, SavedAreKnown, AcknowledgedListsAgree, Empty

(* What the board does with the list that is sent ...                      *)
LEMMA ReplacedLists ==
    ASSUME Alone, TypeOK, Rewriting, NEW w \in Workers, pc[w] = "send", NEW l \in Lists
    PROVE  /\ Concerns(op[w], l) => Replaced(w)[l] = Saved(op[w], l)
           /\ ~Concerns(op[w], l) => Replaced(w)[l] = hw[l]
<1> DEFINE r == op[w]
<1>1. r \in Requests /\ WellFormed(r) /\ InForce(w) /\ UpToDate(w)
  BY DEF TypeOK, Rewriting, Busy
<1>2. r.b = target /\ (r.do # "flush" => sel[target] = r.c)
  BY <1>1 DEF InForce
<1>3. l = <<l[1], l[2], l[3]>>
  BY DEF Lists
<1>4. Replaced(w)[l] = IF Concerns(r, l) THEN Sent(w) ELSE hw[l]
  BY <1>1, <1>2, <1>3 DEF Replaced, Concerns, ListOf
<1>5. ASSUME Concerns(r, l) PROVE Sent(w) = Saved(r, l)
  <2>1. CASE r.do = "flush"
    <3>1. Sent(w) = [p \in Programs |-> None]
      BY <2>1 DEF Sent
    <3>2. Saved(r, l) = [p \in Programs |-> None]
      BY <1>5, <2>1 DEF Saved, Concerns, Empty
    <3> QED
      BY <3>1, <3>2
  <2>2. CASE r.do = "drop"
    <3>1. Sent(w) = [p \in Programs |-> seen[w][p]]
      BY <2>2 DEF Sent
    <3>2. Saved(r, l) = [p \in Programs |-> IF p \in r.ps THEN None ELSE rows[l][p]]
      BY <1>5, <2>2 DEF Saved, Concerns
    <3>3. \A p \in Programs : seen[w][p] = IF p \in r.ps THEN None ELSE rows[l][p]
      BY <1>1, <1>5, <2>2 DEF UpToDate, Concerns
    <3> QED
      BY <3>1, <3>2, <3>3
  <2>3. CASE r.do = "set"
    <3>1. \A p \in Programs : ~DuplicateKey(r, p)
      BY <1>1, RequestType DEF DuplicateKey, Alone
    <3> QED
      BY <1>1, <1>5, <2>3, <3>1 DEF Sent, Saved, Concerns, UpToDate
  <2> QED
    BY <1>1, <2>1, <2>2, <2>3, RequestType
<1> QED
  BY <1>4, <1>5

(* ... and what the query returned is what is saved.                       *)
LEMMA ReadIsCurrent ==
    ASSUME Alone, TypeOK, Rewriting, NEW w \in Workers, pc[w] = "read",
           NEW g \in Existing(op[w])
    PROVE  \A p \in Programs : g[p] = IF p \in op[w].ps THEN None ELSE rows[ListOf(op[w])][p]
<1> DEFINE r == op[w]
<1>1. r \in Requests /\ r.b \in Boards /\ ListOf(r) \in Lists /\ ListOf(r) = <<r.k, r.b, r.c>>
  BY RequestType DEF TypeOK, ListOf
<1>2. \A b \in Queried(r) : b = r.b
  BY <1>1 DEF Queried, Alone
<1>3. r.b \in Queried(r)
  BY <1>1 DEF Queried
<1>4. SUFFICES ASSUME NEW p \in Programs, p \notin r.ps
               PROVE  g[p] = rows[ListOf(r)][p]
  BY DEF Existing
<1> DEFINE vs == {rows[<<r.k, b, r.c>>][p] : b \in Queried(r)} \ {None}
<1>5. IF ~IsKnown(p) \/ vs = {} THEN g[p] = None ELSE g[p] \in vs
  BY <1>4 DEF Existing
<1>6. vs = {rows[ListOf(r)][p]} \ {None}
  BY <1>1, <1>2, <1>3
<1>7. rows[ListOf(r)][p] # None => IsKnown(p)
  BY <1>1 DEF Rewriting, SavedAreKnown
<1> QED
  BY <1>5, <1>6, <1>7

(* A step that only adds to the program list disturbs nothing.             *)
LEMMA Unmoved ==
    ASSUME Rewriting, UNCHANGED <<pc, op, seen, target, sel, hw, rows, last>>,
           \A p : IsKnown(p) => IsKnown(p)'
    PROVE  Rewriting'
<1>1. \A w \in Workers : Busy(w) => Busy(w)'
  BY DEF Busy, WellFormed, Concerns, ListOf
<1>2. \A w \in Workers : InForce(w)' = InForce(w)
  BY DEF InForce
<1>3. \A w \in Workers : UpToDate(w)' = UpToDate(w)
  BY DEF UpToDate, ListOf
<1>4. \A w \in Workers, l \in Lists : /\ Saved(op[w], l)' = Saved(op[w], l)
                                     /\ Concerns(op[w], l)' = Concerns(op[w], l)
  BY DEF Saved, ListOf, DuplicateKey, Concerns
<1>5. SavedAreKnown' /\ AcknowledgedListsAgree'
  BY DEF Rewriting, SavedAreKnown, AcknowledgedListsAgree
<1> QED
  BY <1>1, <1>2, <1>3, <1>4, <1>5 DEF Rewriting

LEMMA RewritingStep ==
    ASSUME Alone, TypeOK, TypeOK', Rewriting, [Next]_vars
    PROVE  Rewriting'
<1> USE DEF Rewriting
<1>1. ASSUME NEW w \in Workers, GetProgramList(w) PROVE Rewriting'
  <2>1. \A p : IsKnown(p) => IsKnown(p)'
    BY <1>1 DEF GetProgramList, IsKnown
  <2>2. pc[w] = "idle" /\ UNCHANGED <<pc, op, seen, hw, rows, last>>
    BY <1>1 DEF GetProgramList
  <2>3. \A v \in Workers : v = w
    BY DEF Alone
  <2>4. SavedAreKnown' /\ AcknowledgedListsAgree'
    BY <2>1, <2>2 DEF SavedAreKnown, AcknowledgedListsAgree
  <2> QED
    BY <2>2, <2>3, <2>4
<1>2. ASSUME NEW w \in Workers, Accept(w) PROVE Rewriting'
  <2>1. PICK r \in Requests :
          /\ WellFormed(r)
          /\ \A p \in r.ps : <<r.b, p>> \in known
          /\ op' = [op EXCEPT ![w] = r]
          /\ last' = [l \in Lists |-> IF Concerns(r, l) THEN "busy" ELSE last[l]]
    BY <1>2 DEF Accept
  <2>2. pc'[w] = "select" /\ op'[w] = r /\ UNCHANGED <<hw, rows, known>>
    BY <1>2, <2>1 DEF Accept, TypeOK
  <2>3. \A v \in Workers : v = w
    BY DEF Alone
  <2>4. \A p \in r.ps : IsKnown(p)
    BY <2>1, RequestType DEF IsKnown
  <2>5. Busy(w)'
    BY <2>1, <2>2, <2>4 DEF Busy, WellFormed, Concerns, ListOf, IsKnown
  <2>6. SavedAreKnown'
    BY <2>2 DEF SavedAreKnown, IsKnown
  <2>7. AcknowledgedListsAgree'
    BY <2>1, <2>2 DEF AcknowledgedListsAgree
  <2> QED
    BY <2>2, <2>3, <2>5, <2>6, <2>7
<1>3. ASSUME NEW w \in Workers, Select(w) PROVE Rewriting'
  <2>1. op[w] \in Requests /\ Busy(w)
    BY <1>3 DEF Select, TypeOK
  <2>2. /\ target' = op[w].b
        /\ pc'[w] = IF op[w].do = "flush" THEN "send" ELSE "read"
        /\ op[w].do # "flush" => sel' = [sel EXCEPT ![op[w].b] = op[w].c]
        /\ UNCHANGED <<op, seen, hw, rows, known, last>>
    BY <1>3 DEF Select, Selects, SelectsForFlush, TypeOK
  <2>3. InForce(w)'
    BY <2>1, <2>2, RequestType DEF InForce, TypeOK
  <2>4. Busy(w)' /\ SavedAreKnown' /\ AcknowledgedListsAgree'
    BY <2>1, <2>2
    DEF Busy, WellFormed, Concerns, ListOf, IsKnown, SavedAreKnown, AcknowledgedListsAgree
  <2>5. pc'[w] = "send" => UpToDate(w)'
    BY <2>2 DEF UpToDate
  <2>6. \A v \in Workers : v = w
    BY DEF Alone
  <2> QED
    BY <2>2, <2>3, <2>4, <2>5, <2>6
<1>4. ASSUME NEW w \in Workers, SelectFails(w) \/ SendFails(w) PROVE Rewriting'
  <2>1. /\ pc'[w] = "idle"
        /\ last' = [l \in Lists |-> IF Concerns(op[w], l) THEN "error" ELSE last[l]]
        /\ UNCHANGED <<rows, known>>
    BY <1>4 DEF SelectFails, SendFails, Fail, TypeOK
  <2>2. \A v \in Workers : v = w
    BY DEF Alone
  <2>3. \A l \in Lists : ~Concerns(op[w], l) => hw'[l] = hw[l]
    BY <1>4, ReplacedLists DEF SelectFails, SendFails
  <2>4. SavedAreKnown'
    BY <2>1 DEF SavedAreKnown, IsKnown
  <2>5. AcknowledgedListsAgree'
    BY <2>1, <2>3 DEF AcknowledgedListsAgree
  <2> QED
    BY <2>1, <2>2, <2>4, <2>5
<1>5. ASSUME NEW w \in Workers, Read(w) PROVE Rewriting'
  <2>1. PICK g \in Existing(op[w]) : seen' = [seen EXCEPT ![w] = g]
    BY <1>5 DEF Read
  <2>2. pc[w] = "read" /\ pc'[w] = "send" /\ seen'[w] = g
        /\ UNCHANGED <<op, target, sel, hw, rows, known, last>>
    BY <1>5, <2>1 DEF Read, TypeOK
  <2>3. UpToDate(w)'
    BY <2>2, ReadIsCurrent DEF UpToDate, ListOf
  <2>4. InForce(w)' /\ Busy(w)' /\ SavedAreKnown' /\ AcknowledgedListsAgree'
    BY <2>2
    DEF InForce, Busy, WellFormed, Concerns, ListOf, IsKnown, SavedAreKnown, AcknowledgedListsAgree
  <2>5. \A v \in Workers : v = w
    BY DEF Alone
  <2> QED
    BY <2>2, <2>3, <2>4, <2>5
<1>6. ASSUME NEW w \in Workers, Send(w) PROVE Rewriting'
  <2>1. /\ pc[w] = "send" /\ pc'[w] = "save" /\ hw' = Replaced(w)
        /\ UNCHANGED <<op, rows, known, last>>
    BY <1>6 DEF Send, TypeOK
  <2>2. \A l \in Lists : /\ Concerns(op[w], l) => hw'[l] = Saved(op[w], l)
                         /\ ~Concerns(op[w], l) => hw'[l] = hw[l]
    BY <2>1, ReplacedLists
  <2>3. \A l \in Lists : Saved(op[w], l)' = Saved(op[w], l)
    BY <2>1 DEF Saved, ListOf, DuplicateKey
  <2>4. Busy(w)' /\ SavedAreKnown'
    BY <2>1 DEF Busy, WellFormed, Concerns, ListOf, IsKnown, SavedAreKnown
  <2>5. AcknowledgedListsAgree'
    BY <2>1, <2>2 DEF Busy, AcknowledgedListsAgree
  <2>6. \A v \in Workers : v = w
    BY DEF Alone
  <2> QED
    BY <2>1, <2>2, <2>3, <2>4, <2>5, <2>6 DEF Concerns, ListOf
<1>7. ASSUME NEW w \in Workers, Save(w) PROVE Rewriting'
  <2>1. /\ pc[w] = "save" /\ pc'[w] = "idle" /\ op[w] \in Requests /\ Busy(w)
        /\ rows' = [l \in Lists |-> Saved(op[w], l)]
        /\ last' = [l \in Lists |-> IF Concerns(op[w], l) THEN "ok" ELSE last[l]]
        /\ UNCHANGED <<hw, known>>
    BY <1>7 DEF Save, TypeOK
  <2>2. \A v \in Workers : v = w
    BY DEF Alone
  <2>3. ASSUME NEW l \in Lists, ~Concerns(op[w], l) PROVE Saved(op[w], l) = rows[l]
    <3>1. op[w].b = l[2]
      BY <2>1, RequestType DEF Alone, Lists
    <3>2. CASE op[w].do = "flush"
      BY <2>3, <3>1, <3>2 DEF Saved, Concerns
    <3>3. CASE op[w].do # "flush"
      BY <2>3, <3>3 DEF Saved, Concerns
    <3> QED
      BY <3>2, <3>3
  <2>4. ASSUME NEW l \in Lists, NEW p \in Programs, Saved(op[w], l)[p] # None
        PROVE  rows[l][p] # None \/ p \in op[w].ps
    <3>1. CASE l # ListOf(op[w]) \/ op[w].do = "flush"
      BY <2>4, <3>1 DEF Saved, Empty
    <3>2. CASE l = ListOf(op[w]) /\ op[w].do = "drop"
      BY <2>4, <3>2 DEF Saved
    <3>3. CASE l = ListOf(op[w]) /\ op[w].do = "set"
      BY <2>4, <3>3 DEF Saved
    <3> QED
      BY <2>1, <3>1, <3>2, <3>3, RequestType
  <2>5. SavedAreKnown'
    BY <2>1, <2>4 DEF SavedAreKnown, IsKnown, Busy
  <2>6. AcknowledgedListsAgree'
    BY <2>1, <2>3 DEF AcknowledgedListsAgree
  <2> QED
    BY <2>1, <2>2, <2>5, <2>6
<1>8. CASE UNCHANGED vars
  BY <1>8, Unmoved DEF vars, IsKnown
<1> QED
  BY <1>1, <1>2, <1>3, <1>4, <1>5, <1>6, <1>7, <1>8 DEF Next, WorkerStep

(* With one board and one worker, whatever commands were refused or lost:  *)
(* a list whose last request succeeded holds exactly the saved rows ...    *)
THEOREM AcknowledgedAgree == Alone /\ Spec => []AcknowledgedListsAgree
<1> SUFFICES ASSUME Alone PROVE Spec => []AcknowledgedListsAgree
  OBVIOUS
<1>1. Init => Rewriting
  BY RewritingInit
<1>2. TypeOK /\ TypeOK' /\ Rewriting /\ [Next]_vars => Rewriting'
  BY RewritingStep
<1>3. Rewriting => AcknowledgedListsAgree
  BY DEF Rewriting
<1> QED
  BY <1>1, <1>2, <1>3, TypeCorrect, PTL DEF Spec

(* ... and no request drops a service it does not name.                    *)
Drops(l, p) == rows[l][p] # None /\ hw[l][p] = rows[l][p] /\ hw'[l][p] # hw[l][p]

LEMMA DropIsAsked ==
    ASSUME Alone, TypeOK, Rewriting, NEW w \in Workers, pc[w] = "send", hw' = Replaced(w),
           NEW l \in Lists, NEW p \in Programs, Drops(l, p)
    PROVE  Touched(l, p)
<1>1. op[w] \in Requests
  BY DEF TypeOK
<1>2. Concerns(op[w], l) /\ hw'[l] = Saved(op[w], l)
  BY ReplacedLists DEF Drops
<1>3. op[w].do # "flush" /\ p \notin op[w].ps => Saved(op[w], l)[p] = rows[l][p]
  BY <1>1, <1>2, RequestType DEF Saved, Concerns
<1> QED
  BY <1>2, <1>3 DEF Drops, Touched

THEOREM NothingDropped == Alone /\ Spec => NoServiceDropped
<1> SUFFICES ASSUME Alone PROVE Spec => NoServiceDropped
  OBVIOUS
<1>1. Init => Rewriting
  BY RewritingInit
<1>2. TypeOK /\ TypeOK' /\ Rewriting /\ [Next]_vars => Rewriting'
  BY RewritingStep
<1>3. TypeOK /\ Rewriting /\ [Next]_vars
        => [\A l \in Lists, p \in Programs :
              /\ rows[l][p] # None
              /\ hw[l][p] = rows[l][p]
              /\ hw'[l][p] # hw[l][p]
              => Touched(l, p)]_vars
  <2> SUFFICES ASSUME TypeOK, Rewriting, [Next]_vars,
                      NEW l \in Lists, NEW p \in Programs, Drops(l, p)
               PROVE  Touched(l, p)
    BY DEF Drops
  <2>1. ASSUME hw' = hw PROVE FALSE
    BY <2>1 DEF Drops
  <2>2. \E w \in Workers : pc[w] = "send" /\ hw' = Replaced(w)
    BY <2>1 DEF Next, WorkerStep, GetProgramList, Accept, Select, SelectFails, Read, Send,
                SendFails, Save, vars
  <2> QED
    BY <2>2, DropIsAsked
<1> QED
  BY <1>1, <1>2, <1>3, TypeCorrect, PTL DEF Spec, NoServiceDropped
==============================================================================
