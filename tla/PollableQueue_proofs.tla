------------------------- MODULE PollableQueue_proofs -------------------------
(***************************************************************************)
(* Theorems about PollableQueue: for any number of producers, entries and  *)
(* messages, no entry is touched after its deletion and the list           *)
(* implements MessageQueue.                                                *)
(***************************************************************************)
EXTENDS PollableQueue, SequenceTheorems, TLAPS

(* The inductive invariant.  It speaks of the list through the ghost       *)
(* `chain', since the links themselves may be missing.                     *)
Places == 1 .. Len(chain)

(* The links join neighbours, and nothing follows the head.                *)
Linked ==
    /\ Len(chain) >= 1
    /\ tail = chain[1]
    /\ head = chain[Len(chain)]
    /\ next[head] = Null
    /\ \A i \in Places : i + 1 \in Places => next[chain[i]] \in {Null, chain[i + 1]}

(* No entry is in the list twice.                                          *)
Distinct == \A i, j \in Places : chain[i] = chain[j] => i = j

(* A producer between exchange and link is about to join two neighbours.   *)
(* Until it has, pop does not get past the first of them.                  *)
Joining(p) ==
    \E i \in Places :
        /\ i + 1 \in Places
        /\ prev[p] = chain[i]
        /\ mine[p] = chain[i + 1]
        /\ next[chain[i]] = Null

Gaps == \A p \in Producers : pc[p] = "link" => Joining(p)

(* An entry is in the list, being handled, being pushed, or free.          *)
Owned ==
    /\ \A i \in Places : chain[i] \notin free /\ chain[i] # got
    /\ got # Null => got \notin free
    /\ cpc \in {"poll", "pop"} => got = Null

OwnEntry(p) ==
    /\ mine[p] \in Entries
    /\ mine[p] \notin free
    /\ mine[p] # got
    /\ \A i \in Places : chain[i] # mine[p]
    /\ data[mine[p]] \in Messages
    /\ pc[p] = "exchange" => next[mine[p]] = Null

Pushing == \A p \in Producers : pc[p] \in {"reset", "exchange"} => OwnEntry(p)

Pushes(p) == pc[p] \in {"reset", "exchange", "link"}

OneOwner == \A p, q \in Producers : Pushes(p) /\ Pushes(q) /\ mine[p] = mine[q] => p = q

(* All entries but the tail hold a message, and so does a popped one.      *)
Filled ==
    /\ \A i \in Places : i # 1 => data[chain[i]] \in Messages
    /\ got # Null => data[got] \in Messages

IInv ==
    /\ TypeOK
    /\ Linked
    /\ Distinct
    /\ Gaps
    /\ Owned
    /\ Pushing
    /\ OneOwner
    /\ Filled
-------------------------------------------------------------------------------
(* What Append and Tail do to the places of a list.                        *)
LEMMA ChainLen ==
    ASSUME TypeOK, Linked
    PROVE  /\ Len(chain) \in Nat
           /\ 1 \in Places /\ Len(chain) \in Places
           /\ \A i \in Places : chain[i] \in Entries
           /\ chain # <<>>
  BY LenProperties, EmptySeq, ElementOfSeq DEF TypeOK, Linked, Places

LEMMA Appended ==
    ASSUME TypeOK, Linked, NEW e \in Entries, chain' = Append(chain, e)
    PROVE  /\ chain' \in Seq(Entries)
           /\ Len(chain') = Len(chain) + 1
           /\ Places' = Places \cup {Len(chain) + 1}
           /\ Len(chain) + 1 \notin Places
           /\ \A i \in Places : chain'[i] = chain[i]
           /\ chain'[Len(chain) + 1] = e
<1>1. Len(chain) \in Nat /\ Len(chain) >= 1 /\ chain \in Seq(Entries)
  BY ChainLen DEF TypeOK, Linked
<1>2. chain' \in Seq(Entries) /\ Len(chain') = Len(chain) + 1
  BY <1>1
<1>3. \A i \in 1 .. Len(chain) : chain'[i] = chain[i]
  BY <1>1
<1>4. chain'[Len(chain) + 1] = e
  BY <1>1
<1> QED
  BY <1>1, <1>2, <1>3, <1>4 DEF Places

LEMMA Shortened ==
    ASSUME TypeOK, Linked, chain' = Tail(chain), Len(chain) > 1
    PROVE  /\ chain' \in Seq(Entries)
           /\ Len(chain') = Len(chain) - 1
           /\ \A i \in Places' : i + 1 \in Places /\ chain'[i] = chain[i + 1]
<1>1. Len(chain) \in Nat /\ chain \in Seq(Entries) /\ chain # <<>>
  BY ChainLen DEF TypeOK
<1>2. /\ chain' \in Seq(Entries)
      /\ Len(chain') = Len(chain) - 1
      /\ \A i \in 1 .. Len(chain') : chain'[i] = chain[i + 1]
  BY <1>1, HeadTailProperties
<1> QED
  BY <1>1, <1>2 DEF Places

-------------------------------------------------------------------------------
LEMMA Initially == Init => IInv
<1> SUFFICES ASSUME Init PROVE IInv
  OBVIOUS
<1>1. PICK s \in Entries : /\ head = s /\ tail = s /\ chain = <<s>>
                           /\ next = [e \in Entries |-> Null]
                           /\ free = Entries \ {s}
  BY DEF Init
<1>2. /\ Len(chain) = 1 /\ chain[1] = s /\ chain \in Seq(Entries)
      /\ Places = {1}
  BY <1>1 DEF Places
<1>3. TypeOK
  <2>1. handled \in Seq(Messages) /\ head \in Entries /\ tail \in Entries
    BY <1>1, EmptySeq DEF Init
  <2>2. free \in SUBSET Entries /\ next \in [Entries -> Entries \cup {Null}]
    BY <1>1
  <2> QED
    BY <1>2, <2>1, <2>2 DEF Init, TypeOK
<1>4. Linked /\ Distinct
  BY <1>1, <1>2 DEF Linked, Distinct
<1>5. Gaps /\ Pushing /\ OneOwner
  BY DEF Init, Gaps, Pushing, OneOwner, Pushes
<1>6. Owned /\ Filled
  BY <1>1, <1>2, QueueAssumption DEF Init, Owned, Filled
<1> QED
  BY <1>3, <1>4, <1>5, <1>6 DEF IInv

LEMMA AllocStep ==
    ASSUME IInv, NEW p \in Producers, AllocEntry(p)
    PROVE  IInv'
<1>1. PICK e \in free, m \in Messages :
          /\ mine' = [mine EXCEPT ![p] = e]
          /\ data' = [data EXCEPT ![e] = m]
          /\ free' = free \ {e}
          /\ sent' = sent \cup {m}
  BY DEF AllocEntry
<1>2. /\ pc[p] = "idle"
      /\ pc' = [pc EXCEPT ![p] = "reset"]
      /\ UNCHANGED <<head, tail, next, event, prev, cpc, got, chain, handled>>
  BY DEF AllocEntry
<1> USE DEF IInv
<1>3. TypeOK'
  BY <1>1, <1>2 DEF TypeOK
<1>4. Linked' /\ Distinct'
  BY <1>2 DEF Linked, Distinct, Places
<1>5. /\ e \in Entries /\ got # e
      /\ \A i \in Places : chain[i] # e
      /\ \A q \in Producers : pc[q] \in {"reset", "exchange"} => mine[q] # e
  BY QueueAssumption DEF TypeOK, Owned, Pushing, OwnEntry
<1>6. \A q \in Producers : pc[q] = "link" => mine[q] # e
  BY <1>5 DEF Gaps, Joining
<1>7. \A q \in Producers : q # p => mine'[q] = mine[q] /\ pc'[q] = pc[q]
  BY <1>1, <1>2 DEF TypeOK
<1>8. mine'[p] = e /\ pc'[p] = "reset"
  BY <1>1, <1>2 DEF TypeOK
<1>9. Gaps'
  BY <1>2, <1>7, <1>8 DEF Gaps, Joining, Places
<1>10. Owned'
  BY <1>1, <1>2 DEF Owned, Places
<1>11. \A d \in Entries : d # e => data'[d] = data[d]
  BY <1>1 DEF TypeOK
<1>12. data'[e] = m
  BY <1>1, <1>5 DEF TypeOK
<1>13. Pushing'
  <2> SUFFICES ASSUME NEW q \in Producers, pc'[q] \in {"reset", "exchange"}
               PROVE  OwnEntry(q)'
    BY DEF Pushing
  <2>1. CASE q = p
    BY <2>1, <1>1, <1>2, <1>5, <1>8, <1>12 DEF OwnEntry, Places
  <2>2. CASE q # p
    BY <2>2, <1>1, <1>2, <1>5, <1>7, <1>11 DEF Pushing, OwnEntry, Places
  <2> QED
    BY <2>1, <2>2
<1>14. OneOwner'
  BY <1>5, <1>6, <1>7, <1>8 DEF OneOwner, Pushes
<1>15. \A i \in Places : chain[i] \in Entries
  BY ChainLen
<1>16. Filled'
  BY <1>2, <1>5, <1>11, <1>15, QueueAssumption DEF Filled, Places, TypeOK
<1> QED
  BY <1>3, <1>4, <1>9, <1>10, <1>13, <1>14, <1>16

LEMMA ResetStep ==
    ASSUME IInv, NEW p \in Producers, ResetNext(p)
    PROVE  IInv'
<1> USE DEF IInv
<1>1. /\ pc[p] = "reset"
      /\ next' = [next EXCEPT ![mine[p]] = Null]
      /\ pc' = [pc EXCEPT ![p] = "exchange"]
      /\ UNCHANGED <<head, tail, data, free, event, mine, prev, cpc, got, sent,
                     chain, handled>>
  BY DEF ResetNext
<1>2. /\ OwnEntry(p)
      /\ \A i \in Places : chain[i] \in Entries
      /\ Len(chain) \in Places
  BY <1>1, ChainLen DEF Pushing
<1>3. TypeOK'
  BY <1>1 DEF TypeOK
<1>4. /\ next'[mine[p]] = Null
      /\ \A d \in Entries : d # mine[p] => next'[d] = next[d]
  BY <1>1, <1>2 DEF TypeOK, OwnEntry
<1>5. \A i \in Places : next'[chain[i]] = next[chain[i]]
  BY <1>2, <1>4 DEF OwnEntry
<1>6. Linked'
  BY <1>1, <1>2, <1>5 DEF Linked, Places
<1>7. Distinct' /\ Owned' /\ Filled'
  BY <1>1 DEF Distinct, Owned, Filled, Places
<1>8. \A q \in Producers : q # p => pc'[q] = pc[q]
  BY <1>1 DEF TypeOK
<1>9. pc'[p] = "exchange"
  BY <1>1 DEF TypeOK
<1>10. Gaps'
  BY <1>1, <1>5, <1>8, <1>9 DEF Gaps, Joining, Places
<1>11. \A q \in Producers : q # p /\ pc[q] \in {"reset", "exchange"} => mine[q] # mine[p]
  BY <1>1 DEF OneOwner, Pushes
<1>12. Pushing'
  <2> SUFFICES ASSUME NEW q \in Producers, pc'[q] \in {"reset", "exchange"}
               PROVE  OwnEntry(q)'
    BY DEF Pushing
  <2>1. CASE q = p
    BY <2>1, <1>1, <1>2, <1>4 DEF OwnEntry, Places
  <2>2. CASE q # p
    <3>1. OwnEntry(q) /\ mine[q] # mine[p]
      BY <2>2, <1>8, <1>11 DEF Pushing
    <3> QED
      BY <2>2, <3>1, <1>1, <1>4, <1>8 DEF OwnEntry, Places
  <2> QED
    BY <2>1, <2>2
<1>13. OneOwner'
  BY <1>1, <1>8, <1>9 DEF OneOwner, Pushes
<1> QED
  BY <1>3, <1>6, <1>7, <1>10, <1>12, <1>13
LEMMA ExchangeStep ==
    ASSUME IInv, NEW p \in Producers, Exchange(p)
    PROVE  IInv'
<1> USE DEF IInv
<1> DEFINE n == Len(chain)
<1>1. /\ pc[p] = "exchange"
      /\ prev' = [prev EXCEPT ![p] = head]
      /\ head' = mine[p]
      /\ chain' = Append(chain, mine[p])
      /\ pc' = [pc EXCEPT ![p] = "link"]
      /\ UNCHANGED <<tail, next, data, free, event, mine, cpc, got, sent, handled>>
  BY DEF Exchange
<1>2. OwnEntry(p)
  BY <1>1 DEF Pushing
<1>3. /\ n \in Nat /\ 1 \in Places /\ n \in Places
      /\ \A i \in Places : chain[i] \in Entries
  BY ChainLen
<1>4. /\ chain' \in Seq(Entries)
      /\ Len(chain') = n + 1
      /\ Places' = Places \cup {n + 1} /\ n + 1 \notin Places
      /\ \A i \in Places : chain'[i] = chain[i]
      /\ chain'[n + 1] = mine[p]
  BY <1>1, <1>2, Appended DEF OwnEntry
<1>5. \A q \in Producers : q # p => pc'[q] = pc[q] /\ prev'[q] = prev[q]
  BY <1>1 DEF TypeOK
<1>6. pc'[p] = "link" /\ prev'[p] = head
  BY <1>1 DEF TypeOK
<1>7. TypeOK'
  BY <1>1, <1>2, <1>4 DEF TypeOK, OwnEntry
<1>8. Linked'
  <2>1. /\ Len(chain') >= 1
        /\ tail' = chain'[1]
        /\ head' = chain'[Len(chain')]
        /\ next'[head'] = Null
    BY <1>1, <1>2, <1>3, <1>4 DEF Linked, OwnEntry
  <2>2. ASSUME NEW i \in Places', i + 1 \in Places'
        PROVE  next'[chain'[i]] \in {Null, chain'[i + 1]}
    <3>1. i \in Places
      BY <1>3, <1>4, <2>2 DEF Places
    <3>2. CASE i = n
      BY <3>2, <1>1, <1>3, <1>4 DEF Linked
    <3>3. CASE i # n
      <4>1. i + 1 \in Places
        BY <1>3, <3>1, <3>3 DEF Places
      <4> QED
        BY <1>1, <1>4, <3>1, <4>1 DEF Linked
    <3> QED
      BY <3>2, <3>3
  <2> QED
    BY <2>1, <2>2 DEF Linked
<1>9. Distinct'
  BY <1>2, <1>4 DEF Distinct, OwnEntry
<1>10. Gaps'
  <2> SUFFICES ASSUME NEW q \in Producers, pc'[q] = "link"
               PROVE  Joining(q)'
    BY DEF Gaps
  <2>1. CASE q = p
    <3>1. prev'[q] = chain'[n] /\ mine'[q] = chain'[n + 1] /\ next'[chain'[n]] = Null
      BY <2>1, <1>1, <1>3, <1>4, <1>6 DEF Linked
    <3> QED
      BY <3>1, <1>3, <1>4 DEF Joining
  <2>2. CASE q # p
    <3>1. PICK i \in Places : /\ i + 1 \in Places
                              /\ prev[q] = chain[i]
                              /\ mine[q] = chain[i + 1]
                              /\ next[chain[i]] = Null
      BY <2>2, <1>5 DEF Gaps, Joining
    <3> QED
      BY <2>2, <3>1, <1>1, <1>4, <1>5 DEF Joining
  <2> QED
    BY <2>1, <2>2
<1>11. Owned'
  BY <1>1, <1>2, <1>4 DEF Owned, OwnEntry
<1>12. Pushing'
  <2> SUFFICES ASSUME NEW q \in Producers, pc'[q] \in {"reset", "exchange"}
               PROVE  OwnEntry(q)'
    BY DEF Pushing
  <2>1. q # p /\ OwnEntry(q) /\ mine[q] # mine[p]
    BY <1>1, <1>5, <1>6 DEF Pushing, OneOwner, Pushes
  <2> QED
    BY <2>1, <1>1, <1>4, <1>5 DEF OwnEntry
<1>13. OneOwner'
  BY <1>1, <1>5, <1>6 DEF OneOwner, Pushes
<1>14. Filled'
  BY <1>1, <1>2, <1>4 DEF Filled, OwnEntry
<1> QED
  BY <1>7, <1>8, <1>9, <1>10, <1>11, <1>12, <1>13, <1>14

LEMMA LinkStep ==
    ASSUME IInv, NEW p \in Producers, Link(p)
    PROVE  IInv'
<1> USE DEF IInv
<1>1. /\ pc[p] = "link"
      /\ next' = [next EXCEPT ![prev[p]] = mine[p]]
      /\ pc' = [pc EXCEPT ![p] = "signal"]
      /\ UNCHANGED <<head, tail, data, free, event, mine, prev, cpc, got, sent,
                     chain, handled>>
  BY DEF Link
<1>2. PICK i \in Places : /\ i + 1 \in Places
                          /\ prev[p] = chain[i]
                          /\ mine[p] = chain[i + 1]
                          /\ next[chain[i]] = Null
  BY <1>1 DEF Gaps, Joining
<1>3. /\ Len(chain) \in Nat /\ 1 \in Places /\ Len(chain) \in Places
      /\ \A j \in Places : chain[j] \in Entries
  BY ChainLen
<1>4. /\ next'[chain[i]] = chain[i + 1]
      /\ \A d \in Entries : d # chain[i] => next'[d] = next[d]
  BY <1>1, <1>2, <1>3 DEF TypeOK
<1>5. \A j \in Places : j # i => next'[chain[j]] = next[chain[j]]
  BY <1>3, <1>4 DEF Distinct
<1>6. \A q \in Producers : q # p => pc'[q] = pc[q]
  BY <1>1 DEF TypeOK
<1>7. pc'[p] = "signal"
  BY <1>1 DEF TypeOK
<1>8. TypeOK'
  BY <1>1, <1>2, <1>3 DEF TypeOK
<1>9. Linked'
  <2>1. i # Len(chain)
    BY <1>2, <1>3 DEF Places
  <2>2. next'[head'] = Null
    BY <2>1, <1>1, <1>3, <1>5 DEF Linked
  <2>3. \A j \in Places : j + 1 \in Places => next'[chain[j]] \in {Null, chain[j + 1]}
    BY <1>4, <1>5 DEF Linked
  <2> QED
    BY <1>1, <2>2, <2>3 DEF Linked, Places
<1>10. Distinct' /\ Owned' /\ Filled'
  BY <1>1 DEF Distinct, Owned, Filled, Places
<1>11. Gaps'
  <2> SUFFICES ASSUME NEW q \in Producers, pc'[q] = "link"
               PROVE  Joining(q)'
    BY DEF Gaps
  <2>1. q # p /\ pc[q] = "link" /\ mine[q] # mine[p]
    BY <1>1, <1>6, <1>7 DEF OneOwner, Pushes
  <2>2. PICK j \in Places : /\ j + 1 \in Places
                            /\ prev[q] = chain[j]
                            /\ mine[q] = chain[j + 1]
                            /\ next[chain[j]] = Null
    BY <2>1 DEF Gaps, Joining
  <2>3. next'[chain[j]] = Null
    BY <2>1, <2>2, <1>2, <1>5
  <2> QED
    BY <2>2, <2>3, <1>1 DEF Joining, Places
<1>12. Pushing'
  <2> SUFFICES ASSUME NEW q \in Producers, pc'[q] \in {"reset", "exchange"}
               PROVE  OwnEntry(q)'
    BY DEF Pushing
  <2>1. OwnEntry(q) /\ pc'[q] = pc[q]
    BY <1>6, <1>7 DEF Pushing
  <2>2. next'[mine[q]] = next[mine[q]]
    BY <2>1, <1>2, <1>4 DEF OwnEntry
  <2> QED
    BY <2>1, <2>2, <1>1 DEF OwnEntry, Places
<1>13. OneOwner'
  BY <1>1, <1>6, <1>7 DEF OneOwner, Pushes
<1> QED
  BY <1>8, <1>9, <1>10, <1>11, <1>12, <1>13
(* What a pop that finds an entry does to the list.                        *)
LEMMA PopFacts ==
    ASSUME IInv, Pop, next[tail] # Null
    PROVE  /\ Len(chain) > 1 /\ next[tail] = chain[2]
           /\ tail' = chain[2] /\ got = Null /\ got' = tail
           /\ chain' = Tail(chain)
           /\ chain' \in Seq(Entries)
           /\ Len(chain') = Len(chain) - 1
           /\ \A i \in Places' : /\ i + 1 \in Places
                                  /\ chain'[i] = chain[i + 1]
                                  /\ chain'[i] # tail
           /\ data'[tail] = data[chain[2]] /\ data[chain[2]] \in Messages
           /\ \A d \in Entries : d # tail => data'[d] = data[d]
<1> USE DEF IInv
<1>1. /\ cpc = "pop" /\ tail' = next[tail] /\ chain' = Tail(chain)
      /\ data' = [data EXCEPT ![tail] = data[next[tail]]]
      /\ got' = tail
  BY DEF Pop
<1>2. /\ Len(chain) \in Nat /\ 1 \in Places /\ Len(chain) \in Places
      /\ \A i \in Places : chain[i] \in Entries
  BY ChainLen
<1>3. Len(chain) > 1
  BY <1>2 DEF Linked
<1>4. 1 + 1 \in Places
  BY <1>2, <1>3 DEF Places
<1>5. next[tail] = chain[2]
  BY <1>2, <1>4 DEF Linked
<1>6. data[chain[2]] \in Messages
  BY <1>4 DEF Filled
<1>7. /\ chain' \in Seq(Entries)
      /\ Len(chain') = Len(chain) - 1
      /\ \A i \in Places' : i + 1 \in Places /\ chain'[i] = chain[i + 1]
  BY <1>1, <1>3, Shortened
<1>8. ASSUME NEW i \in Places' PROVE chain'[i] # tail
  <2>1. i + 1 \in Places /\ i + 1 # 1 /\ chain'[i] = chain[i + 1] /\ tail = chain[1]
    BY <1>7 DEF Places, Linked
  <2> QED
    BY <2>1, <1>2 DEF Distinct
<1>9. data'[tail] = data[chain[2]] /\ \A d \in Entries : d # tail => data'[d] = data[d]
  BY <1>1, <1>5 DEF TypeOK
<1>10. got = Null
  BY <1>1 DEF Owned
<1> QED
  BY <1>1, <1>3, <1>5, <1>6, <1>7, <1>8, <1>9, <1>10

LEMMA PopStep ==
    ASSUME IInv, Pop
    PROVE  IInv'
<1> USE DEF IInv
<1>1. /\ cpc = "pop" /\ cpc' = "drain"
      /\ UNCHANGED <<head, next, free, event, pc, mine, prev, sent, handled>>
  BY DEF Pop
<1>2. CASE next[tail] = Null
  <2>1. got' = Null /\ UNCHANGED <<tail, chain, data>>
    BY <1>2 DEF Pop
  <2>2. TypeOK'
    BY <1>1, <2>1 DEF TypeOK
  <2>3. Linked' /\ Distinct' /\ Gaps' /\ OneOwner'
    BY <1>1, <2>1 DEF Linked, Distinct, Gaps, Joining, OneOwner, Pushes, Places
  <2>4. \A i \in Places : chain[i] # Null
    BY ChainLen, QueueAssumption
  <2>5. Owned' /\ Filled'
    BY <1>1, <2>1, <2>4 DEF Owned, Filled, Places
  <2>6. Pushing'
    BY <1>1, <2>1, QueueAssumption DEF Pushing, OwnEntry, Places
  <2> QED
    BY <2>2, <2>3, <2>5, <2>6
<1>3. CASE next[tail] # Null
  <2>1. /\ Len(chain) > 1 /\ next[tail] = chain[2]
        /\ tail' = chain[2] /\ got = Null /\ got' = tail
        /\ chain' = Tail(chain)
        /\ chain' \in Seq(Entries)
        /\ Len(chain') = Len(chain) - 1
        /\ \A i \in Places' : /\ i + 1 \in Places
                               /\ chain'[i] = chain[i + 1]
                               /\ chain'[i] # tail
        /\ data'[tail] = data[chain[2]] /\ data[chain[2]] \in Messages
        /\ \A d \in Entries : d # tail => data'[d] = data[d]
    BY <1>3, PopFacts
  <2>2. /\ Len(chain) \in Nat /\ 1 \in Places /\ Len(chain) \in Places
        /\ \A i \in Places : chain[i] \in Entries
    BY ChainLen
  <2>3. data' \in [Entries -> Messages \cup {Null}]
    BY <1>3, <2>1 DEF Pop, TypeOK
  <2>4. TypeOK'
    BY <1>1, <2>1, <2>2, <2>3 DEF TypeOK, Places
  <2>5. Linked'
    <3>1. Len(chain') >= 1 /\ Len(chain') \in Places' /\ 1 \in Places'
      BY <2>1, <2>2 DEF Places
    <3>2. tail' = chain'[1] /\ head' = chain'[Len(chain')] /\ next'[head'] = Null
      BY <1>1, <2>1, <2>2, <3>1 DEF Linked
    <3>3. ASSUME NEW i \in Places', i + 1 \in Places'
          PROVE  next'[chain'[i]] \in {Null, chain'[i + 1]}
      BY <1>1, <2>1, <3>3 DEF Linked
    <3> QED
      BY <3>1, <3>2, <3>3 DEF Linked
  <2>6. Distinct'
    <3> SUFFICES ASSUME NEW i \in Places', NEW j \in Places', chain'[i] = chain'[j]
                 PROVE  i = j
      BY DEF Distinct
    <3> DEFINE a == i + 1
               b == j + 1
    <3>1. a \in Places /\ b \in Places /\ chain[a] = chain[b]
      BY <2>1
    <3>2. a = b
      BY <3>1 DEF Distinct
    <3> QED
      BY <3>2 DEF Places
  <2>7. Gaps'
    <3> SUFFICES ASSUME NEW q \in Producers, pc[q] = "link"
                 PROVE  Joining(q)'
      BY <1>1 DEF Gaps
    <3>1. PICK i \in Places : /\ i + 1 \in Places
                              /\ prev[q] = chain[i]
                              /\ mine[q] = chain[i + 1]
                              /\ next[chain[i]] = Null
      BY DEF Gaps, Joining
    <3>2. i # 1
      BY <1>3, <3>1 DEF Linked
    <3>3. i - 1 \in Places' /\ (i - 1) + 1 \in Places' /\ (i - 1) + 1 = i
      BY <2>1, <2>2, <3>1, <3>2 DEF Places
    <3>4. chain'[i - 1] = chain[i] /\ chain'[(i - 1) + 1] = chain[i + 1]
      BY <2>1, <3>3
    <3> QED
      BY <1>1, <3>1, <3>3, <3>4 DEF Joining
  <2>8. Owned'
    BY <1>1, <2>1, <2>2 DEF Owned, Linked
  <2>9. Pushing'
    <3> SUFFICES ASSUME NEW q \in Producers, pc[q] \in {"reset", "exchange"}
                 PROVE  OwnEntry(q)'
      BY <1>1 DEF Pushing
    <3>1. OwnEntry(q) /\ mine[q] # tail
      BY <2>2 DEF Pushing, OwnEntry, Linked
    <3>2. data'[mine[q]] = data[mine[q]]
      BY <2>1, <3>1 DEF OwnEntry
    <3> QED
      BY <1>1, <2>1, <3>1, <3>2 DEF OwnEntry
  <2>10. OneOwner'
    BY <1>1 DEF OneOwner, Pushes
  <2>11. Filled'
    <3>1. ASSUME NEW i \in Places' PROVE data'[chain'[i]] \in Messages
      <4>1. i + 1 \in Places /\ i + 1 # 1 /\ chain'[i] = chain[i + 1] /\ chain'[i] # tail
        BY <2>1 DEF Places
      <4> QED
        BY <4>1, <2>1, <2>2 DEF Filled
    <3> QED
      BY <2>1, <3>1 DEF Filled
  <2> QED
    BY <2>4, <2>5, <2>6, <2>7, <2>8, <2>9, <2>10, <2>11
<1> QED
  BY <1>2, <1>3

LEMMA HandleStep ==
    ASSUME IInv, Handle
    PROVE  IInv'
<1> USE DEF IInv
<1>1. /\ got' = Null
      /\ UNCHANGED <<head, tail, next, data, event, pc, mine, prev, sent, chain>>
  BY DEF Handle
<1>2. \/ cpc' = "poll" /\ UNCHANGED <<free, handled>>
      \/ /\ got # Null /\ cpc' = "pop"
         /\ free' = free \cup {got}
         /\ handled' = Append(handled, data[got])
  BY DEF Handle
<1>3. \A i \in Places : chain[i] # Null
  BY ChainLen, QueueAssumption
<1>4. TypeOK'
  <2>1. CASE UNCHANGED <<free, handled>>
    BY <1>1, <1>2, <2>1 DEF TypeOK
  <2>2. CASE got # Null /\ cpc' = "pop" /\ free' = free \cup {got}
             /\ handled' = Append(handled, data[got])
    <3>1. handled' \in Seq(Messages) /\ free' \in SUBSET Entries
      BY <2>2 DEF TypeOK, Filled
    <3> QED
      BY <1>1, <2>2, <3>1 DEF TypeOK
  <2> QED
    BY <1>2, <2>1, <2>2
<1>5. Linked' /\ Distinct' /\ Gaps' /\ OneOwner'
  BY <1>1 DEF Linked, Distinct, Gaps, Joining, OneOwner, Pushes, Places
<1>6. Owned' /\ Filled'
  BY <1>1, <1>2, <1>3 DEF Owned, Filled, Places
<1>7. Pushing'
  BY <1>1, <1>2, QueueAssumption DEF Pushing, OwnEntry, Places
<1> QED
  BY <1>4, <1>5, <1>6, <1>7

(* Signal, Wake and Drain leave list and entries alone.                    *)
LEMMA EventStep ==
    ASSUME IInv, (\E p \in Producers : Signal(p)) \/ Wake \/ Drain
    PROVE  IInv'
<1> USE DEF IInv
<1>1. UNCHANGED <<head, tail, next, data, free, mine, prev, got, sent, chain, handled>>
  BY DEF Signal, Wake, Drain
<1>2. \A q \in Producers : pc'[q] = pc[q] \/ pc'[q] = "idle"
  BY DEF Signal, Wake, Drain, TypeOK
<1>3. TypeOK'
  BY <1>1 DEF TypeOK, Signal, Wake, Drain
<1>4. Linked' /\ Distinct' /\ Filled'
  BY <1>1 DEF Linked, Distinct, Filled, Places
<1>5. Gaps' /\ OneOwner'
  BY <1>1, <1>2 DEF Gaps, Joining, OneOwner, Pushes, Places
<1>6. cpc' \in {"poll", "pop"} => cpc \in {"poll", "pop"}
  BY DEF Signal, Wake, Drain
<1>7. Owned'
  BY <1>1, <1>6 DEF Owned, Places
<1>8. Pushing'
  BY <1>1, <1>2 DEF Pushing, OwnEntry, Places
<1> QED
  BY <1>3, <1>4, <1>5, <1>7, <1>8

LEMMA Unmoved == ASSUME IInv, UNCHANGED vars PROVE IInv'
<1>1. TypeOK' /\ Linked' /\ Distinct' /\ Owned' /\ Filled'
  BY DEF IInv, vars, TypeOK, Linked, Distinct, Owned, Filled, Places
<1>2. Gaps' /\ Pushing' /\ OneOwner'
  BY DEF IInv, vars, Gaps, Joining, Pushing, OwnEntry, OneOwner, Pushes, Places
<1> QED
  BY <1>1, <1>2 DEF IInv

(* The inductive invariant holds in every behaviour.                       *)
THEOREM Invariance == Spec => []IInv
<1>1. Init => IInv
  BY Initially
<1>2. IInv /\ [Next]_vars => IInv'
  <2> SUFFICES ASSUME IInv, [Next]_vars PROVE IInv'
    OBVIOUS
  <2>1. CASE UNCHANGED vars
    BY <2>1, Unmoved
  <2>2. CASE \E p \in Producers : AllocEntry(p) \/ Push(p)
    BY <2>2, AllocStep, ResetStep, ExchangeStep, LinkStep, EventStep DEF Push
  <2>3. CASE Consume
    BY <2>3, PopStep, HandleStep, EventStep DEF Consume
  <2> QED
    BY <2>1, <2>2, <2>3 DEF Next
<1> QED
  BY <1>1, <1>2, PTL DEF Spec

-------------------------------------------------------------------------------
(* The types of the queue's state.                                         *)
THEOREM TypeCorrect == Spec => []TypeOK
<1>1. IInv => TypeOK
  BY DEF IInv
<1> QED
  BY <1>1, Invariance, PTL

(* Whatever the producers are doing, the entries that pop, exchange, link  *)
(* and the handlers of Transport touch have not been deleted.              *)
THEOREM NothingFreedIsTouched == Spec => []NoUseAfterFree
<1>1. IInv => NoUseAfterFree
  <2> SUFFICES ASSUME IInv PROVE NoUseAfterFree
    OBVIOUS
  <2> USE DEF IInv
  <2>1. /\ Len(chain) \in Nat /\ 1 \in Places /\ Len(chain) \in Places
        /\ \A i \in Places : chain[i] \in Entries
    BY ChainLen
  <2>2. tail \notin free /\ head \notin free
    BY <2>1 DEF Linked, Owned
  <2>3. ASSUME next[tail] # Null PROVE next[tail] \notin free
    <3>1. 1 + 1 \in Places
      BY <2>1, <2>3 DEF Linked, Places
    <3>2. next[tail] = chain[1 + 1]
      BY <2>1, <2>3, <3>1 DEF Linked
    <3> QED
      BY <3>1, <3>2 DEF Owned
  <2>4. got # Null => got \notin free
    BY DEF Owned
  <2>5. \A p \in Producers : pc[p] = "link" => prev[p] \notin free
    BY DEF Gaps, Joining, Owned
  <2> QED
    BY <2>2, <2>3, <2>4, <2>5 DEF NoUseAfterFree
<1> QED
  BY <1>1, Invariance, PTL
-------------------------------------------------------------------------------
(* The list as MessageQueue sees it.                                       *)
Waiting == [i \in 1 .. (Len(chain) - 1) |-> data[chain[i + 1]]]
Taken == IF got = Null THEN handled ELSE Append(handled, data[got])

LEMMA FunctionIsSeq ==
    ASSUME NEW S, NEW n \in Nat, NEW f \in [1 .. n -> S]
    PROVE  f \in Seq(S) /\ Len(f) = n
<1>1. f \in Seq(S)
  BY SeqDef
<1>2. Len(f) \in Nat /\ 1 .. Len(f) = 1 .. n
  BY <1>1, LenProperties
<1> QED
  BY <1>1, <1>2

LEMMA AppendIsSeq ==
    ASSUME NEW S, NEW s \in Seq(S), NEW x \in S
    PROVE  /\ Append(s, x) \in Seq(S)
           /\ Len(Append(s, x)) = Len(s) + 1
           /\ \A i \in 1 .. Len(s) : Append(s, x)[i] = s[i]
           /\ Append(s, x)[Len(s) + 1] = x
  OBVIOUS

WaitingIsList ==
    /\ Waiting \in Seq(Messages)
    /\ Len(Waiting) = Len(chain) - 1
    /\ \A i \in 1 .. (Len(chain) - 1) : Waiting[i] = data[chain[i + 1]]

LEMMA WaitingType == IInv => WaitingIsList
<1> SUFFICES ASSUME IInv PROVE WaitingIsList
  OBVIOUS
<1>1. Len(chain) \in Nat /\ Len(chain) >= 1
  BY ChainLen DEF IInv, Linked
<1>2. ASSUME NEW i \in 1 .. (Len(chain) - 1) PROVE data[chain[i + 1]] \in Messages
  <2>1. i + 1 \in Places /\ i + 1 # 1
    BY <1>1 DEF Places
  <2> QED
    BY <2>1 DEF IInv, Filled
<1>3. Waiting \in [1 .. (Len(chain) - 1) -> Messages]
  BY <1>2 DEF Waiting
<1>4. Len(chain) - 1 \in Nat
  BY <1>1
<1>5. Waiting \in Seq(Messages) /\ Len(Waiting) = Len(chain) - 1
  BY <1>3, <1>4, FunctionIsSeq
<1> QED
  BY <1>5 DEF Waiting, WaitingIsList

(* The list starts empty, an exchange appends to it, a pop takes its head, *)
(* and nothing else changes what it holds.                                 *)
LEMMA ExchangePushes ==
    ASSUME IInv, NEW p \in Producers, Exchange(p)
    PROVE  /\ Waiting' = Append(Waiting, data[mine[p]])
           /\ data[mine[p]] \in Messages
           /\ UNCHANGED Taken
<1> DEFINE n == Len(chain) - 1
           m == data[mine[p]]
<1>1. /\ TypeOK /\ Linked /\ OwnEntry(p)
      /\ UNCHANGED <<data, got, handled>>
      /\ chain' = Append(chain, mine[p])
  BY DEF Exchange, IInv, Pushing
<1>2. m \in Messages /\ mine[p] \in Entries
  BY <1>1 DEF OwnEntry
<1>3. /\ Len(chain') = Len(chain) + 1
      /\ Places' = Places \cup {Len(chain) + 1}
      /\ \A i \in Places : chain'[i] = chain[i]
      /\ chain'[Len(chain) + 1] = mine[p]
  BY <1>1, <1>2, Appended
<1>4. /\ n \in Nat /\ Len(chain) = n + 1
      /\ Waiting \in Seq(Messages)
      /\ Len(Waiting) = n
      /\ \A i \in 1 .. n : Waiting[i] = data[chain[i + 1]]
  BY WaitingType, ChainLen, <1>1 DEF WaitingIsList
<1>5. /\ Waiting' \in Seq(Messages)
      /\ Len(Waiting') = n + 1
      /\ \A i \in 1 .. (n + 1) : Waiting'[i] = data[chain'[i + 1]]
  <2>1. IInv'
    BY ExchangeStep
  <2>2. WaitingIsList'
    BY <2>1, WaitingType, PTL
  <2> QED
    BY <2>2, <1>1, <1>3, <1>4 DEF WaitingIsList
<1>6. /\ Append(Waiting, m) \in Seq(Messages)
      /\ Len(Append(Waiting, m)) = n + 1
      /\ \A i \in 1 .. n : Append(Waiting, m)[i] = Waiting[i]
      /\ Append(Waiting, m)[n + 1] = m
  <2> HIDE DEF n, m
  <2>1. /\ Append(Waiting, m) \in Seq(Messages)
        /\ Len(Append(Waiting, m)) = Len(Waiting) + 1
        /\ \A i \in 1 .. Len(Waiting) : Append(Waiting, m)[i] = Waiting[i]
        /\ Append(Waiting, m)[Len(Waiting) + 1] = m
    BY <1>2, <1>4, AppendIsSeq
  <2> QED
    BY <2>1, <1>4
<1>7. ASSUME NEW i \in 1 .. (n + 1) PROVE Waiting'[i] = Append(Waiting, m)[i]
  <2> HIDE DEF n, m
  <2>1. CASE i = n + 1
    <3>1. Waiting'[n + 1] = data[chain'[(n + 1) + 1]]
      BY <1>4, <1>5
    <3>2. (n + 1) + 1 = Len(chain) + 1
      BY <1>4
    <3> QED
      BY <2>1, <3>1, <3>2, <1>3, <1>6 DEF m
  <2>2. CASE i \in 1 .. n
    <3>1. i + 1 \in Places
      BY <2>2, <1>4 DEF Places
    <3>2. Waiting'[i] = data[chain[i + 1]]
      BY <2>2, <3>1, <1>3, <1>4, <1>5
    <3> QED
      BY <2>2, <3>2, <1>4, <1>6
  <2> QED
    BY <1>4, <2>1, <2>2
<1>8. Waiting' = Append(Waiting, m)
  BY <1>5, <1>6, <1>7, SeqEqual
<1> QED
  BY <1>1, <1>2, <1>8 DEF Taken

LEMMA PopTakes ==
    ASSUME IInv, Pop, next[tail] # Null
    PROVE  /\ Waiting # <<>>
           /\ Waiting' = Tail(Waiting)
           /\ Taken' = Append(Taken, Head(Waiting))
<1>1. /\ Len(chain) > 1
      /\ got = Null /\ got' = tail
      /\ Len(chain') = Len(chain) - 1
      /\ \A i \in Places' : /\ i + 1 \in Places
                             /\ chain'[i] = chain[i + 1]
                             /\ chain'[i] # tail
      /\ data'[tail] = data[chain[2]]
      /\ \A d \in Entries : d # tail => data'[d] = data[d]
  BY PopFacts
<1>2. /\ Len(chain) \in Nat /\ \A i \in Places : chain[i] \in Entries
      /\ tail \in Entries /\ handled' = handled
  BY ChainLen DEF IInv, TypeOK, Pop
<1>3. /\ Waiting \in Seq(Messages)
      /\ Len(Waiting) = Len(chain) - 1
      /\ \A i \in 1 .. (Len(chain) - 1) : Waiting[i] = data[chain[i + 1]]
  BY WaitingType DEF WaitingIsList
<1>4. /\ Waiting' \in Seq(Messages)
      /\ Len(Waiting') = Len(chain') - 1
      /\ \A i \in 1 .. (Len(chain') - 1) : Waiting'[i] = data'[chain'[i + 1]]
  <2>1. IInv'
    BY PopStep
  <2>2. WaitingIsList'
    BY <2>1, WaitingType, PTL
  <2> QED
    BY <2>2 DEF WaitingIsList
<1>5. Waiting # <<>>
  BY <1>1, <1>2, <1>3
<1>6. /\ Tail(Waiting) \in Seq(Messages)
      /\ Len(Tail(Waiting)) = Len(Waiting) - 1
      /\ \A i \in 1 .. Len(Tail(Waiting)) : Tail(Waiting)[i] = Waiting[i + 1]
  BY <1>3, <1>5, HeadTailProperties
<1>7. ASSUME NEW i \in 1 .. Len(Waiting') PROVE Waiting'[i] = Tail(Waiting)[i]
  <2>1. i + 1 \in Places' /\ i + 1 \in 1 .. (Len(chain) - 1) /\ i \in 1 .. Len(Tail(Waiting))
    BY <1>1, <1>2, <1>3, <1>4, <1>6 DEF Places
  <2>2. Waiting'[i] = data[chain[(i + 1) + 1]]
    BY <2>1, <1>1, <1>2, <1>4
  <2> QED
    BY <2>1, <2>2, <1>3, <1>6
<1>8. Waiting' = Tail(Waiting)
  BY <1>1, <1>3, <1>4, <1>6, <1>7, SeqEqual
<1>9. Head(Waiting) = data[chain[2]]
  BY <1>1, <1>2, <1>3, <1>5
<1>10. Taken' = Append(Taken, Head(Waiting))
  <2>1. Taken = handled
    BY <1>1 DEF Taken
  <2>2. Taken' = Append(handled, data[chain[2]])
    BY <1>1, <1>2, QueueAssumption DEF Taken
  <2> QED
    BY <2>1, <2>2, <1>9
<1> QED
  BY <1>5, <1>8, <1>10
LEMMA NothingElseChanges ==
    ASSUME IInv,
           \/ \E p \in Producers : AllocEntry(p) \/ ResetNext(p) \/ Link(p) \/ Signal(p)
           \/ Wake \/ Drain \/ Handle \/ (Pop /\ next[tail] = Null) \/ UNCHANGED vars
    PROVE  UNCHANGED <<Waiting, Taken>>
<1>1. UNCHANGED chain
  BY DEF AllocEntry, ResetNext, Link, Signal, Wake, Drain, Handle, Pop, vars
<1>2. CASE \E p \in Producers : AllocEntry(p)
  <2>1. PICK p \in Producers, e \in free, m \in Messages :
            data' = [data EXCEPT ![e] = m] /\ got' = got /\ handled' = handled
    BY <1>2 DEF AllocEntry
  <2>2. /\ \A i \in Places : chain[i] # e
        /\ got # Null => got # e
    BY DEF IInv, Owned
  <2>3. \A d \in Entries : d # e => data'[d] = data[d]
    BY <2>1 DEF IInv, TypeOK
  <2>4. ASSUME NEW i \in 1 .. (Len(chain) - 1) PROVE data'[chain[i + 1]] = data[chain[i + 1]]
    <3>1. Len(chain) \in Nat /\ \A j \in Places : chain[j] \in Entries
      BY ChainLen DEF IInv
    <3>2. i + 1 \in Places
      BY <3>1 DEF Places
    <3> QED
      BY <3>1, <3>2, <2>2, <2>3
  <2>5. UNCHANGED Waiting
    BY <1>1, <2>4 DEF Waiting
  <2>6. UNCHANGED Taken
    BY <2>1, <2>2, <2>3 DEF Taken, IInv, TypeOK
  <2> QED
    BY <2>5, <2>6
<1>3. CASE Handle
  <2>1. UNCHANGED data /\ got' = Null
    BY <1>3 DEF Handle
  <2>2. UNCHANGED Taken
    BY <1>3, <2>1 DEF Handle, Taken
  <2> QED
    BY <1>1, <2>1, <2>2 DEF Waiting
<1>4. CASE Pop /\ next[tail] = Null
  <2>1. got = Null /\ got' = Null /\ UNCHANGED <<data, handled>>
    BY <1>4 DEF Pop, IInv, Owned
  <2> QED
    BY <1>1, <2>1 DEF Waiting, Taken
<1>5. CASE \/ \E p \in Producers : ResetNext(p) \/ Link(p) \/ Signal(p)
           \/ Wake \/ Drain \/ UNCHANGED vars
  <2>1. UNCHANGED <<data, got, handled>>
    BY <1>5 DEF ResetNext, Link, Signal, Wake, Drain, vars
  <2> QED
    BY <1>1, <2>1 DEF Waiting, Taken
<1> QED
  BY <1>2, <1>3, <1>4, <1>5

(* The list of entries implements the queue of messages that MessageQueue  *)
(* promises, however exchanges, links and pops interleave: the exchange is *)
(* the push, a pop that finds an entry the taking.                         *)
THEOREM FifoImplemented == Spec => ImplementsMessageQueue
<1>1. Init => Fifo!Init
  <2> SUFFICES ASSUME Init PROVE Fifo!Init
    OBVIOUS
  <2>1. WaitingIsList
    BY Initially, WaitingType
  <2>2. Len(chain) = 1 /\ got = Null /\ handled = <<>>
    BY DEF Init
  <2>3. Waiting \in Seq(Messages) /\ Len(Waiting) = 0
    BY <2>1, <2>2 DEF WaitingIsList
  <2>4. Waiting = <<>>
    BY <2>3, EmptySeq
  <2> QED
    BY <2>2, <2>4 DEF Fifo!Init, Waiting
<1>2. IInv /\ [Next]_vars => [Fifo!Next]_(Fifo!queueVars)
  <2> SUFFICES ASSUME IInv, [Next]_vars PROVE [Fifo!Next]_(Fifo!queueVars)
    OBVIOUS
  <2>1. ASSUME NEW p \in Producers, Exchange(p) PROVE Fifo!Push(data[mine[p]])
    BY <2>1, ExchangePushes DEF Fifo!Push, Waiting, Taken
  <2>2. ASSUME Pop, next[tail] # Null PROVE Fifo!Take
    BY <2>2, PopTakes DEF Fifo!Take, Waiting, Taken
  <2>3. ASSUME \/ \E p \in Producers : \/ AllocEntry(p) \/ ResetNext(p)
                                        \/ Link(p) \/ Signal(p)
               \/ Wake \/ Drain \/ Handle \/ (Pop /\ next[tail] = Null) \/ UNCHANGED vars
        PROVE  UNCHANGED Fifo!queueVars
    BY <2>3, NothingElseChanges DEF Fifo!queueVars, Waiting, Taken
  <2>4. \A p \in Producers : Exchange(p) => data[mine[p]] \in Messages
    BY ExchangePushes
  <2>5. CASE \E p \in Producers : Exchange(p)
    <3>1. PICK p \in Producers : Exchange(p)
      BY <2>5
    <3>2. Fifo!Push(data[mine[p]])
      BY <3>1, <2>1
    <3>3. data[mine[p]] \in Messages
      BY <3>1, <2>4
    <3>4. Fifo!Next
      BY <3>2, <3>3 DEF Fifo!Next, Fifo!Push
    <3> QED
      BY <3>4
  <2>6. CASE Pop /\ next[tail] # Null
    BY <2>2, <2>6 DEF Fifo!Next
  <2>7. CASE \/ \E p \in Producers : AllocEntry(p) \/ ResetNext(p) \/ Link(p) \/ Signal(p)
             \/ Wake \/ Drain \/ Handle \/ (Pop /\ next[tail] = Null) \/ UNCHANGED vars
    BY <2>3, <2>7
  <2> QED
    BY <2>5, <2>6, <2>7 DEF Next, Push, Consume
<1> QED
  BY <1>1, <1>2, Invariance, PTL DEF Spec, ImplementsMessageQueue, Fifo!Spec
===============================================================================
