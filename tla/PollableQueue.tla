---------------------------- MODULE PollableQueue ----------------------------
(***************************************************************************)
(* The queue through which threads hand work to a worker of the server     *)
(* (include/mailbox.h, Queue and PollableQueue): an unbounded linked list  *)
(* with many producers and one consumer, and an eventfd that the           *)
(* consumer's reactor polls.  Transport uses three of them, for writes,    *)
(* timers and peers (src/common/transport.cc).                             *)
(*                                                                         *)
(* A producer appends an entry in two steps: it exchanges the head, then   *)
(* links the entry it found there to its own.  The consumer owns the tail, *)
(* an entry whose message has been taken; pop moves the message of the     *)
(* next entry into it, returns it and makes the next entry the tail.       *)
(* Every entry returned is deleted and its memory used again.              *)
(***************************************************************************)
EXTENDS Naturals, Sequences

CONSTANTS
    Producers,  \* threads that push
    Messages,   \* bound: what they push, each message once
    Entries,    \* bound: the memory that entries are allocated in
    Null        \* nullptr

ASSUME QueueAssumption ==
    /\ Entries # {}
    /\ Null \notin Entries
    /\ Null \notin Messages

VARIABLES
    head, tail,   \* the two ends of the list
    next,         \* next[e]: the link of entry e
    data,         \* data[e]: its message
    free,         \* the entries that are not allocated
    event,        \* is the eventfd readable?
    pc,           \* pc[p]: where producer p is in push
    mine,         \* mine[p]: the entry it pushes
    prev,         \* prev[p]: the entry it found at the head
    cpc,          \* where the consumer is
    got,          \* what its last pop returned
    sent,         \* ghost: the messages that were given to a producer
    chain,        \* ghost: the tail and the entries behind it, in the order
                  \* of the exchanges
    handled       \* the messages handed to the consumer's handler

vars == <<head, tail, next, data, free, event, pc, mine, prev, cpc, got, sent,
          chain, handled>>

(* The queue starts with one entry, the sentinel.                          *)
Init ==
    /\ \E s \in Entries :
          /\ head = s
          /\ tail = s
          /\ next = [e \in Entries |-> Null]
          /\ free = Entries \ {s}
          /\ chain = <<s>>
    /\ data = [e \in Entries |-> Null]
    /\ event = FALSE
    /\ pc = [p \in Producers |-> "idle"]
    /\ mine = [p \in Producers |-> Null]
    /\ prev = [p \in Producers |-> Null]
    /\ cpc = "poll"
    /\ got = Null
    /\ sent = {}
    /\ handled = <<>>

-------------------------------------------------------------------------------
(* A producer: allocEntry, then push.                                      *)

(* The link of a new entry is not initialised: it is what the memory held. *)
AllocEntry(p) ==
    /\ pc[p] = "idle"
    /\ \E e \in free, m \in Messages \ sent :
          /\ mine' = [mine EXCEPT ![p] = e]
          /\ data' = [data EXCEPT ![e] = m]
          /\ free' = free \ {e}
          /\ sent' = sent \cup {m}
    /\ pc' = [pc EXCEPT ![p] = "reset"]
    /\ UNCHANGED <<head, tail, next, event, prev, cpc, got, chain, handled>>

(* Mutant: the link is left as it is.                                      *)
ResetNext_Omitted(p) ==
    /\ pc[p] = "reset"
    /\ pc' = [pc EXCEPT ![p] = "exchange"]
    /\ UNCHANGED <<head, tail, next, data, free, event, mine, prev, cpc, got, sent,
                   chain, handled>>

ResetNext(p) ==
    /\ pc[p] = "reset"
    /\ next' = [next EXCEPT ![mine[p]] = Null]
    /\ pc' = [pc EXCEPT ![p] = "exchange"]
    /\ UNCHANGED <<head, tail, data, free, event, mine, prev, cpc, got, sent,
                   chain, handled>>

Exchange(p) ==
    /\ pc[p] = "exchange"
    /\ prev' = [prev EXCEPT ![p] = head]
    /\ head' = mine[p]
    /\ chain' = Append(chain, mine[p])
    /\ pc' = [pc EXCEPT ![p] = "link"]
    /\ UNCHANGED <<tail, next, data, free, event, mine, cpc, got, sent, handled>>

Link(p) ==
    /\ pc[p] = "link"
    /\ next' = [next EXCEPT ![prev[p]] = mine[p]]
    /\ pc' = [pc EXCEPT ![p] = "signal"]
    /\ UNCHANGED <<head, tail, data, free, event, mine, prev, cpc, got, sent,
                   chain, handled>>

Signal(p) ==
    /\ pc[p] = "signal"
    /\ event' = TRUE
    /\ pc' = [pc EXCEPT ![p] = "idle"]
    /\ UNCHANGED <<head, tail, next, data, free, mine, prev, cpc, got, sent,
                   chain, handled>>

-------------------------------------------------------------------------------
(* The consumer: the reactor of the worker, and handleXQueue of Transport. *)

(* epoll_wait returns: the eventfd is registered level-triggered.          *)
Wake ==
    /\ cpc = "poll"
    /\ event
    /\ cpc' = "pop"
    /\ UNCHANGED <<head, tail, next, data, free, event, pc, mine, prev, got, sent,
                   chain, handled>>

(* Mutant: the entry that is returned is the one that stays in the list.   *)
Pop_ReturnsNext ==
    /\ cpc = "pop"
    /\ IF next[tail] # Null
       THEN /\ tail' = next[tail]
            /\ chain' = Tail(chain)
            /\ got' = next[tail]
            /\ free' = free \cup {tail}
       ELSE got' = Null /\ UNCHANGED <<tail, chain, free>>
    /\ cpc' = "drain"
    /\ UNCHANGED <<head, next, data, event, pc, mine, prev, sent, handled>>

(* Mutant: pop goes to the next entry without looking whether there is one. *)
Pop_Unchecked ==
    /\ cpc = "pop"
    /\ tail' = next[tail]
    /\ IF next[tail] # Null
       THEN /\ chain' = Tail(chain)
            /\ data' = [data EXCEPT ![tail] = data[next[tail]]]
            /\ got' = tail
       ELSE got' = Null /\ UNCHANGED <<chain, data>>
    /\ cpc' = "drain"
    /\ UNCHANGED <<head, next, free, event, pc, mine, prev, sent, handled>>

(* Queue::pop.  It may find no link although entries follow: the producer  *)
(* of the next one has exchanged the head and not linked yet.              *)
Pop ==
    /\ cpc = "pop"
    /\ IF next[tail] # Null
       THEN /\ tail' = next[tail]
            /\ chain' = Tail(chain)
            /\ data' = [data EXCEPT ![tail] = data[next[tail]]]
            /\ got' = tail
       ELSE got' = Null /\ UNCHANGED <<tail, chain, data>>
    /\ cpc' = "drain"
    /\ UNCHANGED <<head, next, free, event, pc, mine, prev, sent, handled>>

(* PollableQueue::pop reads the eventfd until it would block.              *)
Drain ==
    /\ cpc = "drain"
    /\ IF event THEN event' = FALSE /\ UNCHANGED cpc
                ELSE cpc' = "handle" /\ UNCHANGED event
    /\ UNCHANGED <<head, tail, next, data, free, pc, mine, prev, got, sent,
                   chain, handled>>

(* Mutant: one entry per event.                                            *)
Handle_One ==
    /\ cpc = "handle"
    /\ IF got = Null
       THEN UNCHANGED <<free, handled>>
       ELSE /\ handled' = Append(handled, data[got])
            /\ free' = free \cup {got}
    /\ cpc' = "poll"
    /\ got' = Null
    /\ UNCHANGED <<head, tail, next, data, event, pc, mine, prev, sent, chain>>

(* handleWriteQueue and its like: deal with the entry, delete it and go on *)
(* until pop returns none.                                                 *)
Handle ==
    /\ cpc = "handle"
    /\ IF got = Null
       THEN cpc' = "poll" /\ UNCHANGED <<free, handled>>
       ELSE /\ handled' = Append(handled, data[got])
            /\ free' = free \cup {got}
            /\ cpc' = "pop"
    /\ got' = Null
    /\ UNCHANGED <<head, tail, next, data, event, pc, mine, prev, sent, chain>>

Push(p) == ResetNext(p) \/ Exchange(p) \/ Link(p) \/ Signal(p)

Consume == Wake \/ Pop \/ Drain \/ Handle

Next == (\E p \in Producers : AllocEntry(p) \/ Push(p)) \/ Consume

Spec == Init /\ [][Next]_vars

(* A push once begun goes on, and the worker runs when there is an event.  *)
FairSpec ==
    /\ Spec
    /\ \A p \in Producers : WF_vars(Push(p))
    /\ WF_vars(Consume)

-------------------------------------------------------------------------------
(* Properties.                                                             *)

TypeOK ==
    /\ head \in Entries
    /\ tail \in Entries
    /\ next \in [Entries -> Entries \cup {Null}]
    /\ data \in [Entries -> Messages \cup {Null}]
    /\ free \in SUBSET Entries
    /\ event \in BOOLEAN
    /\ pc \in [Producers -> {"idle", "reset", "exchange", "link", "signal"}]
    /\ mine \in [Producers -> Entries \cup {Null}]
    /\ prev \in [Producers -> Entries \cup {Null}]
    /\ cpc \in {"poll", "pop", "drain", "handle"}
    /\ got \in Entries \cup {Null}
    /\ sent \in SUBSET Messages
    /\ chain \in Seq(Entries)
    /\ handled \in Seq(Messages)

(* Nobody touches freed memory, although entries are deleted without       *)
(* telling the producers: the tail, the next entry that pop reads, the     *)
(* entry a producer is about to link to its own, the head the next         *)
(* exchange returns and the entry being handled are all still allocated.   *)
NoUseAfterFree ==
    /\ tail \notin free
    /\ head \notin free
    /\ next[tail] # Null => next[tail] \notin free
    /\ got # Null => got \notin free
    /\ \A p \in Producers : pc[p] = "link" => prev[p] \notin free

(* Messages are handled in the order of the exchanges, each once, and none *)
(* is skipped: the list implements MessageQueue, where the exchange is the *)
(* push and the move of the tail is the taking.                            *)
Fifo == INSTANCE MessageQueue WITH
    queue <- [i \in 1 .. (Len(chain) - 1) |-> data[chain[i + 1]]],
    taken <- IF got = Null THEN handled ELSE Append(handled, data[got])

ImplementsMessageQueue == Fifo!Spec

Handled(m) == \E i \in 1 .. Len(handled) : handled[i] = m

(* One event is enough for any number of entries: when the worker is still *)
(* to be woken and no push is between exchange and link, everything pushed *)
(* will be handled.                                                        *)
WakeHandlesAll ==
    \A m \in Messages :
        /\ cpc = "poll" /\ event
        /\ \A p \in Producers : pc[p] # "link"
        /\ \E i \in 2 .. Len(chain) : data[chain[i]] = m
        ~> Handled(m)

(* What is passed to the worker is handled.                                *)
EveryMessageHandled ==
    \A m \in Messages :
        (\E i \in 2 .. Len(chain) : data[chain[i]] = m) ~> Handled(m)
===============================================================================
