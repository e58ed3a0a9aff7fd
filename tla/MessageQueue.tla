---------------------------- MODULE MessageQueue ----------------------------
(***************************************************************************)
(* What a queue between threads promises: messages are taken in the order  *)
(* in which they were pushed, each once.  A taker may come back with       *)
(* nothing at any time.  PollableQueue implements this.                    *)
(***************************************************************************)
EXTENDS Sequences

CONSTANT Messages

VARIABLES
    queue,  \* the messages pushed and not yet taken
    taken   \* the messages taken, in order

queueVars == <<queue, taken>>

Init == queue = <<>> /\ taken = <<>>

Push(m) ==
    /\ queue' = Append(queue, m)
    /\ UNCHANGED taken

Take ==
    /\ queue # <<>>
    /\ taken' = Append(taken, Head(queue))
    /\ queue' = Tail(queue)

Next == (\E m \in Messages : Push(m)) \/ Take

Spec == Init /\ [][Next]_queueVars
=============================================================================
