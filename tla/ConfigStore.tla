----------------------------- MODULE ConfigStore -----------------------------
(***************************************************************************)
(* What the REST controller promises about configuration, with no board    *)
(* selection, no datagrams and no ports: a request changes the setting it  *)
(* names and no other, or reads it and changes nothing, at most once and   *)
(* while it is under way; it succeeds only if it did that, and then the    *)
(* row of that setting and no other holds the value.  RmxControl           *)
(* implements this with one worker (ImplementsConfigStore there).          *)
(***************************************************************************)
CONSTANTS
    Clients,  \* who carries out requests, one at a time each
    Settings, \* the settings of all boards
    Saved,    \* those whose value is saved as a row
    ReadOnly, \* those that are only read
    Vals,     \* their values
    Idle      \* no request, no value

VARIABLES
    job,      \* job[c]: the request of c, and whether its setting is changed
    cfg,      \* cfg[s]: the value of setting s on the hardware
    rows      \* rows[s]: the value saved for it

storeVars == <<job, cfg, rows>>

Init ==
    /\ job = [c \in Clients |-> Idle]
    /\ cfg = [s \in Settings |-> Idle]
    /\ rows = [s \in Settings |-> Idle]

Begin(c) ==
    /\ job[c] = Idle
    /\ \E s \in Settings, v \in Vals :
          job' = [job EXCEPT ![c] = [slot |-> s, v |-> v, applied |-> FALSE]]
    /\ UNCHANGED <<cfg, rows>>

Apply(c) ==
    /\ job[c] # Idle
    /\ ~job[c].applied
    /\ job' = [job EXCEPT ![c] = [slot |-> job[c].slot, v |-> job[c].v, applied |-> TRUE]]
    /\ cfg' = IF job[c].slot \in ReadOnly
              THEN cfg ELSE [cfg EXCEPT ![job[c].slot] = job[c].v]
    /\ UNCHANGED rows

Succeed(c) ==
    /\ job[c] # Idle
    /\ job[c].applied
    /\ rows' = IF job[c].slot \in Saved
               THEN [rows EXCEPT ![job[c].slot] = job[c].v] ELSE rows
    /\ job' = [job EXCEPT ![c] = Idle]
    /\ UNCHANGED cfg

(* An error says nothing of the setting: it may have been changed.         *)
GiveUp(c) ==
    /\ job[c] # Idle
    /\ job' = [job EXCEPT ![c] = Idle]
    /\ UNCHANGED <<cfg, rows>>

Next == \E c \in Clients : Begin(c) \/ Apply(c) \/ Succeed(c) \/ GiveUp(c)

Spec == Init /\ [][Next]_storeVars
==============================================================================
