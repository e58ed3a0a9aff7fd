------------------------ MODULE CasProvisioning_proofs ------------------------
(***************************************************************************)
(* Theorems about CasProvisioning, for any channels, streams, services and *)
(* numbers of requests.                                                    *)
(***************************************************************************)
EXTENDS CasProvisioning, TLAPS

LEMMA RequestFields ==
    ASSUME NEW r \in Requests
    PROVE  /\ r.c \in Channels
           /\ r.do \in {"addECM", "updateECM", "addEMM", "updateEMM"} => r.p \in Params
           /\ r.do = "updateECM" => r.old \in Channels
           /\ r.do \in {"addStream", "updateStream", "deleteStream", "scramble", "descramble"}
                 => r.s \in Streams
           /\ r.do \in {"addStream", "updateStream"} => r.at \in 1 .. MaxRequests
           /\ r.do \in {"scramble", "descramble"} => r.service \in Services
           /\ OldChannel(r) \in Channels
  BY DEF Requests, OldChannel

(* Where the workers are, and what they were asked.                        *)
Control ==
    /\ pc \in [Workers -> {"idle", "query", "select", "publish", "list", "cache",
                        "spawn", "mark"}]
    /\ req \in [Workers -> Requests \cup {None}]
    /\ \A w \in Workers : pc[w] = "idle" <=> req[w] = None

LEMMA GotoType ==
    ASSUME NEW w \in Workers, Control, pc[w] # "idle",
           NEW label \in {"query", "select", "publish", "list", "cache", "spawn", "mark"},
           Goto(w, label)
    PROVE  Control'
  BY DEF Control, Goto

LEMMA AnswerType ==
    ASSUME NEW w \in Workers, Control, Answer(w)
    PROVE  Control'
  BY CasAssumption DEF Control, Answer

LEMMA ScrambledType ==
    ASSUME NEW rows, NEW services
    PROVE  Scrambled(rows, services) \in SUBSET StreamIds
  BY DEF Scrambled

(* The types of what is not Control.                                       *)
Data ==
    /\ count \in 0 .. MaxRequests
    /\ ecmg \in [Channels -> Params \cup {None}]
    /\ ecm_stream \in [StreamIds -> (0 .. MaxRequests) \cup {None}]
    /\ map \in SUBSET (StreamIds \X Services)
    /\ emmg \in [Channels -> Params \cup {None}]
    /\ selected \in Databases
    /\ lists \in [Databases \X {"ecm", "emm"} \X Channels -> Entries \cup {None}]
    /\ stream_keys \in SUBSET StreamKeys
    /\ found \in [Workers -> SUBSET StreamIds]
    /\ streams \in SUBSET StreamIds
    /\ created \in BOOLEAN
    /\ threads \in Nat
    /\ past \in SUBSET {"renamed", "halfRenamed", "swept", "cw", "killed"}

LEMMA TypeParts == TypeOK <=> Control /\ Data
  BY DEF TypeOK, Control, Data

(* Marking an entry that is there.                                         *)
LEMMA MarkedType ==
    ASSUME lists \in [Databases \X {"ecm", "emm"} \X Channels -> Entries \cup {None}],
           NEW key \in Databases \X {"ecm", "emm"} \X Channels, lists[key] # None
    PROVE  Marked(key) \in [Databases \X {"ecm", "emm"} \X Channels -> Entries \cup {None}]
<1>1. [lists[key] EXCEPT !.deleted = TRUE] \in Entries
  BY DEF Entries
<1> QED
  BY <1>1 DEF Marked

LEMMA ControlStep == ASSUME Control, [Next]_vars PROVE Control'
<1>1. ASSUME NEW w \in Workers, Accept(w) PROVE Control'
  BY <1>1, CasAssumption DEF Control, Accept
<1>2. ASSUME NEW w \in Workers, WorkerStep(w) PROVE Control'
  <2>1. pc[w] # "idle"
    BY <1>2 DEF WorkerStep, AddECM, UpdateECM, DeleteECM, SetStream, DeleteStream, SetEMM,
       DeleteEMM, Scramble, Descramble, List, Cache, Spawn, Mark, Select, PublishECM,
       UnpublishECM, PublishStream, UnpublishStream, PublishEMM, UnpublishEMM, Asks, Publishes
  <2>2. \/ Answer(w)
        \/ \E label \in {"query", "select", "publish", "list", "cache", "spawn", "mark"} :
              Goto(w, label)
    BY <1>2 DEF WorkerStep, AddECM, UpdateECM, DeleteECM, SetStream, DeleteStream, SetEMM,
       DeleteEMM, Scramble, Descramble, List, Cache, Spawn, Mark, Select, PublishECM,
       UnpublishECM, PublishStream, UnpublishStream, PublishEMM, UnpublishEMM
  <2> QED
    BY <2>1, <2>2, GotoType, AnswerType
<1>3. CASE CwRound
  BY <1>3 DEF Control, CwRound
<1>4. CASE Restart
  BY <1>4 DEF Control, Restart
<1>5. CASE UNCHANGED vars
  BY <1>5 DEF Control, vars
<1> QED
  BY <1>1, <1>2, <1>3, <1>4, <1>5 DEF Next

LEMMA DataStep == ASSUME Control, Data, [Next]_vars PROVE Data'
<1> USE CasAssumption
<1>0. ASSUME NEW w \in Workers, pc[w] # "idle" PROVE req[w] \in Requests
  BY <1>0 DEF Control
<1>1. ASSUME NEW w \in Workers, Accept(w) PROVE Data'
  BY <1>1 DEF Data, Accept, Tables, Redis, Cw
<1>2. ASSUME NEW w \in Workers, AddECM(w) PROVE Data'
  BY <1>0, <1>2, RequestFields DEF Data, AddECM, Asks, Tables, Redis, Cw
<1>3. ASSUME NEW w \in Workers, UpdateECM(w) PROVE Data'
  BY <1>0, <1>3, RequestFields DEF Data, UpdateECM, Asks, Tables, Redis, Cw, StreamIds
<1>4. ASSUME NEW w \in Workers, DeleteECM(w) \/ DeleteStream(w) \/ DeleteEMM(w) PROVE Data'
  BY <1>4 DEF Data, DeleteECM, DeleteStream, DeleteEMM, Tables, Redis, Cw
<1>5. ASSUME NEW w \in Workers, SetStream(w) PROVE Data'
  <2>1. req[w].at \in 0 .. MaxRequests
    BY <1>0, <1>5, RequestFields DEF SetStream, Asks
  <2>2. ecm_stream' \in [StreamIds -> (0 .. MaxRequests) \cup {None}]
    BY <1>5, <2>1 DEF Data, SetStream, Tables
  <2> QED
    BY <1>5, <2>2 DEF Data, SetStream, Tables, Redis, Cw
<1>6. ASSUME NEW w \in Workers, SetEMM(w) PROVE Data'
  BY <1>0, <1>6, RequestFields DEF Data, SetEMM, Asks, Tables, Redis, Cw
<1>7. ASSUME NEW w \in Workers, Scramble(w) PROVE Data'
  BY <1>0, <1>7, RequestFields DEF Data, Scramble, Asks, StreamIds, Redis, Cw
<1>8. ASSUME NEW w \in Workers, Descramble(w) PROVE Data'
  BY <1>8 DEF Data, Descramble, Redis, Cw
<1>9. ASSUME NEW w \in Workers, Spawn(w) \/ Mark(w) PROVE Data'
  <2>1. threads' \in Nat
    BY <1>9 DEF Data, Spawn, Mark
  <2>2. created' \in BOOLEAN
    BY <1>9, Zenon DEF Data, Spawn, Mark
  <2> QED
    BY <1>9, <2>1, <2>2 DEF Data, Spawn, Mark, Tables, Redis
<1>10. ASSUME NEW w \in Workers, Select(w) PROVE Data'
  BY <1>10 DEF Data, Select, Tables, Redis, Cw, Databases
<1>11. ASSUME NEW w \in Workers, PublishECM(w) PROVE Data'
  <2>1. pc[w] # "idle" /\ req[w].do \in {"addECM", "updateECM"}
    BY <1>11 DEF PublishECM, Publishes
  <2>2. req[w].c \in Channels /\ OldChannel(req[w]) \in Channels /\ req[w].p \in Params
    BY <1>0, <2>1, RequestFields
  <2>3. lists' \in [Databases \X {"ecm", "emm"} \X Channels -> Entries \cup {None}]
    BY <1>11, <2>2 DEF Data, PublishECM, SetChannel, Entries
  <2>4. {[k EXCEPT !.c = req[w].c] : k \in Matches(req[w])} \subseteq StreamKeys
    BY <2>2 DEF Data, Matches, StreamKeys
  <2>5. stream_keys' \in SUBSET StreamKeys
    BY <1>11, <2>4 DEF Data, PublishECM
  <2>6. past' \in SUBSET {"renamed", "halfRenamed", "swept", "cw", "killed"}
    BY <1>11 DEF Data, PublishECM
  <2> QED
    BY <1>11, <2>3, <2>5, <2>6 DEF Data, PublishECM, Tables, Cw
<1>12. ASSUME NEW w \in Workers, UnpublishECM(w) PROVE Data'
  <2> DEFINE key == <<selected, "ecm", req[w].c>>
  <2>1. key \in Databases \X {"ecm", "emm"} \X Channels
    BY <1>0, <1>12, RequestFields DEF Data, UnpublishECM, Publishes
  <2>2. lists' \in [Databases \X {"ecm", "emm"} \X Channels -> Entries \cup {None}]
    <3>1. \/ lists' = lists
          \/ lists[key] # None /\ lists' = Marked(key)
      BY <1>12 DEF UnpublishECM
    <3> HIDE DEF key
    <3> QED
      BY <2>1, <3>1, MarkedType DEF Data
  <2>3. /\ ecmg' \in [Channels -> Params \cup {None}]
        /\ ecm_stream' \in [StreamIds -> (0 .. MaxRequests) \cup {None}]
    BY <1>12 DEF Data, UnpublishECM
  <2> QED
    BY <1>12, <2>2, <2>3 DEF Data, UnpublishECM, Cw
<1>13. ASSUME NEW w \in Workers, PublishStream(w) PROVE Data'
  <2>1. [d |-> selected, c |-> req[w].c, s |-> req[w].s, at |-> req[w].at, deleted |-> FALSE]
           \in StreamKeys
    BY <1>0, <1>13, RequestFields DEF Data, PublishStream, Publishes, StreamKeys
  <2> QED
    BY <1>13, <2>1 DEF Data, PublishStream, Tables, Cw
<1>14. ASSUME NEW w \in Workers, UnpublishStream(w) PROVE Data'
  <2>1. \A k \in KeysOf(req[w]) : [k EXCEPT !.deleted = TRUE] \in StreamKeys
    <3>1. KeysOf(req[w]) \subseteq StreamKeys
      BY DEF Data, KeysOf
    <3>2. \A k \in StreamKeys : [k EXCEPT !.deleted = TRUE] \in StreamKeys
      BY DEF StreamKeys
    <3> QED
      BY <3>1, <3>2
  <2>2. stream_keys' \in SUBSET StreamKeys
    BY <1>14, <2>1 DEF Data, UnpublishStream
  <2>3. ecm_stream' \in [StreamIds -> (0 .. MaxRequests) \cup {None}]
    BY <1>14 DEF Data, UnpublishStream
  <2> QED
    BY <1>14, <2>2, <2>3 DEF Data, UnpublishStream, Cw
<1>15. ASSUME NEW w \in Workers, PublishEMM(w) PROVE Data'
  <2>1. [p |-> req[w].p, deleted |-> FALSE] \in Entries
    BY <1>0, <1>15, RequestFields DEF PublishEMM, Publishes, Entries
  <2> QED
    BY <1>15, <2>1 DEF Data, PublishEMM, Tables, Cw
<1>16. ASSUME NEW w \in Workers, UnpublishEMM(w) PROVE Data'
  <2> DEFINE key == <<selected, "emm", req[w].c>>
  <2>1. key \in Databases \X {"ecm", "emm"} \X Channels
    BY <1>0, <1>16, RequestFields DEF Data, UnpublishEMM, Publishes
  <2>2. lists' \in [Databases \X {"ecm", "emm"} \X Channels -> Entries \cup {None}]
    <3>1. \/ lists' = lists
          \/ lists[key] # None /\ lists' = Marked(key)
      BY <1>16 DEF UnpublishEMM
    <3> HIDE DEF key
    <3> QED
      BY <2>1, <3>1, MarkedType DEF Data
  <2> QED
    BY <1>16, <2>2 DEF Data, UnpublishEMM, Cw
<1>17. CASE CwRound
  BY <1>17 DEF Data, CwRound, Tables, Cw, Databases
<1>18. CASE Restart
  BY <1>18 DEF Data, Restart, Tables, Databases
<1>19. ASSUME NEW w \in Workers, List(w) \/ Cache(w) PROVE Data'
  <2>1. found' \in [Workers -> SUBSET StreamIds] /\ streams' \in SUBSET StreamIds
    BY <1>19, ScrambledType DEF Data, List, Cache
  <2> QED
    BY <1>19, <2>1 DEF Data, List, Cache, Tables, Redis
<1>20. CASE UNCHANGED vars
  BY <1>20 DEF Data, vars
<1> QED
  BY <1>1, <1>2, <1>3, <1>4, <1>5, <1>6, <1>7, <1>8, <1>9, <1>10, <1>11, <1>12, <1>13,
     <1>14, <1>15, <1>16, <1>17, <1>18, <1>19, <1>20 DEF Next, WorkerStep

(* Every variable keeps its type, for any number of workers: the handlers  *)
(* never write a row, a key or a cached stream for what does not exist.    *)
THEOREM TypeCorrect == Spec => []TypeOK
<1>1. Init => Control
  BY CasAssumption DEF Init, Control
<1>2. Init => Data
  <2> SUFFICES ASSUME Init PROVE Data
    OBVIOUS
  <2>1. /\ ecm_stream \in [StreamIds -> (0 .. MaxRequests) \cup {None}]
        /\ stream_keys \in SUBSET StreamKeys
    <3>1. PICK rows \in SUBSET StreamIds :
             /\ ecm_stream = [i \in StreamIds |-> IF i \in rows THEN 0 ELSE None]
             /\ stream_keys = {[d |-> 4, c |-> i[1], s |-> i[2], at |-> 0,
                                deleted |-> FALSE] : i \in rows}
      BY DEF Init
    <3>2. ecm_stream \in [StreamIds -> (0 .. MaxRequests) \cup {None}]
      BY <3>1, CasAssumption
    <3>3. \A i \in StreamIds : [d |-> 4, c |-> i[1], s |-> i[2], at |-> 0, deleted |-> FALSE]
                                  \in StreamKeys
      BY CasAssumption DEF StreamIds, StreamKeys, Databases
    <3> QED
      BY <3>1, <3>2, <3>3
  <2>2. lists \in [Databases \X {"ecm", "emm"} \X Channels -> Entries \cup {None}]
    BY DEF Init, Entries
  <2>3. created \in BOOLEAN
    BY Zenon DEF Init
  <2> QED
    BY <2>1, <2>2, <2>3, CasAssumption DEF Init, Data, Databases
<1>3. Control /\ Data /\ [Next]_vars => Control' /\ Data'
  BY ControlStep, DataStep
<1>4. Control /\ Data => TypeOK
  BY TypeParts
<1> QED
  BY <1>1, <1>2, <1>3, <1>4, PTL DEF Spec

-------------------------------------------------------------------------------
(* The cached list of streams.                                             *)

OneWorker == \A v, w \in Workers : v = w

(* Between the change of a table and the assignment of streams_json the    *)
(* cached list may be too long; what is about to be assigned never is.     *)
Refreshing(w) == pc[w] \in {"list", "cache"}

CacheFresh ==
    past \cap {"renamed", "halfRenamed"} = {} =>
        /\ \A w \in Workers : pc[w] = "cache" => found[w] \subseteq Scrambled(ecm_stream, map)
        /\ \/ \E w \in Workers : Refreshing(w)
           \/ streams \subseteq Scrambled(ecm_stream, map)

LEMMA CacheFreshStep == ASSUME OneWorker, Control, Data, CacheFresh, [Next]_vars PROVE CacheFresh'
(* A step of a worker that does not refresh, and leaves it so.             *)
<1>1. ASSUME NEW w \in Workers, ~Refreshing(w), pc'[w] # "cache", past \subseteq past',
             UNCHANGED streams,
             Scrambled(ecm_stream, map) \subseteq Scrambled(ecm_stream', map')
      PROVE  CacheFresh'
  BY <1>1 DEF CacheFresh, Refreshing, OneWorker
<1>2. ASSUME NEW w \in Workers, pc'[w] = "list" PROVE CacheFresh'
  BY <1>2 DEF CacheFresh, Refreshing, OneWorker
<1>3. ASSUME NEW w \in Workers, UpdateECM(w) PROVE CacheFresh'
  <2>1. CASE past' \cap {"renamed", "halfRenamed"} # {}
    BY <2>1 DEF CacheFresh
  <2>2. CASE past' \cap {"renamed", "halfRenamed"} = {}
    <3>1. past' = past /\ UNCHANGED <<ecm_stream, map, streams>>
      BY <1>3, <2>2 DEF UpdateECM, Cw
    <3>2. ~Refreshing(w) /\ pc'[w] # "cache"
      BY <1>3 DEF UpdateECM, Asks, Goto, Answer, Control, Refreshing
    <3>3. Scrambled(ecm_stream, map) \subseteq Scrambled(ecm_stream', map')
      BY <3>1
    <3> QED
      BY <1>1, <3>1, <3>2, <3>3
  <2> QED
    BY <2>1, <2>2
<1>4. ASSUME NEW w \in Workers, SetStream(w) PROVE CacheFresh'
  <2>1. UNCHANGED <<past, map, streams>>
    BY <1>4 DEF SetStream, Tables, Cw
  <2>2. \A i \in StreamIds : ecm_stream[i] # None => ecm_stream'[i] # None
    <3>1. pc[w] = "query" /\ req[w].do \in {"addStream", "updateStream"}
      BY <1>4 DEF SetStream, Asks
    <3>2. req[w].at # None
      BY <3>1, RequestFields, CasAssumption DEF Control
    <3> QED
      BY <1>4, <3>2 DEF SetStream, Tables, Data
  <2>3. ~Refreshing(w) /\ pc'[w] # "cache"
    BY <1>4 DEF SetStream, Asks, Goto, Answer, Control, Refreshing
  <2>4. Scrambled(ecm_stream, map) \subseteq Scrambled(ecm_stream', map')
    BY <2>1, <2>2 DEF Scrambled
  <2> QED
    BY <1>1, <2>1, <2>3, <2>4
<1>5. ASSUME NEW w \in Workers, Accept(w) \/ WorkerStep(w) PROVE CacheFresh'
  <2>1. CASE \/ Accept(w) \/ AddECM(w) \/ DeleteECM(w) \/ DeleteStream(w) \/ SetEMM(w)
             \/ DeleteEMM(w) \/ Spawn(w) \/ Mark(w) \/ Select(w) \/ PublishECM(w)
             \/ PublishStream(w) \/ PublishEMM(w) \/ UnpublishEMM(w)
    <3>1. past \subseteq past'
      BY <2>1 DEF Accept, AddECM, DeleteECM, DeleteStream, SetEMM, DeleteEMM, Spawn, Mark,
         Select, PublishECM, PublishStream, PublishEMM, UnpublishEMM, Tables
    <3>2. UNCHANGED <<streams, map, ecm_stream>>
      BY <2>1 DEF Accept, AddECM, DeleteECM, DeleteStream, SetEMM, DeleteEMM, Spawn, Mark,
         Select, PublishECM, PublishStream, PublishEMM, UnpublishEMM, Tables, Cw
    <3>3. ~Refreshing(w) /\ pc'[w] # "cache"
      BY <2>1 DEF Accept, AddECM, DeleteECM, DeleteStream, SetEMM, DeleteEMM, Spawn, Mark,
         Select, PublishECM, PublishStream, PublishEMM, UnpublishEMM, Asks, Publishes, Goto,
         Answer, Control, Refreshing
    <3>4. Scrambled(ecm_stream, map) \subseteq Scrambled(ecm_stream', map')
      BY <3>2
    <3> QED
      BY <1>1, <3>1, <3>2, <3>3, <3>4
  <2>2. CASE Scramble(w) \/ Descramble(w) \/ UnpublishECM(w) \/ UnpublishStream(w)
    <3>1. CASE pc'[w] = "list"
      BY <1>2, <3>1
    <3>2. CASE pc'[w] # "list"
      <4>1. past' = past /\ UNCHANGED <<streams, map, ecm_stream>>
        BY <2>2, <3>2 DEF Scramble, Descramble, UnpublishECM, UnpublishStream, Goto, Control, Cw
      <4>2. ~Refreshing(w) /\ pc'[w] # "cache"
        BY <2>2, <3>2 DEF Scramble, Descramble, UnpublishECM, UnpublishStream, Asks, Publishes,
           Goto, Answer, Control, Refreshing
      <4>3. Scrambled(ecm_stream, map) \subseteq Scrambled(ecm_stream', map')
        BY <4>1
      <4> QED
        BY <1>1, <4>1, <4>2, <4>3
    <3> QED
      BY <3>1, <3>2
  <2>3. CASE List(w)
    <3>1. /\ UNCHANGED <<ecm_stream, map, past>>
          /\ pc'[w] = "cache" /\ found'[w] = Scrambled(ecm_stream', map')
      BY <2>3 DEF List, Goto, Control, Data, Tables
    <3> QED
      BY <3>1 DEF CacheFresh, Refreshing, OneWorker
  <2>4. CASE Cache(w)
    <3>1. /\ UNCHANGED <<ecm_stream, map, past>>
          /\ pc[w] = "cache" /\ streams' = found[w]
          /\ pc'[w] \in {"spawn", "idle"}
      BY <2>4 DEF Cache, Goto, Answer, Control, Tables
    <3> QED
      BY <3>1 DEF CacheFresh, Refreshing, OneWorker
  <2> QED
    BY <1>3, <1>4, <1>5, <2>1, <2>2, <2>3, <2>4 DEF WorkerStep
<1>6. CASE CwRound
  BY <1>6 DEF CwRound, Tables, Cw, CacheFresh, Refreshing
<1>7. CASE Restart
  BY <1>7 DEF Restart, CacheFresh
<1>8. CASE UNCHANGED vars
  BY <1>8 DEF vars, CacheFresh, Refreshing
<1> QED
  BY <1>5, <1>6, <1>7, <1>8 DEF Next

(* As long as no channel changes its number, control words are sent only   *)
(* for streams that exist and scramble a service, after any requests,      *)
(* deletions and crashes, with one worker.                                 *)
THEOREM NoControlWordsForTheDead == ASSUME OneWorker PROVE Spec => []CwOnlyForScrambled
<1>1. Init => CacheFresh
  BY CasAssumption DEF Init, CacheFresh
<1>2. Control /\ Data /\ CacheFresh /\ [Next]_vars => CacheFresh'
  BY CacheFreshStep
<1>3. CacheFresh => CwOnlyForScrambled
  BY DEF CacheFresh, CwOnlyForScrambled, Quiet, Refreshing
<1>4. TypeOK => Control /\ Data
  BY TypeParts
<1> QED
  BY <1>1, <1>2, <1>3, <1>4, TypeCorrect, PTL DEF Spec

-------------------------------------------------------------------------------
(* The control word thread.                                                *)

(* The flag lags behind the thread only while a worker is between them.    *)
FlagTells ==
    /\ (\E w \in Workers : pc[w] = "mark") => ~created /\ threads = 1
    /\ (\A w \in Workers : pc[w] # "mark") => threads \in {0, 1} /\ (created <=> threads = 1)

LEMMA FlagTellsStep ==
    ASSUME OneWorker, Control, Data, FlagTells, [Next]_vars
    PROVE  FlagTells'
<1>1. ASSUME UNCHANGED <<created, threads>>,
             \A w \in Workers : pc'[w] = "mark" <=> pc[w] = "mark"
      PROVE  FlagTells'
  BY <1>1 DEF FlagTells
<1>2. ASSUME NEW w \in Workers, Spawn(w) PROVE FlagTells'
  <2>1. pc[w] = "spawn" /\ \A v \in Workers : v = w
    BY <1>2 DEF Spawn, OneWorker
  <2>2. threads \in {0, 1} /\ (created <=> threads = 1)
    BY <2>1 DEF FlagTells
  <2>3. CASE created
    BY <1>1, <1>2, <2>1, <2>3 DEF Spawn, Answer, Control
  <2>4. CASE ~created
    <3>1. pc'[w] = "mark" /\ threads' = threads + 1 /\ created' = created
      BY <1>2, <2>4 DEF Spawn, Goto, Control
    <3>2. threads' = 1 /\ ~created'
      BY <2>2, <2>4, <3>1
    <3> QED
      BY <2>1, <3>1, <3>2 DEF FlagTells
  <2> QED
    BY <2>3, <2>4
<1>3. ASSUME NEW w \in Workers, Mark(w) PROVE FlagTells'
  <2>1. pc[w] = "mark" /\ \A v \in Workers : v = w
    BY <1>3 DEF Mark, OneWorker
  <2>2. threads = 1
    BY <2>1 DEF FlagTells
  <2>3. created' /\ threads' = threads /\ pc'[w] = "idle"
    BY <1>3 DEF Mark, Answer, Control
  <2> QED
    BY <2>1, <2>2, <2>3 DEF FlagTells
<1>4. ASSUME NEW w \in Workers, Accept(w) PROVE FlagTells'
  BY <1>1, <1>4 DEF Accept, Cw, Control
<1>5. ASSUME NEW w \in Workers, WorkerStep(w), ~Spawn(w), ~Mark(w) PROVE FlagTells'
  <2>1. UNCHANGED <<created, threads>>
    BY <1>5 DEF WorkerStep, AddECM, UpdateECM, DeleteECM, SetStream, DeleteStream, SetEMM,
       DeleteEMM, Scramble, Descramble, List, Cache, Select, PublishECM, UnpublishECM,
       PublishStream, UnpublishStream, PublishEMM, UnpublishEMM, Cw
  <2>2. pc[w] \in {"query", "select", "publish", "list", "cache"}
    BY <1>5 DEF WorkerStep, AddECM, UpdateECM, DeleteECM, SetStream, DeleteStream, SetEMM,
       DeleteEMM, Scramble, Descramble, List, Cache, Select, PublishECM, UnpublishECM,
       PublishStream, UnpublishStream, PublishEMM, UnpublishEMM, Asks, Publishes
  <2>3. Answer(w) \/ \E label \in {"select", "publish", "list", "cache", "spawn"} : Goto(w, label)
    BY <1>5 DEF WorkerStep, AddECM, UpdateECM, DeleteECM, SetStream, DeleteStream, SetEMM,
       DeleteEMM, Scramble, Descramble, List, Cache, Select, PublishECM, UnpublishECM,
       PublishStream, UnpublishStream, PublishEMM, UnpublishEMM
  <2> QED
    BY <1>1, <2>1, <2>2, <2>3 DEF Answer, Goto, Control
<1>6. CASE CwRound
  BY <1>1, <1>6 DEF CwRound, Cw
<1>7. CASE Restart
  BY <1>7 DEF Restart, FlagTells
<1>8. CASE UNCHANGED vars
  BY <1>1, <1>8 DEF vars
<1> QED
  BY <1>2, <1>3, <1>4, <1>5, <1>6, <1>7, <1>8 DEF Next

(* With one worker there is at most one control word thread, and between   *)
(* requests the flag says whether there is one, also after restarts.       *)
THEOREM NeverTwoCwThreads == ASSUME OneWorker PROVE Spec => []OneCwThread
<1>1. Init => FlagTells
  BY DEF Init, FlagTells
<1>2. Control /\ Data /\ FlagTells /\ [Next]_vars => FlagTells'
  BY FlagTellsStep
<1>3. FlagTells => OneCwThread
  BY DEF FlagTells, OneCwThread, Quiet
<1>4. TypeOK => Control /\ Data
  BY TypeParts
<1> QED
  BY <1>1, <1>2, <1>3, <1>4, TypeCorrect, PTL DEF Spec
-------------------------------------------------------------------------------
(* The ECM channels.                                                       *)

(* A worker is between the row of a channel and its key.                   *)
Changing(w) == pc[w] \in {"select", "publish"} /\ req[w].do \in {"addECM", "updateECM"}

(* Outside a change rows and keys agree, and a change knows which rows it  *)
(* has written and has its database selected when it publishes them.       *)
EcmInv ==
    /\ \A c \in Channels :
          (\A w \in Workers : Changing(w) => c # req[w].c /\ c # OldChannel(req[w]))
             => Mirrors(lists[<<4, "ecm", c>>], ecmg[c])
    /\ \A w \in Workers : Changing(w) =>
          /\ ecmg[req[w].c] = req[w].p
          /\ OldChannel(req[w]) # req[w].c => ecmg[OldChannel(req[w])] = None
    /\ \A w \in Workers : pc[w] \in {"select", "publish"} /\ req[w].do = "deleteECM"
          => ecmg[req[w].c] # None
    /\ \A w \in Workers : pc[w] = "publish" /\ req[w].do \in {"addECM", "updateECM", "deleteECM"}
          => selected = 4

Channelled == "killed" \notin past => EcmInv

(* A step that has nothing to do with ECM channels.                        *)
LEMMA EcmUntouched ==
    ASSUME Channelled, past \subseteq past', selected' = selected \/ selected' = 4, ecmg' = ecmg,
           \A c \in Channels : lists'[<<4, "ecm", c>>] = lists[<<4, "ecm", c>>],
           \A w \in Workers : \/ pc'[w] = pc[w] /\ req'[w] = req[w]
                              \/ pc'[w] \in {"idle", "query", "list", "cache", "spawn", "mark"}
                                 /\ ~Changing(w)
                              \/ /\ pc'[w] = "select"
                                 /\ req'[w] = req[w]
                                 /\ req[w].do \notin {"addECM", "updateECM", "deleteECM"}
    PROVE  Channelled'
<1> SUFFICES ASSUME "killed" \notin past' PROVE EcmInv'
  BY DEF Channelled
<1>1. EcmInv
  BY DEF Channelled
<1>2. \A w \in Workers : Changing(w)' <=> Changing(w)
  BY DEF Changing
<1>3. \A w \in Workers : Changing(w) => req'[w] = req[w]
  BY DEF Changing
<1>4. \A w \in Workers :
         pc'[w] \in {"select", "publish"} /\ req'[w].do \in {"addECM", "updateECM", "deleteECM"}
            => pc'[w] = pc[w] /\ req'[w] = req[w]
  OBVIOUS
<1>5. \A c \in Channels :
         (\A w \in Workers : Changing(w)' => c # req'[w].c /\ c # OldChannel(req'[w]))
            => Mirrors(lists'[<<4, "ecm", c>>], ecmg'[c])
  BY <1>1, <1>2, <1>3 DEF EcmInv
<1>6. \A w \in Workers : Changing(w)' =>
         /\ ecmg'[req'[w].c] = req'[w].p
         /\ OldChannel(req'[w]) # req'[w].c => ecmg'[OldChannel(req'[w])] = None
  BY <1>1, <1>2, <1>3 DEF EcmInv
<1>7. \A w \in Workers : pc'[w] \in {"select", "publish"} /\ req'[w].do = "deleteECM"
         => ecmg'[req'[w].c] # None
  BY <1>1, <1>4 DEF EcmInv
<1>8. \A w \in Workers : pc'[w] = "publish" /\ req'[w].do \in {"addECM", "updateECM", "deleteECM"}
         => selected' = 4
  BY <1>1, <1>4 DEF EcmInv
<1> QED
  BY <1>5, <1>6, <1>7, <1>8 DEF EcmInv

LEMMA EcmMirrors ==
    ASSUME OneWorker, EcmInv, NEW w \in Workers, ~Changing(w), NEW c \in Channels
    PROVE  Mirrors(lists[<<4, "ecm", c>>], ecmg[c])
  BY DEF OneWorker, EcmInv

LEMMA EcmSettled ==
    ASSUME OneWorker, NEW w \in Workers, pc'[w] \in {"idle", "list"},
           \A c \in Channels : Mirrors(lists'[<<4, "ecm", c>>], ecmg'[c])
    PROVE  EcmInv'
<1>1. \A v \in Workers : pc'[v] \in {"idle", "list"}
  BY DEF OneWorker
<1> QED
  BY <1>1 DEF EcmInv, Changing

(* An ECM request has changed its rows.                                    *)
LEMMA EcmChanges ==
    ASSUME OneWorker, Control, Data, EcmInv, NEW w \in Workers, ~Changing(w),
           pc[w] = "query", req[w].do \in {"addECM", "updateECM"}, Goto(w, "select"),
           UNCHANGED lists, ecmg'[req[w].c] = req[w].p,
           OldChannel(req[w]) # req[w].c => ecmg'[OldChannel(req[w])] = None,
           \A c \in Channels : c # req[w].c /\ c # OldChannel(req[w]) => ecmg'[c] = ecmg[c]
    PROVE  EcmInv'
<1>1. pc'[w] = "select" /\ req' = req /\ \A v \in Workers : v = w
  BY DEF Goto, Control, OneWorker
<1>2. Changing(w)'
  BY <1>1 DEF Changing
<1>3. \A c \in Channels : c # req[w].c /\ c # OldChannel(req[w])
         => Mirrors(lists'[<<4, "ecm", c>>], ecmg'[c])
  BY EcmMirrors
<1> QED
  BY <1>1, <1>2, <1>3 DEF EcmInv

LEMMA ChannelledStep ==
    ASSUME OneWorker, Control, Data, Channelled, [Next]_vars
    PROVE  Channelled'
<1>0. ASSUME NEW w \in Workers, pc[w] # "idle" PROVE req[w] \in Requests
  BY <1>0 DEF Control
<1>1. ASSUME NEW w \in Workers, AddECM(w) PROVE Channelled'
  <2>1. pc[w] = "query" /\ req[w].do = "addECM" /\ past' = past /\ UNCHANGED Redis
    BY <1>1 DEF AddECM, Asks, Tables
  <2>2. CASE Answer(w) /\ UNCHANGED Tables
    BY <2>1, <2>2, EcmUntouched DEF Answer, Control, Redis, Tables, Changing
  <2>3. CASE ecmg' = [ecmg EXCEPT ![req[w].c] = req[w].p] /\ Goto(w, "select")
    <3>1. req[w].c \in Channels /\ OldChannel(req[w]) = req[w].c
      BY <1>0, <2>1, RequestFields DEF OldChannel
    <3>2. ~Changing(w)
      BY <2>1 DEF Changing
    <3> QED
      BY <2>1, <2>3, <3>1, <3>2, EcmChanges DEF Channelled, Data, Redis
  <2> QED
    BY <1>1, <2>2, <2>3 DEF AddECM
<1>2. ASSUME NEW w \in Workers, UpdateECM(w) PROVE Channelled'
  <2>1. pc[w] = "query" /\ req[w].do = "updateECM" /\ past \subseteq past' /\ UNCHANGED Redis
    BY <1>2 DEF UpdateECM, Asks
  <2>2. CASE Answer(w) /\ UNCHANGED ecmg
    BY <2>1, <2>2, EcmUntouched DEF Answer, Control, Redis, Changing
  <2>3. CASE /\ ecmg' = [ecmg EXCEPT ![req[w].old] = None, ![req[w].c] = req[w].p]
             /\ Goto(w, "select")
    <3>1. req[w].c \in Channels /\ req[w].old \in Channels /\ OldChannel(req[w]) = req[w].old
      BY <1>0, <2>1, RequestFields DEF OldChannel
    <3>2. ~Changing(w)
      BY <2>1 DEF Changing
    <3>3. /\ ecmg'[req[w].c] = req[w].p
          /\ req[w].old # req[w].c => ecmg'[req[w].old] = None
          /\ \A c \in Channels : c # req[w].c /\ c # req[w].old => ecmg'[c] = ecmg[c]
      BY <2>3, <3>1 DEF Data
    <3> QED
      BY <2>1, <2>3, <3>1, <3>2, <3>3, EcmChanges DEF Channelled, Redis
  <2> QED
    BY <1>2, <2>2, <2>3 DEF UpdateECM
<1>3. ASSUME NEW w \in Workers, DeleteECM(w) PROVE Channelled'
  <2>1. pc[w] = "query" /\ req[w].do = "deleteECM" /\ UNCHANGED <<Tables, Redis, past>>
    BY <1>3 DEF DeleteECM, Asks
  <2>2. CASE Answer(w)
    BY <2>1, <2>2, EcmUntouched DEF Answer, Control, Redis, Tables, Changing
  <2>3. CASE ecmg[req[w].c] # None /\ Goto(w, "select")
    <3>1. pc'[w] = "select" /\ req' = req /\ \A v \in Workers : v = w
      BY <2>3 DEF Goto, Control, OneWorker
    <3>2. ~Changing(w) /\ ~Changing(w)'
      BY <2>1, <3>1 DEF Changing
    <3> QED
      BY <2>1, <2>3, <3>1, <3>2, EcmMirrors DEF EcmInv, Channelled, Tables, Redis
  <2> QED
    BY <1>3, <2>2, <2>3 DEF DeleteECM
<1>4. ASSUME NEW w \in Workers, Select(w) PROVE Channelled'
  <2>1. /\ pc[w] = "select" /\ UNCHANGED <<Tables, lists, past>>
        /\ selected' = IF req[w].do \in EmmRequests THEN 3 ELSE 4
    BY <1>4 DEF Select
  <2>2. pc'[w] = "publish" /\ req' = req /\ \A v \in Workers : v = w
    BY <1>4 DEF Select, Goto, Control, OneWorker
  <2>3. Changing(w)' <=> Changing(w)
    BY <2>1, <2>2 DEF Changing
  <2> QED
    BY <2>1, <2>2, <2>3 DEF EcmInv, Channelled, EmmRequests, Tables
<1>5. ASSUME NEW w \in Workers, PublishECM(w) PROVE Channelled'
  <2> DEFINE r == req[w]
  <2> SUFFICES ASSUME "killed" \notin past' PROVE EcmInv'
    BY DEF Channelled
  <2>1. EcmInv
    BY <1>5 DEF Channelled, PublishECM
  <2>2. pc[w] = "publish" /\ r.do \in {"addECM", "updateECM"} /\ Changing(w) /\ ecmg' = ecmg
    BY <1>5 DEF PublishECM, Publishes, Changing, Tables
  <2>3. r.c \in Channels /\ OldChannel(r) \in Channels /\ r.p \in Params
    BY <1>0, <2>2, RequestFields
  <2>4. /\ selected = 4 /\ ecmg[r.c] = r.p
        /\ OldChannel(r) # r.c => ecmg[OldChannel(r)] = None
    BY <2>1, <2>2 DEF EcmInv
  <2>5. lists' = [lists EXCEPT ![<<4, "ecm", OldChannel(r)>>] = None,
                               ![<<4, "ecm", r.c>>] = [p |-> r.p, deleted |-> FALSE]]
    BY <1>5, <2>4 DEF PublishECM, SetChannel
  <2>6. ASSUME NEW c \in Channels PROVE Mirrors(lists'[<<4, "ecm", c>>], ecmg'[c])
    <3> HIDE DEF r
    <3>1. <<4, "ecm", c>> \in Databases \X {"ecm", "emm"} \X Channels
      BY DEF Databases
    <3>2. CASE c = r.c
      BY <2>2, <2>3, <2>4, <2>5, <3>1, <3>2, CasAssumption DEF Mirrors, Data
    <3>3. CASE c # r.c /\ c = OldChannel(r)
      BY <2>2, <2>3, <2>4, <2>5, <3>1, <3>3 DEF Mirrors, Data
    <3>4. CASE c # r.c /\ c # OldChannel(r)
      <4>1. lists'[<<4, "ecm", c>>] = lists[<<4, "ecm", c>>]
        BY <2>5, <3>1, <3>4 DEF Data
      <4>2. Mirrors(lists[<<4, "ecm", c>>], ecmg[c])
        BY <2>1, <3>4 DEF EcmInv, OneWorker, r
      <4> QED
        BY <2>2, <4>1, <4>2
    <3> QED
      BY <3>2, <3>3, <3>4
  <2>7. pc'[w] = "idle"
    BY <1>5 DEF PublishECM, Answer, Control
  <2> QED
    BY <2>6, <2>7, EcmSettled
<1>6. ASSUME NEW w \in Workers, UnpublishECM(w) PROVE Channelled'
  <2> DEFINE key == <<4, "ecm", req[w].c>>
  <2> SUFFICES ASSUME "killed" \notin past' PROVE EcmInv'
    BY DEF Channelled
  <2>1. EcmInv
    BY <1>6 DEF Channelled, UnpublishECM
  <2>2. pc[w] = "publish" /\ req[w].do = "deleteECM" /\ ~Changing(w)
    BY <1>6 DEF UnpublishECM, Publishes, Changing
  <2>3. req[w].c \in Channels
    BY <1>0, <2>2, RequestFields
  <2>4. selected = 4 /\ ecmg[req[w].c] # None
    BY <2>1, <2>2 DEF EcmInv
  <2>5. lists[key] = [p |-> ecmg[req[w].c], deleted |-> FALSE]
    BY <2>1, <2>2, <2>3, <2>4, EcmMirrors DEF Mirrors
  <2>6. lists[key] \in Entries
    BY <2>3, <2>4, <2>5 DEF Entries, Data
  <2>7. lists' = Marked(key) /\ ecmg' = [ecmg EXCEPT ![req[w].c] = None]
    BY <1>6, <2>4, <2>6, CasAssumption DEF UnpublishECM
  <2>8. key \in Databases \X {"ecm", "emm"} \X Channels
    BY <2>3 DEF Databases
  <2>9. lists'[key] = [lists[key] EXCEPT !.deleted = TRUE]
    BY <2>7, <2>8 DEF Marked, Data
  <2>10. lists'[key].deleted
    BY <2>6, <2>9 DEF Entries
  <2>11. ASSUME NEW c \in Channels PROVE Mirrors(lists'[<<4, "ecm", c>>], ecmg'[c])
    <3>1. CASE c = req[w].c
      BY <2>7, <2>10, <3>1 DEF Mirrors, Data
    <3>2. CASE c # req[w].c
      <4>1. lists'[<<4, "ecm", c>>] = lists[<<4, "ecm", c>>] /\ ecmg'[c] = ecmg[c]
        BY <2>3, <2>7, <3>2 DEF Marked, Data, Databases
      <4> QED
        BY <2>1, <2>2, <4>1, EcmMirrors
    <3> QED
      BY <3>1, <3>2
  <2>12. pc'[w] \in {"idle", "list"}
    BY <1>6 DEF UnpublishECM, Answer, Goto, Control
  <2> QED
    BY <2>11, <2>12, EcmSettled
<1>7. ASSUME NEW w \in Workers,
             \/ Accept(w) \/ SetStream(w) \/ DeleteStream(w) \/ SetEMM(w) \/ DeleteEMM(w)
             \/ Scramble(w) \/ Descramble(w) \/ List(w) \/ Cache(w) \/ Spawn(w) \/ Mark(w)
             \/ PublishStream(w) \/ UnpublishStream(w) \/ PublishEMM(w) \/ UnpublishEMM(w)
      PROVE  Channelled'
  <2>1. UNCHANGED <<past, selected, ecmg>>
    BY <1>7 DEF Accept, SetStream, DeleteStream, SetEMM, DeleteEMM, Scramble, Descramble,
       List, Cache, Spawn, Mark, PublishStream, UnpublishStream, PublishEMM, UnpublishEMM,
       Tables, Redis
  <2>2. \A c \in Channels : lists'[<<4, "ecm", c>>] = lists[<<4, "ecm", c>>]
    <3>1. CASE PublishEMM(w) \/ UnpublishEMM(w)
      <4>1. \/ lists' = lists
            \/ \E x : lists' = [lists EXCEPT ![<<selected, "emm", req[w].c>>] = x]
        BY <3>1 DEF PublishEMM, UnpublishEMM, Marked
      <4> QED
        BY <4>1 DEF Data, Databases
    <3>2. CASE ~(PublishEMM(w) \/ UnpublishEMM(w))
      BY <1>7, <3>2 DEF Accept, SetStream, DeleteStream, SetEMM, DeleteEMM, Scramble,
         Descramble, List, Cache, Spawn, Mark, PublishStream, UnpublishStream, Redis
    <3> QED
      BY <3>1, <3>2
  <2>3. CASE Accept(w)
    BY <2>1, <2>2, <2>3, EcmUntouched DEF Accept, Control, Changing
  <2>4. CASE ~Accept(w)
    <3>1. \/ pc[w] \in {"list", "cache", "spawn", "mark"}
          \/ req[w].do \notin {"addECM", "updateECM", "deleteECM"}
      BY <1>7, <2>4 DEF SetStream, DeleteStream, SetEMM, DeleteEMM, Scramble, Descramble,
         List, Cache, Spawn, Mark, PublishStream, UnpublishStream, PublishEMM, UnpublishEMM, Asks,
         Publishes, EmmRequests
    <3>2. \/ Answer(w) \/ Goto(w, "list") \/ Goto(w, "cache")
          \/ Goto(w, "spawn") \/ Goto(w, "mark") \/ Goto(w, "select")
      BY <1>7, <2>4 DEF SetStream, DeleteStream, SetEMM, DeleteEMM, Scramble, Descramble,
         List, Cache, Spawn, Mark, PublishStream, UnpublishStream, PublishEMM, UnpublishEMM
    <3>3. pc[w] \in {"list", "cache", "spawn", "mark"} =>
             Answer(w) \/ Goto(w, "cache") \/ Goto(w, "spawn") \/ Goto(w, "mark")
      BY <1>7, <2>4 DEF SetStream, DeleteStream, SetEMM, DeleteEMM, Scramble, Descramble,
         List, Cache, Spawn, Mark, PublishStream, UnpublishStream, PublishEMM, UnpublishEMM, Asks,
         Publishes
    <3>4. ~Changing(w)
      BY <3>1 DEF Changing
    <3>5. \A v \in Workers : v = w
      BY DEF OneWorker
    <3>6. \/ pc'[w] \in {"idle", "list", "cache", "spawn", "mark"}
          \/ /\ pc'[w] = "select" /\ req'[w] = req[w]
             /\ req[w].do \notin {"addECM", "updateECM", "deleteECM"}
      BY <3>1, <3>2, <3>3 DEF Answer, Goto, Control
    <3> QED
      BY <2>1, <2>2, <3>4, <3>5, <3>6, EcmUntouched
  <2> QED
    BY <2>3, <2>4
<1>8. CASE CwRound
  BY <1>8, EcmUntouched DEF CwRound, Tables
<1>9. CASE Restart
  <2>1. CASE \A w \in Workers : pc[w] = "idle"
    <3>1. /\ past' = past /\ UNCHANGED <<ecmg, lists>>
          /\ \A w \in Workers : pc'[w] = "idle"
      BY <1>9, <2>1 DEF Restart, Tables
    <3>2. \A w \in Workers : ~Changing(w) /\ ~Changing(w)'
      BY <2>1, <3>1 DEF Changing
    <3> QED
      BY <3>1, <3>2 DEF Channelled, EcmInv
  <2>2. CASE ~\A w \in Workers : pc[w] = "idle"
    BY <1>9, <2>2 DEF Restart, Channelled
  <2> QED
    BY <2>1, <2>2
<1>10. CASE UNCHANGED vars
  BY <1>10, EcmUntouched DEF vars
<1> QED
  BY <1>1, <1>2, <1>3, <1>4, <1>5, <1>6, <1>7, <1>8, <1>9, <1>10 DEF Next, WorkerStep
(* With one worker the CAS process sees the ECM channels of the table      *)
(* between requests, whatever control word threads do in the meantime.     *)
THEOREM ChannelsStayInAgreement == ASSUME OneWorker PROVE Spec => []ChannelsAgree
<1>1. Init => Channelled
  <2> SUFFICES ASSUME Init PROVE EcmInv
    BY DEF Channelled
  <2>1. \A w \in Workers : pc[w] = "idle" /\ ~Changing(w)
    BY DEF Init, Changing
  <2>2. ASSUME NEW c \in Channels PROVE Mirrors(lists[<<4, "ecm", c>>], ecmg[c])
    BY DEF Init, Mirrors, Databases
  <2> QED
    BY <2>1, <2>2 DEF EcmInv
<1>2. Control /\ Data /\ Channelled /\ [Next]_vars => Channelled'
  BY ChannelledStep
<1>3. Channelled => ChannelsAgree
  BY DEF Channelled, EcmInv, Changing, ChannelsAgree, Quiet
<1>4. TypeOK => Control /\ Data
  BY TypeParts
<1> QED
  BY <1>1, <1>2, <1>3, <1>4, TypeCorrect, PTL DEF Spec
-------------------------------------------------------------------------------
(* The EMM channels, until a control word thread has selected database 4.  *)

Setting(w) == pc[w] \in {"select", "publish"} /\ req[w].do \in {"addEMM", "updateEMM"}

EmmInv ==
    /\ \A c \in Channels : (\A w \in Workers : Setting(w) => c # req[w].c)
          => Mirrors(lists[<<3, "emm", c>>], emmg[c])
    /\ \A w \in Workers : Setting(w) => emmg[req[w].c] = req[w].p
    /\ \A w \in Workers : pc[w] \in {"select", "publish"} /\ req[w].do = "deleteEMM"
          => emmg[req[w].c] # None
    /\ \A w \in Workers : pc[w] = "publish" /\ req[w].do \in EmmRequests => selected = 3

Uncrossed == past \cap {"killed", "cw"} = {} => EmmInv

LEMMA EmmMirrors ==
    ASSUME OneWorker, EmmInv, NEW w \in Workers, ~Setting(w), NEW c \in Channels
    PROVE  Mirrors(lists[<<3, "emm", c>>], emmg[c])
  BY DEF OneWorker, EmmInv

LEMMA EmmIdle ==
    ASSUME OneWorker, NEW w \in Workers, pc'[w] = "idle",
           \A c \in Channels : Mirrors(lists'[<<3, "emm", c>>], emmg'[c])
    PROVE  EmmInv'
<1>1. \A v \in Workers : pc'[v] = "idle"
  BY DEF OneWorker
<1> QED
  BY <1>1 DEF EmmInv, Setting

(* The step of a worker that leaves rows and keys of EMM channels alone.   *)
LEMMA EmmUntouched ==
    ASSUME OneWorker, Uncrossed, past \subseteq past', emmg' = emmg,
           \A c \in Channels : lists'[<<3, "emm", c>>] = lists[<<3, "emm", c>>],
           NEW w \in Workers, ~Setting(w),
           \/ pc'[w] \in {"idle", "query", "list", "cache", "spawn", "mark"}
           \/ req'[w].do \notin EmmRequests
    PROVE  Uncrossed'
<1> SUFFICES ASSUME past' \cap {"killed", "cw"} = {} PROVE EmmInv'
  BY DEF Uncrossed
<1>1. EmmInv
  BY DEF Uncrossed
<1>2. \A v \in Workers : v = w
  BY DEF OneWorker
<1>3. ~Setting(w)' /\ ~(pc'[w] \in {"select", "publish"} /\ req'[w].do \in EmmRequests)
  BY DEF Setting, EmmRequests
<1>4. \A c \in Channels : Mirrors(lists'[<<3, "emm", c>>], emmg'[c])
  BY <1>1, EmmMirrors
<1> QED
  BY <1>2, <1>3, <1>4 DEF EmmInv, EmmRequests

LEMMA UncrossedStep ==
    ASSUME OneWorker, Control, Data, Uncrossed, [Next]_vars
    PROVE  Uncrossed'
<1>0. ASSUME NEW w \in Workers, pc[w] # "idle" PROVE req[w] \in Requests
  BY <1>0 DEF Control
<1>1. ASSUME NEW w \in Workers, SetEMM(w) PROVE Uncrossed'
  <2>1. pc[w] = "query" /\ req[w].do \in {"addEMM", "updateEMM"} /\ past' = past
        /\ UNCHANGED Redis /\ ~Setting(w)
    BY <1>1 DEF SetEMM, Asks, Tables, Setting
  <2>2. CASE Answer(w) /\ UNCHANGED Tables
    BY <2>1, <2>2, EmmUntouched DEF Answer, Control, Redis, Tables
  <2>3. CASE emmg' = [emmg EXCEPT ![req[w].c] = req[w].p] /\ Goto(w, "select")
    <3> SUFFICES ASSUME past' \cap {"killed", "cw"} = {} PROVE EmmInv'
      BY DEF Uncrossed
    <3>1. pc'[w] = "select" /\ req' = req /\ \A v \in Workers : v = w
      BY <2>3 DEF Goto, Control, OneWorker
    <3>2. Setting(w)' /\ req[w].c \in Channels
      BY <1>0, <2>1, <3>1, RequestFields DEF Setting
    <3>3. emmg'[req[w].c] = req[w].p
      BY <2>3, <3>2 DEF Data
    <3>4. \A c \in Channels : c # req[w].c => Mirrors(lists'[<<3, "emm", c>>], emmg'[c])
      BY <2>1, <2>3, <3>2, EmmMirrors DEF Uncrossed, Data, Redis
    <3> QED
      BY <2>1, <3>1, <3>2, <3>3, <3>4 DEF EmmInv
  <2> QED
    BY <1>1, <2>2, <2>3 DEF SetEMM
<1>2. ASSUME NEW w \in Workers, DeleteEMM(w) PROVE Uncrossed'
  <2>1. pc[w] = "query" /\ req[w].do = "deleteEMM" /\ UNCHANGED <<Tables, Redis, past>>
        /\ ~Setting(w)
    BY <1>2 DEF DeleteEMM, Asks, Setting
  <2>2. CASE Answer(w)
    BY <2>1, <2>2, EmmUntouched DEF Answer, Control, Redis, Tables
  <2>3. CASE emmg[req[w].c] # None /\ Goto(w, "select")
    <3>1. pc'[w] = "select" /\ req' = req /\ \A v \in Workers : v = w
      BY <2>3 DEF Goto, Control, OneWorker
    <3>2. ~Setting(w)'
      BY <2>1, <3>1 DEF Setting
    <3> QED
      BY <2>1, <2>3, <3>1, <3>2, EmmMirrors DEF EmmInv, Uncrossed, Tables, Redis
  <2> QED
    BY <1>2, <2>2, <2>3 DEF DeleteEMM
<1>3. ASSUME NEW w \in Workers, Select(w) PROVE Uncrossed'
  <2>1. /\ pc[w] = "select" /\ UNCHANGED <<Tables, lists, past>>
        /\ selected' = IF req[w].do \in EmmRequests THEN 3 ELSE 4
    BY <1>3 DEF Select
  <2>2. pc'[w] = "publish" /\ req' = req /\ \A v \in Workers : v = w
    BY <1>3 DEF Select, Goto, Control, OneWorker
  <2>3. Setting(w)' <=> Setting(w)
    BY <2>1, <2>2 DEF Setting
  <2> QED
    BY <2>1, <2>2, <2>3 DEF EmmInv, Uncrossed, Tables
<1>4. ASSUME NEW w \in Workers, PublishEMM(w) PROVE Uncrossed'
  <2> DEFINE r == req[w]
  <2> SUFFICES ASSUME past' \cap {"killed", "cw"} = {} PROVE EmmInv'
    BY DEF Uncrossed
  <2>1. EmmInv
    BY <1>4 DEF Uncrossed, PublishEMM
  <2>2. pc[w] = "publish" /\ r.do \in {"addEMM", "updateEMM"} /\ Setting(w) /\ emmg' = emmg
    BY <1>4 DEF PublishEMM, Publishes, Setting, Tables
  <2>3. r.c \in Channels /\ r.p \in Params
    BY <1>0, <2>2, RequestFields
  <2>4. selected = 3 /\ emmg[r.c] = r.p
    BY <2>1, <2>2 DEF EmmInv, EmmRequests
  <2>5. lists' = [lists EXCEPT ![<<3, "emm", r.c>>] = [p |-> r.p, deleted |-> FALSE]]
    BY <1>4, <2>4 DEF PublishEMM
  <2>6. ASSUME NEW c \in Channels PROVE Mirrors(lists'[<<3, "emm", c>>], emmg'[c])
    <3> HIDE DEF r
    <3>1. <<3, "emm", c>> \in Databases \X {"ecm", "emm"} \X Channels
      BY DEF Databases
    <3>2. CASE c = r.c
      BY <2>2, <2>3, <2>4, <2>5, <3>1, <3>2, CasAssumption DEF Mirrors, Data
    <3>3. CASE c # r.c
      <4>1. lists'[<<3, "emm", c>>] = lists[<<3, "emm", c>>]
        BY <2>5, <3>1, <3>3 DEF Data
      <4>2. Mirrors(lists[<<3, "emm", c>>], emmg[c])
        BY <2>1, <3>3 DEF EmmInv, OneWorker, r
      <4> QED
        BY <2>2, <4>1, <4>2
    <3> QED
      BY <3>2, <3>3
  <2>7. pc'[w] = "idle"
    BY <1>4 DEF PublishEMM, Answer, Control
  <2> QED
    BY <2>6, <2>7, EmmIdle
<1>5. ASSUME NEW w \in Workers, UnpublishEMM(w) PROVE Uncrossed'
  <2> DEFINE key == <<3, "emm", req[w].c>>
  <2> SUFFICES ASSUME past' \cap {"killed", "cw"} = {} PROVE EmmInv'
    BY DEF Uncrossed
  <2>1. EmmInv
    BY <1>5 DEF Uncrossed, UnpublishEMM
  <2>2. pc[w] = "publish" /\ req[w].do = "deleteEMM" /\ ~Setting(w)
    BY <1>5 DEF UnpublishEMM, Publishes, Setting
  <2>3. req[w].c \in Channels
    BY <1>0, <2>2, RequestFields
  <2>4. selected = 3 /\ emmg[req[w].c] # None
    BY <2>1, <2>2 DEF EmmInv, EmmRequests
  <2>5. lists[key] = [p |-> emmg[req[w].c], deleted |-> FALSE]
    BY <2>1, <2>2, <2>3, <2>4, EmmMirrors DEF Mirrors
  <2>6. lists[key] \in Entries
    BY <2>3, <2>4, <2>5 DEF Entries, Data
  <2>7. lists' = Marked(key) /\ emmg' = [emmg EXCEPT ![req[w].c] = None]
    BY <1>5, <2>4, <2>6, CasAssumption DEF UnpublishEMM
  <2>8. key \in Databases \X {"ecm", "emm"} \X Channels
    BY <2>3 DEF Databases
  <2>9. lists'[key] = [lists[key] EXCEPT !.deleted = TRUE]
    BY <2>7, <2>8 DEF Marked, Data
  <2>10. lists'[key].deleted
    BY <2>6, <2>9 DEF Entries
  <2>11. ASSUME NEW c \in Channels PROVE Mirrors(lists'[<<3, "emm", c>>], emmg'[c])
    <3>1. CASE c = req[w].c
      BY <2>7, <2>10, <3>1 DEF Mirrors, Data
    <3>2. CASE c # req[w].c
      <4>1. lists'[<<3, "emm", c>>] = lists[<<3, "emm", c>>] /\ emmg'[c] = emmg[c]
        BY <2>3, <2>7, <3>2 DEF Marked, Data, Databases
      <4> QED
        BY <2>1, <2>2, <4>1, EmmMirrors
    <3> QED
      BY <3>1, <3>2
  <2>12. pc'[w] = "idle"
    BY <1>5 DEF UnpublishEMM, Answer, Control
  <2> QED
    BY <2>11, <2>12, EmmIdle
<1>6. ASSUME NEW w \in Workers, Accept(w) PROVE Uncrossed'
  BY <1>6, EmmUntouched DEF Accept, Control, Tables, Redis, Setting
<1>7. ASSUME NEW w \in Workers, List(w) \/ Cache(w) \/ Spawn(w) \/ Mark(w) PROVE Uncrossed'
  <2>1. pc'[w] \in {"idle", "cache", "spawn", "mark"} /\ ~Setting(w)
    BY <1>7 DEF List, Cache, Spawn, Mark, Goto, Answer, Control, Setting
  <2> QED
    BY <1>7, <2>1, EmmUntouched DEF List, Cache, Spawn, Mark, Tables, Redis
<1>8. ASSUME NEW w \in Workers,
             \/ AddECM(w) \/ UpdateECM(w) \/ DeleteECM(w) \/ SetStream(w) \/ DeleteStream(w)
             \/ Scramble(w) \/ Descramble(w) \/ PublishECM(w) \/ UnpublishECM(w)
             \/ PublishStream(w) \/ UnpublishStream(w)
      PROVE  Uncrossed'
  <2>1. emmg' = emmg
    BY <1>8 DEF AddECM, UpdateECM, DeleteECM, SetStream, DeleteStream, Scramble, Descramble,
       PublishECM, UnpublishECM, PublishStream, UnpublishStream, Tables
  <2>2. past \subseteq past'
    BY <1>8 DEF AddECM, UpdateECM, DeleteECM, SetStream, DeleteStream, Scramble, Descramble,
       PublishECM, UnpublishECM, PublishStream, UnpublishStream, Tables
  <2>3. \A c \in Channels : lists'[<<3, "emm", c>>] = lists[<<3, "emm", c>>]
    <3>1. CASE PublishECM(w)
      BY <3>1 DEF PublishECM, SetChannel, Data, Databases
    <3>2. CASE UnpublishECM(w)
      BY <3>2 DEF UnpublishECM, Marked, Data, Databases
    <3>3. CASE ~PublishECM(w) /\ ~UnpublishECM(w)
      BY <1>8, <3>3 DEF AddECM, UpdateECM, DeleteECM, SetStream, DeleteStream, Scramble,
         Descramble, PublishStream, UnpublishStream, Redis
    <3> QED
      BY <3>1, <3>2, <3>3
  <2>4. req[w].do \notin EmmRequests
    BY <1>8 DEF AddECM, UpdateECM, DeleteECM, SetStream, DeleteStream, Scramble, Descramble,
       PublishECM, UnpublishECM, PublishStream, UnpublishStream, Asks, Publishes, EmmRequests
  <2>5. Answer(w) \/ \E label \in {"select", "list"} : Goto(w, label)
    BY <1>8 DEF AddECM, UpdateECM, DeleteECM, SetStream, DeleteStream, Scramble, Descramble,
       PublishECM, UnpublishECM, PublishStream, UnpublishStream
  <2>6. ~Setting(w) /\ (pc'[w] = "idle" \/ req'[w].do \notin EmmRequests)
    BY <2>4, <2>5 DEF Setting, EmmRequests, Answer, Goto, Control
  <2> QED
    BY <2>1, <2>2, <2>3, <2>6, EmmUntouched
<1>9. CASE CwRound
  BY <1>9 DEF CwRound, Uncrossed
<1>10. CASE Restart
  <2>1. CASE \A w \in Workers : pc[w] = "idle"
    <3>1. /\ past' = past /\ UNCHANGED <<emmg, lists>>
          /\ \A w \in Workers : pc'[w] = "idle"
      BY <1>10, <2>1 DEF Restart, Tables
    <3>2. \A w \in Workers : ~Setting(w) /\ ~Setting(w)'
      BY <2>1, <3>1 DEF Setting
    <3> QED
      BY <3>1, <3>2 DEF Uncrossed, EmmInv
  <2>2. CASE ~\A w \in Workers : pc[w] = "idle"
    BY <1>10, <2>2 DEF Restart, Uncrossed
  <2> QED
    BY <2>1, <2>2
<1>11. CASE UNCHANGED vars
  BY <1>11 DEF vars, Uncrossed, EmmInv, Setting
<1> QED
  BY <1>1, <1>2, <1>3, <1>4, <1>5, <1>6, <1>7, <1>8, <1>9, <1>10, <1>11 DEF Next, WorkerStep

(* With one worker the CAS process sees the EMM channels of the table      *)
(* between requests, as long as no control word thread has run.            *)
THEOREM EmmChannelsStayInAgreement == ASSUME OneWorker PROVE Spec => []EmmChannelsAgree
<1>1. Init => Uncrossed
  <2> SUFFICES ASSUME Init PROVE EmmInv
    BY DEF Uncrossed
  <2>1. \A w \in Workers : pc[w] = "idle" /\ ~Setting(w)
    BY DEF Init, Setting
  <2>2. ASSUME NEW c \in Channels PROVE Mirrors(lists[<<3, "emm", c>>], emmg[c])
    BY DEF Init, Mirrors, Databases
  <2> QED
    BY <2>1, <2>2 DEF EmmInv
<1>2. Control /\ Data /\ Uncrossed /\ [Next]_vars => Uncrossed'
  BY UncrossedStep
<1>3. Uncrossed => EmmChannelsAgree
  BY DEF Uncrossed, EmmInv, Setting, EmmChannelsAgree, Quiet
<1>4. TypeOK => Control /\ Data
  BY TypeParts
<1> QED
  BY <1>1, <1>2, <1>3, <1>4, TypeCorrect, PTL DEF Spec
-------------------------------------------------------------------------------
(* The keys of the streams.                                                *)

(* No other stream's pattern finds the key of stream s.                    *)
Clear(s) == \A n \in Streams \ {s} : ~Begins(n, s)
KeyOf(c, s, at) == [d |-> 4, c |-> c, s |-> s, at |-> at, deleted |-> FALSE]
HasKey(c, s) ==
    ecm_stream[<<c, s>>] # None /\ Clear(s) => KeyOf(c, s, ecm_stream[<<c, s>>]) \in stream_keys

(* A key of Redis has one value.                                           *)
OneValue == \A k, l \in stream_keys : Name(k) = Name(l) => k = l

(* A stream's row has a channel's row.                                     *)
Backed == \A c \in Channels, s \in Streams : ecm_stream[<<c, s>>] # None => ecmg[c] # None

Writing(w) == pc[w] \in {"select", "publish"} /\ req[w].do \in {"addStream", "updateStream"}
Moving(w) == /\ pc[w] \in {"select", "publish"} /\ req[w].do = "updateECM"
             /\ req[w].c # req[w].old

(* Of the rows a request has written it is known where their keys are, and *)
(* database 4 is selected when it comes to the keys.                       *)
StreamInv ==
    /\ OneValue
    /\ Backed
    /\ \A c \in Channels, s \in Streams :
          (\A w \in Workers : /\ ~(Writing(w) /\ c = req[w].c /\ s = req[w].s)
                              /\ ~(Moving(w) /\ c = req[w].c))
          => HasKey(c, s)
    /\ \A w \in Workers : Writing(w) => ecm_stream[<<req[w].c, req[w].s>>] = req[w].at
    /\ \A w \in Workers : Moving(w) =>
          /\ ecmg[req[w].old] = None
          /\ \A s \in Streams : ecm_stream[<<req[w].c, s>>] # None /\ Clear(s)
                => KeyOf(req[w].old, s, ecm_stream[<<req[w].c, s>>]) \in stream_keys
    /\ \A w \in Workers : pc[w] = "publish" /\ req[w].do \notin EmmRequests => selected = 4

Undisturbed == past \cap {"killed", "halfRenamed", "swept"} = {} => StreamInv

LEMMA StreamsHaveKeys ==
    ASSUME OneWorker, StreamInv, NEW w \in Workers, ~Writing(w), ~Moving(w),
           NEW c \in Channels, NEW s \in Streams
    PROVE  HasKey(c, s)
  BY DEF OneWorker, StreamInv

(* No row is under way after the step.                                     *)
LEMMA StreamsSettled ==
    ASSUME OneWorker, NEW w \in Workers, OneValue', Backed',
           \A c \in Channels, s \in Streams : HasKey(c, s)',
           ~Writing(w)', ~Moving(w)',
           pc'[w] = "publish" /\ req'[w].do \notin EmmRequests => selected' = 4
    PROVE  StreamInv'
<1>1. \A v \in Workers : v = w
  BY DEF OneWorker
<1> QED
  BY <1>1 DEF StreamInv

(* The step of a worker that leaves the rows and keys of streams alone.    *)
LEMMA StreamsUntouched ==
    ASSUME OneWorker, Undisturbed, past \subseteq past',
           UNCHANGED <<ecm_stream, stream_keys>>,
           \A c \in Channels : ecmg[c] # None => ecmg'[c] # None,
           NEW w \in Workers, ~Writing(w), ~Moving(w), ~Writing(w)', ~Moving(w)',
           pc'[w] = "publish" /\ req'[w].do \notin EmmRequests => selected' = 4
    PROVE  Undisturbed'
<1> SUFFICES ASSUME past' \cap {"killed", "halfRenamed", "swept"} = {} PROVE StreamInv'
  BY DEF Undisturbed
<1>1. StreamInv
  BY DEF Undisturbed
<1>2. OneValue' /\ Backed'
  BY <1>1 DEF StreamInv, OneValue, Backed, Name
<1>3. \A c \in Channels, s \in Streams : HasKey(c, s)'
  BY <1>1, StreamsHaveKeys DEF HasKey
<1> QED
  BY <1>2, <1>3, StreamsSettled

LEMMA UndisturbedStep ==
    ASSUME OneWorker, Control, Data, Undisturbed, [Next]_vars
    PROVE  Undisturbed'
<1>0. ASSUME NEW w \in Workers, pc[w] # "idle" PROVE req[w] \in Requests
  BY <1>0 DEF Control
<1>1. ASSUME NEW w \in Workers, Accept(w) PROVE Undisturbed'
  <2>1. pc[w] = "idle" /\ pc'[w] = "query"
    BY <1>1 DEF Accept, Control
  <2> QED
    BY <1>1, <2>1, StreamsUntouched DEF Accept, Tables, Redis, Writing, Moving
<1>2. ASSUME NEW w \in Workers,
             \/ AddECM(w) \/ DeleteECM(w) \/ DeleteStream(w) \/ SetEMM(w) \/ DeleteEMM(w)
             \/ Scramble(w) \/ Descramble(w) \/ List(w) \/ Cache(w) \/ Spawn(w) \/ Mark(w)
             \/ PublishEMM(w) \/ UnpublishEMM(w)
      PROVE  Undisturbed'
  <2>1. UNCHANGED <<past, ecm_stream, stream_keys>>
    BY <1>2 DEF AddECM, DeleteECM, DeleteStream, SetEMM, DeleteEMM, Scramble, Descramble,
       List, Cache, Spawn, Mark, PublishEMM, UnpublishEMM, Tables, Redis
  <2>2. \A c \in Channels : ecmg[c] # None => ecmg'[c] # None
    <3>1. CASE AddECM(w)
      <4>1. req[w].c \in Channels /\ req[w].p \in Params
        BY <1>0, <3>1, RequestFields DEF AddECM, Asks
      <4> QED
        BY <3>1, <4>1, CasAssumption DEF AddECM, Data, Tables
    <3>2. CASE ~AddECM(w)
      BY <1>2, <3>2 DEF DeleteECM, DeleteStream, SetEMM, DeleteEMM, Scramble, Descramble,
         List, Cache, Spawn, Mark, PublishEMM, UnpublishEMM, Tables
    <3> QED
      BY <3>1, <3>2
  <2>3. \/ /\ pc[w] \in {"list", "cache", "spawn", "mark"}
           /\ Answer(w) \/ Goto(w, "cache") \/ Goto(w, "spawn") \/ Goto(w, "mark")
        \/ /\ req[w].do \notin {"addStream", "updateStream", "updateECM"}
           /\ Answer(w) \/ Goto(w, "select") \/ Goto(w, "list")
    BY <1>2 DEF AddECM, DeleteECM, DeleteStream, SetEMM, DeleteEMM, Scramble, Descramble,
       List, Cache, Spawn, Mark, PublishEMM, UnpublishEMM, Asks, Publishes
  <2>4. /\ pc'[w] \in {"idle", "select", "list", "cache", "spawn", "mark"}
        /\ pc'[w] = "select" =>
              req'[w].do \notin {"addStream", "updateStream", "updateECM"}
        /\ ~Writing(w) /\ ~Moving(w)
    BY <2>3 DEF Answer, Goto, Control, Writing, Moving
  <2> QED
    BY <2>1, <2>2, <2>4, StreamsUntouched DEF Writing, Moving
<1>3. ASSUME NEW w \in Workers, UpdateECM(w) PROVE Undisturbed'
  <2> DEFINE r == req[w]
  <2> SUFFICES ASSUME past' \cap {"killed", "halfRenamed", "swept"} = {} PROVE StreamInv'
    BY DEF Undisturbed
  <2>1. pc[w] = "query" /\ r.do = "updateECM" /\ ~Writing(w) /\ ~Moving(w)
    BY <1>3 DEF UpdateECM, Asks, Writing, Moving
  <2>2. r.c \in Channels /\ r.old \in Channels /\ r.p \in Params
    BY <1>0, <2>1, RequestFields
  <2> DEFINE moves == r.c # r.old
             rows == {s \in Streams : ecm_stream[<<r.old, s>>] # None}
             clash == \E s \in rows : ecm_stream[<<r.c, s>>] # None
             moved == moves /\ rows # {} /\ ~clash
             done == /\ ecmg[r.old] # None
                     /\ IF moves THEN ecmg[r.c] = None ELSE ecmg[r.c] # r.p
  <2>3. /\ ecm_stream' =
              IF moved
              THEN [i \in StreamIds |->
                       CASE i[1] = r.c /\ i[2] \in rows -> ecm_stream[<<r.old, i[2]>>]
                         [] i[1] = r.old                -> None
                         [] OTHER                       -> ecm_stream[i]]
              ELSE ecm_stream
        /\ done  => /\ ecmg' = [ecmg EXCEPT ![r.old] = None, ![r.c] = r.p]
                    /\ Goto(w, "select")
                    /\ past' = IF moves THEN past \cup {"renamed"} ELSE past
        /\ ~done => /\ past' = IF moved THEN past \cup {"halfRenamed"} ELSE past
                    /\ Answer(w) /\ UNCHANGED ecmg
        /\ UNCHANGED <<selected, stream_keys>>
    BY <1>3 DEF UpdateECM, Redis
  <2>4. stream_keys' = stream_keys
    BY <1>3 DEF UpdateECM, Redis
  <2>5. past \subseteq past' /\ StreamInv
    BY <2>3 DEF Undisturbed
  <2>6. \A c \in Channels, s \in Streams : HasKey(c, s)
    BY <2>1, <2>5, StreamsHaveKeys
  <2>7. OneValue'
    BY <2>3, <2>5 DEF StreamInv, OneValue, Name
  <2>8. CASE ~done
    <3>1. UNCHANGED <<ecm_stream, ecmg>> /\ pc'[w] = "idle"
      BY <2>3, <2>8 DEF Answer, Control
    <3>2. Backed' /\ \A c \in Channels, s \in Streams : HasKey(c, s)'
      BY <2>3, <2>5, <2>6, <3>1 DEF StreamInv, Backed, HasKey
    <3> QED
      BY <2>7, <3>1, <3>2, StreamsSettled DEF Writing, Moving
  <2>9. CASE done /\ ~moves
    <3>1. ecm_stream' = ecm_stream /\ pc'[w] = "select" /\ req' = req
      BY <2>3, <2>9 DEF Goto, Control
    <3>2. \A c \in Channels : ecmg[c] # None => ecmg'[c] # None
      BY <2>2, <2>3, <2>9, CasAssumption DEF Data
    <3>3. Backed' /\ \A c \in Channels, s \in Streams : HasKey(c, s)'
      BY <2>3, <2>5, <2>6, <3>1, <3>2 DEF StreamInv, Backed, HasKey
    <3>4. ~Writing(w)' /\ ~Moving(w)'
      BY <2>1, <2>9, <3>1 DEF Writing, Moving
    <3> QED
      BY <2>7, <3>1, <3>3, <3>4, StreamsSettled
  <2>10. CASE done /\ moves
    <3>1. pc'[w] = "select" /\ req' = req /\ \A v \in Workers : v = w
      BY <2>3, <2>10 DEF Goto, Control, OneWorker
    <3>2. /\ ecmg'[r.old] = None /\ ecmg'[r.c] # None
          /\ \A c \in Channels \ {r.c, r.old} : ecmg'[c] = ecmg[c]
      BY <2>2, <2>3, <2>10, CasAssumption DEF Data
    <3>3. \A s \in Streams : ecm_stream[<<r.c, s>>] = None
      BY <2>2, <2>5, <2>10 DEF StreamInv, Backed
    <3>4. /\ \A s \in Streams : ecm_stream'[<<r.old, s>>] = None
          /\ \A s \in Streams : ecm_stream'[<<r.c, s>>] = ecm_stream[<<r.old, s>>]
          /\ \A c \in Channels \ {r.c, r.old}, s \in Streams :
                ecm_stream'[<<c, s>>] = ecm_stream[<<c, s>>]
      <4>1. ~clash
        BY <3>3
      <4>2. CASE rows = {}
        <5>1. ecm_stream' = ecm_stream
          BY <2>3, <4>2
        <5> QED
          BY <3>3, <4>2, <5>1
      <4>3. CASE rows # {}
        <5>1. moved
          BY <2>10, <4>1, <4>3
        <5>2. ASSUME NEW c \in Channels, NEW s \in Streams
              PROVE  ecm_stream'[<<c, s>>] =
                        CASE c = r.c /\ s \in rows -> ecm_stream[<<r.old, s>>]
                          [] c = r.old             -> None
                          [] OTHER                 -> ecm_stream[<<c, s>>]
          <6> HIDE DEF rows, r, moved
          <6> QED
            BY <2>3, <5>1 DEF StreamIds
        <5> QED
          BY <2>2, <2>10, <3>3, <5>2
      <4> QED
        BY <4>2, <4>3
    <3>5. Backed'
      BY <2>2, <2>5, <3>2, <3>4 DEF StreamInv, Backed
    <3>6. ASSUME NEW c \in Channels, c # r.c, NEW s \in Streams PROVE HasKey(c, s)'
      <4>1. CASE c = r.old
        BY <3>4, <4>1 DEF HasKey
      <4>2. CASE c # r.old
        <5>1. HasKey(c, s) /\ ecm_stream'[<<c, s>>] = ecm_stream[<<c, s>>]
          BY <2>6, <3>4, <3>6, <4>2
        <5> QED
          BY <2>4, <5>1 DEF HasKey
      <4> QED
        BY <4>1, <4>2
    <3>7. ASSUME NEW s \in Streams, ecm_stream'[<<r.c, s>>] # None, Clear(s)
          PROVE  KeyOf(r.old, s, ecm_stream'[<<r.c, s>>]) \in stream_keys'
      <4>1. HasKey(r.old, s) /\ ecm_stream'[<<r.c, s>>] = ecm_stream[<<r.old, s>>]
        BY <2>2, <2>6, <3>4
      <4> QED
        BY <2>4, <3>7, <4>1 DEF HasKey
    <3>8. Moving(w)' /\ ~Writing(w)'
      BY <2>1, <2>10, <3>1 DEF Moving, Writing
    <3> QED
      BY <2>7, <3>1, <3>2, <3>5, <3>6, <3>7, <3>8 DEF StreamInv
  <2> QED
    BY <2>8, <2>9, <2>10
<1>4. ASSUME NEW w \in Workers, SetStream(w) PROVE Undisturbed'
  <2> DEFINE r == req[w]
  <2>1. pc[w] = "query" /\ r.do \in {"addStream", "updateStream"} /\ ~Writing(w) /\ ~Moving(w)
    BY <1>4 DEF SetStream, Asks, Writing, Moving
  <2>2. r.c \in Channels /\ r.s \in Streams /\ r.at \in 1 .. MaxRequests
    BY <1>0, <2>1, RequestFields
  <2>3. CASE Answer(w) /\ UNCHANGED <<Tables, past>>
    <3>1. pc'[w] = "idle"
      BY <2>3 DEF Answer, Control
    <3> QED
      BY <1>4, <2>1, <2>3, <3>1, StreamsUntouched
         DEF SetStream, Tables, Redis, Writing, Moving
  <2>4. CASE ~(Answer(w) /\ UNCHANGED <<Tables, past>>)
    <3> SUFFICES ASSUME past' \cap {"killed", "halfRenamed", "swept"} = {} PROVE StreamInv'
      BY DEF Undisturbed
    <3>1. /\ ecmg[r.c] # None
          /\ ecm_stream' = [ecm_stream EXCEPT ![<<r.c, r.s>>] = r.at]
          /\ Goto(w, "select")
          /\ UNCHANGED <<past, ecmg, selected, stream_keys>>
      BY <1>4, <2>4 DEF SetStream, Redis
    <3>2. StreamInv
      BY <3>1 DEF Undisturbed
    <3>3. pc'[w] = "select" /\ req' = req /\ \A v \in Workers : v = w
      BY <3>1 DEF Goto, Control, OneWorker
    <3>4. Writing(w)' /\ ~Moving(w)'
      BY <2>1, <3>3 DEF Writing, Moving
    <3>5. /\ ecm_stream'[<<r.c, r.s>>] = r.at
          /\ \A c \in Channels, s \in Streams : <<c, s>> # <<r.c, r.s>> =>
                ecm_stream'[<<c, s>>] = ecm_stream[<<c, s>>]
      <4>1. <<r.c, r.s>> \in StreamIds
        BY <2>2 DEF StreamIds
      <4>2. \A c \in Channels, s \in Streams : <<c, s>> \in StreamIds
        BY DEF StreamIds
      <4> HIDE DEF r
      <4> QED
        BY <3>1, <4>1, <4>2 DEF Data
    <3>6. OneValue'
      BY <3>1, <3>2 DEF StreamInv, OneValue, Name
    <3>7. Backed'
      BY <3>1, <3>2, <3>5 DEF StreamInv, Backed
    <3>8. \A c \in Channels, s \in Streams : <<c, s>> # <<r.c, r.s>> => HasKey(c, s)'
      BY <2>1, <3>1, <3>2, <3>5, StreamsHaveKeys DEF HasKey
    <3> QED
      BY <3>3, <3>4, <3>5, <3>6, <3>7, <3>8 DEF StreamInv
  <2> QED
    BY <2>3, <2>4
<1>5. ASSUME NEW w \in Workers, Select(w) PROVE Undisturbed'
  <2> SUFFICES ASSUME past' \cap {"killed", "halfRenamed", "swept"} = {} PROVE StreamInv'
    BY DEF Undisturbed
  <2>1. /\ pc[w] = "select" /\ UNCHANGED <<ecmg, ecm_stream, stream_keys, past>>
        /\ selected' = IF req[w].do \in EmmRequests THEN 3 ELSE 4
    BY <1>5 DEF Select, Tables
  <2>2. pc'[w] = "publish" /\ req' = req /\ \A v \in Workers : v = w
    BY <1>5 DEF Select, Goto, Control, OneWorker
  <2>3. StreamInv
    BY <2>1 DEF Undisturbed
  <2>4. \A v \in Workers : (Writing(v)' <=> Writing(v)) /\ (Moving(v)' <=> Moving(v))
    BY <2>1, <2>2 DEF Writing, Moving
  <2>5. OneValue' /\ Backed' /\ \A c \in Channels, s \in Streams : HasKey(c, s)' <=> HasKey(c, s)
    BY <2>1, <2>3 DEF StreamInv, OneValue, Backed, Name, HasKey
  <2> QED
    BY <2>1, <2>2, <2>3, <2>4, <2>5 DEF StreamInv
<1>6. ASSUME NEW w \in Workers, PublishECM(w) PROVE Undisturbed'
  <2> DEFINE r == req[w]
             new(k) == [k EXCEPT !.c = r.c]
  <2> SUFFICES ASSUME past' \cap {"killed", "halfRenamed", "swept"} = {} PROVE StreamInv'
    BY DEF Undisturbed
  <2>1. pc[w] = "publish" /\ r.do \in {"addECM", "updateECM"} /\ ~Writing(w)
        /\ UNCHANGED <<ecmg, ecm_stream>>
    BY <1>6 DEF PublishECM, Publishes, Tables, Writing
  <2>2. r.c \in Channels /\ OldChannel(r) \in Channels
    BY <1>0, <2>1, RequestFields
  <2>3. past' = past \cup {"swept" : k \in {k \in Matches(r) : k.c # OldChannel(r)}}
    BY <1>6 DEF PublishECM
  <2>4. past \subseteq past' /\ \A k \in Matches(r) : k.c = OldChannel(r)
    BY <2>3
  <2>5. StreamInv /\ selected = 4
    BY <2>1, <2>4 DEF Undisturbed, StreamInv, EmmRequests
  <2>6. PICK kept \in SUBSET {new(k) : k \in Matches(r)} :
           /\ \A k \in Matches(r) : \E l \in kept : Name(l) = Name(new(k))
           /\ \A k, l \in kept : Name(k) = Name(l) => k = l
           /\ stream_keys' = kept \cup {k \in stream_keys \ Matches(r) :
                                          \A l \in kept : Name(l) # Name(k)}
    BY <1>6 DEF PublishECM
  <2>7. pc'[w] = "idle"
    BY <1>6 DEF PublishECM, Answer, Control
  <2>8. OneValue'
    <3> HIDE DEF new, r
    <3> QED
      BY <2>5, <2>6 DEF StreamInv, OneValue, Name
  <2>9. Matches(r) \subseteq stream_keys /\ stream_keys \subseteq StreamKeys
    BY DEF Matches, Data
  <2>10. \A k \in StreamKeys : new(k) = [d |-> k.d, c |-> r.c, s |-> k.s, at |-> k.at,
                                         deleted |-> k.deleted]
    BY DEF StreamKeys
  <2>11. ASSUME NEW k \in Matches(r) PROVE new(k) \in kept
    <3>1. PICK l \in kept : Name(l) = Name(new(k))
      BY <2>6
    <3>2. PICK m \in Matches(r) : l = new(m)
      BY <2>6, <3>1
    <3>3. k \in StreamKeys /\ m \in StreamKeys /\ k.c = m.c
      BY <2>4, <2>9, <3>2
    <3>4. k.d = m.d /\ k.s = m.s /\ k.at = m.at
      BY <2>10, <3>1, <3>2, <3>3 DEF Name
    <3>5. k = m
      BY <2>5, <2>9, <3>2, <3>3, <3>4 DEF StreamInv, OneValue, Name
    <3> QED
      BY <3>1, <3>2, <3>5
  <2>12. ASSUME NEW l \in kept PROVE l.c = r.c
    <3>1. PICK m \in Matches(r) : l = new(m)
      BY <2>6
    <3>2. l = [d |-> m.d, c |-> r.c, s |-> m.s, at |-> m.at, deleted |-> m.deleted]
      BY <2>9, <2>10, <3>1
    <3> QED
      BY <3>2
  <2>13. ASSUME NEW c \in Channels, NEW s \in Streams,
                ecm_stream'[<<c, s>>] # None, Clear(s)
         PROVE  KeyOf(c, s, ecm_stream'[<<c, s>>]) \in stream_keys'
    <3> DEFINE at == ecm_stream[<<c, s>>]
    <3>1. CASE Moving(w) /\ c = r.c
      <4>1. KeyOf(r.old, s, at) \in stream_keys
        BY <2>1, <2>5, <2>13, <3>1 DEF StreamInv
      <4>2. OldChannel(r) = r.old /\ r.old # r.c
        BY <3>1 DEF Moving, OldChannel
      <4>3. KeyOf(r.old, s, at) \in Matches(r)
        <5>1. KeyOf(r.old, s, at).d = 4 /\ KeyOf(r.old, s, at).c = r.old
          BY DEF KeyOf
        <5>2. Begins(r.old, r.old)
          BY DEF Begins
        <5> HIDE DEF at
        <5> QED
          BY <2>5, <4>1, <4>2, <5>1, <5>2 DEF Matches
      <4>4. new(KeyOf(r.old, s, at)) = KeyOf(c, s, at)
        <5>1. KeyOf(r.old, s, at) \in StreamKeys
          BY <2>9, <4>1
        <5> HIDE DEF at, new
        <5> QED
          BY <2>10, <3>1, <5>1 DEF KeyOf
      <4> QED
        BY <2>1, <2>6, <2>11, <4>3, <4>4
    <3>2. CASE ~(Moving(w) /\ c = r.c)
      <4>1. KeyOf(c, s, at) \in stream_keys
        <5>1. HasKey(c, s)
          BY <2>1, <2>5, <3>2 DEF StreamInv, OneWorker
        <5> QED
          BY <2>1, <2>13, <5>1 DEF HasKey
      <4>2. CASE Moving(w)
        <5>1. OldChannel(r) = r.old /\ r.old \in Channels /\ ecmg[r.old] = None
          BY <2>2, <2>5, <4>2 DEF Moving, OldChannel, StreamInv
        <5>2. c # r.old /\ c # r.c
          BY <2>1, <2>5, <2>13, <3>2, <4>2, <5>1 DEF StreamInv, Backed
        <5>3. KeyOf(c, s, at).c = c /\ Name(KeyOf(c, s, at))[2] = c
          BY DEF KeyOf, Name
        <5>4. KeyOf(c, s, at) \notin Matches(r)
          BY <2>4, <5>1, <5>2, <5>3
        <5>5. \A l \in kept : Name(l) # Name(KeyOf(c, s, at))
          BY <2>12, <5>2, <5>3 DEF Name
        <5> QED
          BY <2>1, <2>6, <4>1, <5>4, <5>5
      <4>3. CASE ~Moving(w)
        <5>1. Matches(r) = {}
          BY <2>1, <4>3 DEF Moving, Matches, OldChannel
        <5> QED
          BY <2>1, <2>6, <4>1, <5>1
      <4> QED
        BY <4>2, <4>3
    <3> QED
      BY <3>1, <3>2
  <2>14. Backed' /\ \A c \in Channels, s \in Streams : HasKey(c, s)'
    BY <2>1, <2>5, <2>13 DEF StreamInv, Backed, HasKey
  <2> QED
    BY <2>7, <2>8, <2>14, StreamsSettled DEF Writing, Moving
<1>7. ASSUME NEW w \in Workers, UnpublishECM(w) PROVE Undisturbed'
  <2> SUFFICES ASSUME past' \cap {"killed", "halfRenamed", "swept"} = {} PROVE StreamInv'
    BY DEF Undisturbed
  <2>1. /\ pc'[w] \in {"idle", "list"} /\ ~Writing(w) /\ ~Moving(w)
        /\ UNCHANGED <<past, stream_keys>>
    BY <1>7 DEF UnpublishECM, Publishes, Answer, Goto, Control, Writing, Moving
  <2>2. StreamInv
    BY <2>1 DEF Undisturbed
  <2>3. \/ UNCHANGED <<ecmg, ecm_stream>>
        \/ /\ ecmg' = [ecmg EXCEPT ![req[w].c] = None]
           /\ ecm_stream' = [i \in StreamIds |-> IF i[1] = req[w].c THEN None ELSE ecm_stream[i]]
    BY <1>7 DEF UnpublishECM
  <2>4. ASSUME NEW c \in Channels, NEW s \in Streams, ecm_stream'[<<c, s>>] # None
        PROVE  ecm_stream'[<<c, s>>] = ecm_stream[<<c, s>>] /\ ecmg'[c] = ecmg[c]
    BY <2>3, <2>4 DEF Data, StreamIds
  <2>5. OneValue' /\ Backed'
    BY <2>1, <2>2, <2>4 DEF StreamInv, OneValue, Backed, Name
  <2>6. \A c \in Channels, s \in Streams : HasKey(c, s)'
    BY <2>1, <2>2, <2>4, StreamsHaveKeys DEF HasKey
  <2> QED
    BY <2>1, <2>5, <2>6, StreamsSettled DEF Writing, Moving
<1>8. ASSUME NEW w \in Workers, PublishStream(w) PROVE Undisturbed'
  <2> DEFINE r == req[w]
  <2> SUFFICES ASSUME past' \cap {"killed", "halfRenamed", "swept"} = {} PROVE StreamInv'
    BY DEF Undisturbed
  <2>1. /\ pc[w] = "publish" /\ r.do \in {"addStream", "updateStream"}
        /\ UNCHANGED <<past, ecmg, ecm_stream>>
        /\ stream_keys' = (stream_keys \ KeysOf(r)) \cup
              {[d |-> selected, c |-> r.c, s |-> r.s, at |-> r.at, deleted |-> FALSE]}
        /\ pc'[w] = "idle"
    BY <1>8 DEF PublishStream, Publishes, Tables, Answer, Control
  <2>2. r.c \in Channels /\ r.s \in Streams
    BY <1>0, <2>1, RequestFields
  <2>3. StreamInv
    BY <2>1 DEF Undisturbed
  <2>4. selected = 4 /\ Writing(w) /\ ~Moving(w) /\ ecm_stream[<<r.c, r.s>>] = r.at
    BY <2>1, <2>3 DEF StreamInv, EmmRequests, Writing, Moving
  <2>5. stream_keys' = (stream_keys \ KeysOf(r)) \cup {KeyOf(r.c, r.s, r.at)}
    BY <2>1, <2>4 DEF KeyOf
  <2>6. OneValue'
    <3>1. ASSUME NEW k \in stream_keys, Name(k) = Name(KeyOf(r.c, r.s, r.at))
          PROVE  k \in KeysOf(r)
      BY <2>4, <3>1 DEF KeysOf, Name, KeyOf, Begins
    <3> HIDE DEF r
    <3> QED
      BY <2>3, <2>5, <3>1 DEF StreamInv, OneValue, Name
  <2>7. ASSUME NEW c \in Channels, NEW s \in Streams,
               ecm_stream'[<<c, s>>] # None, Clear(s)
        PROVE  KeyOf(c, s, ecm_stream'[<<c, s>>]) \in stream_keys'
    <3>1. CASE c = r.c /\ s = r.s
      BY <2>1, <2>4, <2>5, <3>1
    <3>2. CASE ~(c = r.c /\ s = r.s)
      <4>1. HasKey(c, s)
        BY <2>3, <2>4, <3>2 DEF StreamInv, OneWorker
      <4>2. KeyOf(c, s, ecm_stream[<<c, s>>]) \notin KeysOf(r)
        BY <2>2, <2>7, <3>2 DEF KeysOf, KeyOf, Clear
      <4> QED
        BY <2>1, <2>5, <2>7, <4>1, <4>2 DEF HasKey
    <3> QED
      BY <3>1, <3>2
  <2>8. Backed' /\ \A c \in Channels, s \in Streams : HasKey(c, s)'
    BY <2>1, <2>3, <2>7 DEF StreamInv, Backed, HasKey
  <2> QED
    BY <2>1, <2>6, <2>8, StreamsSettled DEF Writing, Moving
<1>9. ASSUME NEW w \in Workers, UnpublishStream(w) PROVE Undisturbed'
  <2> DEFINE r == req[w]
  <2>1. /\ pc[w] = "publish" /\ r.do = "deleteStream" /\ UNCHANGED <<past, ecmg>>
        /\ pc'[w] \in {"idle", "list"} /\ ~Writing(w) /\ ~Moving(w)
    BY <1>9 DEF UnpublishStream, Publishes, Answer, Goto, Control, Writing, Moving
  <2>2. r.c \in Channels /\ r.s \in Streams
    BY <1>0, <2>1, RequestFields
  <2>3. CASE UNCHANGED <<ecm_stream, stream_keys>>
    BY <2>1, <2>3, StreamsUntouched DEF Writing, Moving
  <2>4. CASE ~UNCHANGED <<ecm_stream, stream_keys>>
    <3> SUFFICES ASSUME past' \cap {"killed", "halfRenamed", "swept"} = {} PROVE StreamInv'
      BY DEF Undisturbed
    <3>1. PICK k \in KeysOf(r) :
             /\ stream_keys' = (stream_keys \ {k}) \cup {[k EXCEPT !.deleted = TRUE]}
             /\ ecm_stream' = [ecm_stream EXCEPT ![<<r.c, r.s>>] = None]
      BY <1>9, <2>4 DEF UnpublishStream
    <3>2. StreamInv
      BY <2>1 DEF Undisturbed
    <3>3. k \in stream_keys /\ k \in StreamKeys /\ k.c = r.c /\ Begins(r.s, k.s)
      BY DEF KeysOf, Data
    <3>4. Name([k EXCEPT !.deleted = TRUE]) = Name(k)
      BY <3>3 DEF Name, StreamKeys
    <3>5. ASSUME NEW a \in stream_keys', NEW b \in stream_keys', Name(a) = Name(b)
          PROVE  a = b
      <4> DEFINE marked == [k EXCEPT !.deleted = TRUE]
      <4>1. a \in (stream_keys \ {k}) \cup {marked} /\ b \in (stream_keys \ {k}) \cup {marked}
        BY <3>1
      <4> HIDE DEF marked
      <4>2. Name(marked) = Name(k)
        BY <3>4 DEF marked
      <4> QED
        BY <3>2, <3>3, <3>5, <4>1, <4>2 DEF StreamInv, OneValue
    <3>6. ASSUME NEW c \in Channels, NEW s \in Streams, ecm_stream'[<<c, s>>] # None
          PROVE  ecm_stream'[<<c, s>>] = ecm_stream[<<c, s>>] /\ <<c, s>> # <<r.c, r.s>>
      <4>1. <<c, s>> \in StreamIds /\ <<r.c, r.s>> \in StreamIds
        BY <2>2 DEF StreamIds
      <4> HIDE DEF r
      <4> QED
        BY <3>1, <3>6, <4>1 DEF Data
    <3>7. Backed'
      BY <2>1, <3>2, <3>6 DEF StreamInv, Backed
    <3>8. ASSUME NEW c \in Channels, NEW s \in Streams,
                 ecm_stream'[<<c, s>>] # None, Clear(s)
          PROVE  KeyOf(c, s, ecm_stream'[<<c, s>>]) \in stream_keys'
      <4>1. KeyOf(c, s, ecm_stream[<<c, s>>]) \in stream_keys
        BY <2>1, <3>2, <3>6, <3>8, StreamsHaveKeys DEF HasKey
      <4>2. KeyOf(c, s, ecm_stream[<<c, s>>]) # k
        BY <2>2, <3>3, <3>6, <3>8 DEF KeyOf, Clear
      <4> QED
        BY <3>1, <3>6, <3>8, <4>1, <4>2
    <3> QED
      BY <2>1, <3>5, <3>7, <3>8, StreamsSettled DEF OneValue, Name, HasKey, Writing, Moving
  <2> QED
    BY <2>3, <2>4
<1>10. ASSUME UNCHANGED <<pc, req, ecmg, ecm_stream, stream_keys>>, past \subseteq past',
              selected' \in {selected, 4}
       PROVE  Undisturbed'
  <2> SUFFICES ASSUME past' \cap {"killed", "halfRenamed", "swept"} = {} PROVE StreamInv'
    BY DEF Undisturbed
  <2>1. StreamInv
    BY <1>10 DEF Undisturbed
  <2>2. \A v \in Workers : (Writing(v)' <=> Writing(v)) /\ (Moving(v)' <=> Moving(v))
    BY <1>10 DEF Writing, Moving
  <2>3. OneValue' /\ Backed' /\ \A c \in Channels, s \in Streams : HasKey(c, s)' <=> HasKey(c, s)
    BY <1>10, <2>1 DEF StreamInv, OneValue, Backed, Name, HasKey
  <2> QED
    BY <1>10, <2>1, <2>2, <2>3 DEF StreamInv
<1>11. CASE CwRound
  BY <1>10, <1>11 DEF CwRound, Tables
<1>12. CASE Restart
  <2>1. CASE \A w \in Workers : pc[w] = "idle"
    <3> SUFFICES ASSUME past' \cap {"killed", "halfRenamed", "swept"} = {} PROVE StreamInv'
      BY DEF Undisturbed
    <3>1. /\ UNCHANGED <<past, ecmg, ecm_stream, stream_keys>>
          /\ \A w \in Workers : pc'[w] = "idle"
      BY <1>12, <2>1 DEF Restart, Tables
    <3>2. \A w \in Workers : ~Writing(w) /\ ~Moving(w) /\ ~Writing(w)' /\ ~Moving(w)'
      BY <2>1, <3>1 DEF Writing, Moving
    <3>3. StreamInv
      BY <3>1 DEF Undisturbed
    <3>4. OneValue' /\ Backed' /\ \A c \in Channels, s \in Streams : HasKey(c, s)' <=> HasKey(c, s)
      BY <3>1, <3>3 DEF StreamInv, OneValue, Backed, Name, HasKey
    <3> QED
      BY <3>1, <3>2, <3>3, <3>4 DEF StreamInv
  <2>2. CASE ~\A w \in Workers : pc[w] = "idle"
    BY <1>12, <2>2 DEF Restart, Undisturbed
  <2> QED
    BY <2>1, <2>2
<1>13. CASE UNCHANGED vars
  BY <1>10, <1>13 DEF vars
<1> QED
  BY <1>1, <1>2, <1>3, <1>4, <1>5, <1>6, <1>7, <1>8, <1>9, <1>11, <1>12, <1>13
     DEF Next, WorkerStep

(* With one worker the row of a stream has its key between requests, if    *)
(* its number begins with no other's, through deletions, changes of rows   *)
(* and of channel numbers that neither failed half way nor swept up the    *)
(* keys of another channel.                                                *)
THEOREM StreamsStayPublished == ASSUME OneWorker PROVE Spec => []StreamsPublished
<1>1. Init => Undisturbed
  <2> SUFFICES ASSUME Init PROVE StreamInv
    BY DEF Undisturbed
  <2>1. \A w \in Workers : pc[w] = "idle" /\ ~Writing(w) /\ ~Moving(w)
    BY DEF Init, Writing, Moving
  <2>2. PICK rows \in SUBSET {i \in StreamIds : ecmg[i[1]] # None} :
           /\ ecm_stream = [i \in StreamIds |-> IF i \in rows THEN 0 ELSE None]
           /\ stream_keys = {KeyOf(i[1], i[2], 0) : i \in rows}
    BY DEF Init, KeyOf
  <2>3. OneValue
    <3> SUFFICES ASSUME NEW k \in stream_keys, NEW l \in stream_keys, Name(k) = Name(l)
                 PROVE  k = l
      BY DEF OneValue
    <3>1. PICK i \in rows, j \in rows : k = KeyOf(i[1], i[2], 0) /\ l = KeyOf(j[1], j[2], 0)
      BY <2>2
    <3> QED
      BY <3>1 DEF Name, KeyOf
  <2>4. ASSUME NEW c \in Channels, NEW s \in Streams, ecm_stream[<<c, s>>] # None
        PROVE  <<c, s>> \in rows /\ ecm_stream[<<c, s>>] = 0
    BY <2>2, <2>4 DEF StreamIds
  <2>5. Backed
    BY <2>2, <2>4 DEF Backed
  <2>6. \A c \in Channels, s \in Streams : HasKey(c, s)
    BY <2>2, <2>4 DEF HasKey
  <2> QED
    BY <2>1, <2>3, <2>5, <2>6 DEF StreamInv
<1>2. Control /\ Data /\ Undisturbed /\ [Next]_vars => Undisturbed'
  BY UndisturbedStep
<1>3. Undisturbed => StreamsPublished
  <2> SUFFICES ASSUME Undisturbed, Quiet, past \cap {"killed", "halfRenamed", "swept"} = {},
                      NEW c \in Channels, NEW s \in Streams,
                      ecm_stream[<<c, s>>] # None, \A n \in Streams \ {s} : ~Begins(n, s)
               PROVE  [d |-> 4, c |-> c, s |-> s, at |-> ecm_stream[<<c, s>>],
                       deleted |-> FALSE] \in stream_keys
    BY DEF StreamsPublished
  <2>1. HasKey(c, s)
    BY DEF Undisturbed, StreamInv, Quiet, Writing, Moving
  <2> QED
    BY <2>1 DEF HasKey, KeyOf, Clear
<1>4. TypeOK => Control /\ Data
  BY TypeParts
<1> QED
  BY <1>1, <1>2, <1>3, <1>4, TypeCorrect, PTL DEF Spec
===============================================================================
