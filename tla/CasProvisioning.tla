--------------------------- MODULE CasProvisioning ---------------------------
(***************************************************************************)
(* Conditional access (examples/rest_server.cc, the ECM, EMM and scramble  *)
(* handlers; the queries of src/common/dbHandler.cc).  A request changes   *)
(* a table and then publishes the change in Redis, where the CAS process   *)
(* finds its channels and streams: ECM in Redis database 4, EMM in 3.  A   *)
(* thread started by the first scramble request puts control words there   *)
(* every second, for the streams in the cached list streams_json.          *)
(*                                                                         *)
(* Workers and that thread share one Redis connection, and the database a  *)
(* SELECT chooses is a property of the connection.  Keys are found by a    *)
(* pattern that ends in the number of a stream or channel and a star.      *)
(*                                                                         *)
(* The queries by which a request looks at and changes the tables are one  *)
(* step, and so are the Redis commands that follow its SELECT; the query   *)
(* for the scrambled streams and its assignment to streams_json are a step *)
(* each.  Left out: counters and deleted_x markers, for the CAS process to *)
(* look again, the control words themselves, and that the connection       *)
(* object is not made for several threads.  Queries do not fail.           *)
(***************************************************************************)
EXTENDS Naturals, FiniteSets

CONSTANTS
    Workers,      \* the worker threads of the HTTP endpoint
    Channels,     \* ECM and EMM channel numbers
    Streams,      \* stream numbers of ECM channels
    Services,     \* service numbers
    Params,       \* the other columns of ecmg and of emmg
    Digits,       \* how many digits numbers have
    MaxRequests,  \* bound: how many requests the clients send
    None          \* no row, no key, no request

VARIABLES
    pc,          \* pc[w]: where worker w is in its request
    req,         \* req[w]: the request
    count,       \* requests so far; stands for the time of a request
    ecmg,        \* ecmg[c]: the row of ECM channel c
    ecm_stream,  \* ecm_stream[<<c, s>>]: the row of a stream, by its timestamp
    map,         \* stream_service_map: which stream scrambles which service
    emmg,        \* emmg[c]: the row of EMM channel c
    selected,    \* the database selected on the Redis connection
    lists,       \* Channel_list:c and emm_channel_list:c of each database
    stream_keys, \* the keys stream:ch_c:stm_s:at of each database
    found,       \* found[w]: the scrambled streams worker w has read from the tables
    streams,     \* streams_json: the cached list of scrambled streams
    created,     \* CW_THREAD_CREATED
    threads,     \* how many control word threads run
    past         \* ghost: what has happened so far, see the properties

vars == <<pc, req, count, ecmg, ecm_stream, map, emmg, selected, lists, stream_keys,
          found, streams, created, threads, past>>

Tables == <<ecmg, ecm_stream, map, emmg>>
Redis == <<selected, lists, stream_keys>>
Cw == <<found, streams, created, threads>>

Databases == {0, 3, 4}
StreamIds == Channels \X Streams
Entries == [p : Params, deleted : BOOLEAN]
StreamKeys == [d : Databases, c : Channels, s : Streams, at : 0 .. MaxRequests,
               deleted : BOOLEAN]

(* old is the old_channel_id, at the time that becomes the timestamp.      *)
Requests ==
         [do : {"addECM", "addEMM", "updateEMM"}, c : Channels, p : Params]
    \cup [do : {"updateECM"}, c : Channels, p : Params, old : Channels]
    \cup [do : {"deleteECM", "deleteEMM"}, c : Channels]
    \cup [do : {"addStream", "updateStream"}, c : Channels, s : Streams, at : 1 .. MaxRequests]
    \cup [do : {"deleteStream"}, c : Channels, s : Streams]
    \cup [do : {"scramble", "descramble"}, c : Channels, s : Streams, service : Services]

ASSUME CasAssumption ==
    /\ Channels \subseteq Nat
    /\ Streams \subseteq Nat
    /\ Digits \in Nat
    /\ MaxRequests \in Nat
    /\ None \notin Params \cup Nat \cup Entries \cup Requests

(* Does the decimal text of m begin with that of n?                        *)
Begins(n, m) == n = m \/ (n # 0 /\ \E k \in 1 .. Digits : m \div (10 ^ k) = n)

(* The streams getScrambledServices joins out of the tables.               *)
Scrambled(rows, services) ==
    {i \in StreamIds : rows[i] # None /\ \E v \in Services : <<i, v>> \in services}

TypeOK ==
    /\ pc \in [Workers -> {"idle", "query", "select", "publish", "list", "cache",
                        "spawn", "mark"}]
    /\ req \in [Workers -> Requests \cup {None}]
    /\ \A w \in Workers : pc[w] = "idle" <=> req[w] = None
    /\ count \in 0 .. MaxRequests
    /\ ecmg \in [Channels -> Params \cup {None}]
    /\ ecm_stream \in [StreamIds -> (0 .. MaxRequests) \cup {None}]
    /\ map \in SUBSET (StreamIds \X Services)
    /\ emmg \in [Channels -> Params \cup {None}]
    /\ selected \in Databases
    /\ lists \in [Databases \X {"ecm", "emm"} \X Channels -> Entries \cup {None}]
    /\ stream_keys \in SUBSET StreamKeys
    /\ found \in [Workers -> SUBSET StreamIds]
    /\ streams \in SUBSET StreamIds
    /\ created \in BOOLEAN
    /\ threads \in Nat
    /\ past \in SUBSET {"renamed", "halfRenamed", "swept", "cw", "killed"}

(* The server starts over tables and keys that an earlier run has left in  *)
(* agreement.                                                              *)
Init ==
    /\ pc = [w \in Workers |-> "idle"]
    /\ req = [w \in Workers |-> None]
    /\ count = 0
    /\ ecmg \in [Channels -> Params \cup {None}]
    /\ \E rows \in SUBSET {i \in StreamIds : ecmg[i[1]] # None} :
          /\ ecm_stream = [i \in StreamIds |-> IF i \in rows THEN 0 ELSE None]
          /\ stream_keys = {[d |-> 4, c |-> i[1], s |-> i[2], at |-> 0,
                             deleted |-> FALSE] : i \in rows}
    /\ map = {}
    /\ emmg = [c \in Channels |-> None]
    /\ selected = 0
    /\ lists = [k \in Databases \X {"ecm", "emm"} \X Channels |->
                   IF k[1] = 4 /\ k[2] = "ecm" /\ ecmg[k[3]] # None
                   THEN [p |-> ecmg[k[3]], deleted |-> FALSE]
                   ELSE None]
    /\ found = [w \in Workers |-> {}]
    /\ streams = {}
    /\ created = FALSE
    /\ threads = 0
    /\ past = {}

-------------------------------------------------------------------------------
(* The tables.                                                             *)

Asks(w, what) == pc[w] = "query" /\ req[w].do \in what
Goto(w, label) == pc' = [pc EXCEPT ![w] = label] /\ UNCHANGED req
Answer(w) == pc' = [pc EXCEPT ![w] = "idle"] /\ req' = [req EXCEPT ![w] = None]

Accept(w) ==
    /\ pc[w] = "idle"
    /\ count < MaxRequests
    /\ count' = count + 1
    /\ \E r \in Requests :
          /\ r.do \in {"addStream", "updateStream"} => r.at = count'
          /\ req' = [req EXCEPT ![w] = r]
    /\ pc' = [pc EXCEPT ![w] = "query"]
    /\ UNCHANGED <<Tables, Redis, Cw, past>>

(* INSERT ... ON DUPLICATE KEY UPDATE: no row is affected, and the request *)
(* answered with an error, when the row is there already.                  *)
AddECM(w) ==
    /\ Asks(w, {"addECM"})
    /\ IF ecmg[req[w].c] = req[w].p
       THEN Answer(w) /\ UNCHANGED <<Tables, past>>
       ELSE /\ ecmg' = [ecmg EXCEPT ![req[w].c] = req[w].p]
            /\ Goto(w, "select")
            /\ UNCHANGED <<ecm_stream, map, emmg, past>>
    /\ UNCHANGED <<count, Redis, Cw>>

(* Two UPDATEs: the streams move to the new channel number, then the       *)
(* channel does.  The second fails when the number is taken; the request   *)
(* is answered with an error and the streams stay where they went.         *)
UpdateECM(w) ==
    /\ Asks(w, {"updateECM"})
    /\ LET r == req[w]
           moves == r.c # r.old
           rows == {s \in Streams : ecm_stream[<<r.old, s>>] # None}
           clash == \E s \in rows : ecm_stream[<<r.c, s>>] # None
           moved == moves /\ rows # {} /\ ~clash
           done == /\ ecmg[r.old] # None
                   /\ IF moves THEN ecmg[r.c] = None ELSE ecmg[r.c] # r.p
       IN  /\ ecm_stream' =
                 IF moved
                 THEN [i \in StreamIds |->
                          CASE i[1] = r.c /\ i[2] \in rows -> ecm_stream[<<r.old, i[2]>>]
                            [] i[1] = r.old                -> None
                            [] OTHER                       -> ecm_stream[i]]
                 ELSE ecm_stream
           /\ IF done
              THEN /\ ecmg' = [ecmg EXCEPT ![r.old] = None, ![r.c] = r.p]
                   /\ past' = IF moves THEN past \cup {"renamed"} ELSE past
                   /\ Goto(w, "select")
              ELSE /\ past' = IF moved THEN past \cup {"halfRenamed"} ELSE past
                   /\ Answer(w)
                   /\ UNCHANGED ecmg
    /\ UNCHANGED <<count, map, emmg, Redis, Cw>>

(* Only isECMExists: the rows are deleted after the key is marked.         *)
DeleteECM(w) ==
    /\ Asks(w, {"deleteECM"})
    /\ IF ecmg[req[w].c] = None THEN Answer(w) ELSE Goto(w, "select")
    /\ UNCHANGED <<count, Tables, Redis, Cw, past>>

(* The timestamp makes sure that a row is affected, if there is one.       *)
SetStream(w) ==
    /\ Asks(w, {"addStream", "updateStream"})
    /\ LET i == <<req[w].c, req[w].s>>
       IN  IF ecmg[req[w].c] = None \/ (req[w].do = "updateStream" /\ ecm_stream[i] = None)
           THEN Answer(w) /\ UNCHANGED <<Tables, past>>
           ELSE /\ ecm_stream' = [ecm_stream EXCEPT ![i] = req[w].at]
                /\ Goto(w, "select")
                /\ UNCHANGED <<ecmg, map, emmg, past>>
    /\ UNCHANGED <<count, Redis, Cw>>

DeleteStream(w) ==
    /\ Asks(w, {"deleteStream"})
    /\ IF ecm_stream[<<req[w].c, req[w].s>>] = None THEN Answer(w) ELSE Goto(w, "select")
    /\ UNCHANGED <<count, Tables, Redis, Cw, past>>

SetEMM(w) ==
    /\ Asks(w, {"addEMM", "updateEMM"})
    /\ LET row == emmg[req[w].c]
       IN  IF row = req[w].p \/ (req[w].do = "updateEMM" /\ row = None)
           THEN Answer(w) /\ UNCHANGED <<Tables, past>>
           ELSE /\ emmg' = [emmg EXCEPT ![req[w].c] = req[w].p]
                /\ Goto(w, "select")
                /\ UNCHANGED <<ecmg, ecm_stream, map, past>>
    /\ UNCHANGED <<count, Redis, Cw>>

DeleteEMM(w) ==
    /\ Asks(w, {"deleteEMM"})
    /\ IF emmg[req[w].c] = None THEN Answer(w) ELSE Goto(w, "select")
    /\ UNCHANGED <<count, Tables, Redis, Cw, past>>

Usable(r) == ecmg[r.c] # None /\ ecm_stream[<<r.c, r.s>>] # None
InUse(r) == \E v \in Services : <<<<r.c, r.s>>, v>> \in map

(* Mutant: the arguments of the query are swapped.                         *)
Scramble_Swapped(w) ==
    /\ Asks(w, {"scramble"})
    /\ IF Usable(req[w]) /\ ~InUse(req[w])
       THEN /\ map' = map \cup {<<<<req[w].s, req[w].c>>, req[w].service>>}
            /\ Goto(w, "list")
       ELSE Answer(w) /\ UNCHANGED map
    /\ UNCHANGED <<count, ecmg, ecm_stream, emmg, Redis, Cw, past>>

Scramble(w) ==
    /\ Asks(w, {"scramble"})
    /\ IF Usable(req[w]) /\ ~InUse(req[w])
       THEN /\ map' = map \cup {<<<<req[w].c, req[w].s>>, req[w].service>>}
            /\ Goto(w, "list")
       ELSE Answer(w) /\ UNCHANGED map
    /\ UNCHANGED <<count, ecmg, ecm_stream, emmg, Redis, Cw, past>>

Descramble(w) ==
    /\ Asks(w, {"descramble"})
    /\ IF Usable(req[w]) /\ InUse(req[w])
       THEN /\ map' = map \ {<<<<req[w].c, req[w].s>>, req[w].service>>}
            /\ Goto(w, "list")
       ELSE Answer(w) /\ UNCHANGED map
    /\ UNCHANGED <<count, ecmg, ecm_stream, emmg, Redis, Cw, past>>

(* streams_json = db->getScrambledServices(): the query, and when it has   *)
(* been answered the assignment.                                           *)
List(w) ==
    /\ pc[w] = "list"
    /\ found' = [found EXCEPT ![w] = Scrambled(ecm_stream, map)]
    /\ Goto(w, "cache")
    /\ UNCHANGED <<count, Tables, Redis, streams, created, threads, past>>

Cache(w) ==
    /\ pc[w] = "cache"
    /\ streams' = found[w]
    /\ found' = [found EXCEPT ![w] = {}]
    /\ IF req[w].do = "scramble" THEN Goto(w, "spawn") ELSE Answer(w)
    /\ UNCHANGED <<count, Tables, Redis, created, threads, past>>

(* pthread_create comes before the flag that keeps others from it.         *)
Spawn(w) ==
    /\ pc[w] = "spawn"
    /\ IF created
       THEN Answer(w) /\ UNCHANGED threads
       ELSE Goto(w, "mark") /\ threads' = threads + 1
    /\ UNCHANGED <<count, Tables, Redis, found, streams, created, past>>

(* Mutant: the flag is not set.                                            *)
Mark_Omitted(w) ==
    /\ pc[w] = "mark"
    /\ Answer(w)
    /\ UNCHANGED <<count, Tables, Redis, Cw, past>>

Mark(w) ==
    /\ pc[w] = "mark"
    /\ created' = TRUE
    /\ Answer(w)
    /\ UNCHANGED <<count, Tables, Redis, found, streams, threads, past>>

-------------------------------------------------------------------------------
(* Redis.                                                                  *)

EmmRequests == {"addEMM", "updateEMM", "deleteEMM"}
Publishes(w, what) == pc[w] = "publish" /\ req[w].do \in what

(* Mutant: the handlers rely on what is selected.                          *)
Select_Omitted(w) ==
    /\ pc[w] = "select"
    /\ Goto(w, "publish")
    /\ UNCHANGED <<count, Tables, Redis, Cw, past>>

Select(w) ==
    /\ pc[w] = "select"
    /\ selected' = IF req[w].do \in EmmRequests THEN 3 ELSE 4
    /\ Goto(w, "publish")
    /\ UNCHANGED <<count, Tables, lists, stream_keys, Cw, past>>

OldChannel(r) == IF r.do = "updateECM" THEN r.old ELSE r.c

(* The channel's key, and the keys of streams, after old became new.       *)
SetChannel(r) ==
    lists' = [lists EXCEPT ![<<selected, "ecm", OldChannel(r)>>] = None,
                           ![<<selected, "ecm", r.c>>] = [p |-> r.p, deleted |-> FALSE]]
Name(k) == <<k.d, k.c, k.s, k.at>>
Matches(r) == {k \in stream_keys : /\ k.d = selected /\ k.c # r.c
                                   /\ r.c # OldChannel(r) /\ Begins(OldChannel(r), k.c)}

(* Mutant: the streams are not renamed.                                    *)
PublishECM_KeepsStreams(w) ==
    /\ Publishes(w, {"addECM", "updateECM"})
    /\ SetChannel(req[w])
    /\ Answer(w)
    /\ UNCHANGED <<count, Tables, selected, stream_keys, Cw, past>>

(* Mutant: the old key stays when the channel gets another number.         *)
PublishECM_KeepsOld(w) ==
    /\ Publishes(w, {"addECM", "updateECM"})
    /\ lists' = [lists EXCEPT ![<<selected, "ecm", req[w].c>>] =
                    [p |-> req[w].p, deleted |-> FALSE]]
    /\ Answer(w)
    /\ UNCHANGED <<count, Tables, selected, stream_keys, Cw, past>>

(* ecmChannelSetup.  A new number renames the channel's key and every key  *)
(* that matches stream:ch_old*, the streams of channels whose numbers only *)
(* begin with the old one included.  RENAME overwrites; of keys that get   *)
(* the same name the last one remains.                                     *)
PublishECM(w) ==
    /\ Publishes(w, {"addECM", "updateECM"})
    /\ SetChannel(req[w])
    /\ \E kept \in SUBSET {[k EXCEPT !.c = req[w].c] : k \in Matches(req[w])} :
          /\ \A k \in Matches(req[w]) : \E l \in kept : Name(l) = Name([k EXCEPT !.c = req[w].c])
          /\ \A k, l \in kept : Name(k) = Name(l) => k = l
          /\ stream_keys' = kept \cup {k \in stream_keys \ Matches(req[w]) :
                                         \A l \in kept : Name(l) # Name(k)}
    /\ past' = past \cup {"swept" : k \in {k \in Matches(req[w]) : k.c # OldChannel(req[w])}}
    /\ Answer(w)
    /\ UNCHANGED <<count, Tables, selected, Cw>>

Marked(key) == [lists EXCEPT ![key] = [@ EXCEPT !.deleted = TRUE]]

(* deleteECMChannel marks the key and deletes the rows of the channel and  *)
(* of its streams, before streams_json.  The keys of the streams stay.     *)
UnpublishECM(w) ==
    /\ Publishes(w, {"deleteECM"})
    /\ LET c == req[w].c
           key == <<selected, "ecm", c>>
       IN  IF lists[key] = None
           THEN Answer(w) /\ UNCHANGED <<ecmg, ecm_stream, lists>>
           ELSE /\ lists' = Marked(key)
                /\ ecmg' = [ecmg EXCEPT ![c] = None]
                /\ ecm_stream' = [i \in StreamIds |-> IF i[1] = c THEN None ELSE ecm_stream[i]]
                /\ Goto(w, "list")
    /\ UNCHANGED <<count, map, emmg, selected, stream_keys, Cw, past>>

(* What KEYS stream:ch_c:stm_s* finds.                                     *)
KeysOf(r) == {k \in stream_keys : k.d = selected /\ k.c = r.c /\ Begins(r.s, k.s)}

(* ecmStreamSetup: every key found is deleted and a new one made.          *)
PublishStream(w) ==
    /\ Publishes(w, {"addStream", "updateStream"})
    /\ LET r == req[w]
       IN  stream_keys' = (stream_keys \ KeysOf(r)) \cup
              {[d |-> selected, c |-> r.c, s |-> r.s, at |-> r.at, deleted |-> FALSE]}
    /\ Answer(w)
    /\ UNCHANGED <<count, Tables, selected, lists, Cw, past>>

(* Mutant: streams_json is not refreshed.                                  *)
UnpublishStream_KeepsCache(w) ==
    /\ Publishes(w, {"deleteStream"})
    /\ LET r == req[w]
       IN  IF KeysOf(r) = {}
           THEN UNCHANGED <<ecm_stream, stream_keys>>
           ELSE /\ \E k \in KeysOf(r) :
                      stream_keys' = (stream_keys \ {k}) \cup {[k EXCEPT !.deleted = TRUE]}
                /\ ecm_stream' = [ecm_stream EXCEPT ![<<r.c, r.s>>] = None]
    /\ Answer(w)
    /\ UNCHANGED <<count, ecmg, map, emmg, selected, lists, Cw, past>>

(* deleteECMStream: the loop over the keys found assigns its own reply to  *)
(* the variable it iterates over, so only the first is marked.             *)
UnpublishStream(w) ==
    /\ Publishes(w, {"deleteStream"})
    /\ LET r == req[w]
       IN  IF KeysOf(r) = {}
           THEN Answer(w) /\ UNCHANGED <<ecm_stream, stream_keys>>
           ELSE /\ \E k \in KeysOf(r) :
                      stream_keys' = (stream_keys \ {k}) \cup {[k EXCEPT !.deleted = TRUE]}
                /\ ecm_stream' = [ecm_stream EXCEPT ![<<r.c, r.s>>] = None]
                /\ Goto(w, "list")
    /\ UNCHANGED <<count, ecmg, map, emmg, selected, lists, Cw, past>>

PublishEMM(w) ==
    /\ Publishes(w, {"addEMM", "updateEMM"})
    /\ lists' = [lists EXCEPT ![<<selected, "emm", req[w].c>>] =
                    [p |-> req[w].p, deleted |-> FALSE]]
    /\ Answer(w)
    /\ UNCHANGED <<count, Tables, selected, stream_keys, Cw, past>>

UnpublishEMM(w) ==
    /\ Publishes(w, {"deleteEMM"})
    /\ LET key == <<selected, "emm", req[w].c>>
       IN  IF lists[key] = None
           THEN UNCHANGED <<emmg, lists>>
           ELSE /\ lists' = Marked(key)
                /\ emmg' = [emmg EXCEPT ![req[w].c] = None]
    /\ Answer(w)
    /\ UNCHANGED <<count, ecmg, ecm_stream, map, selected, stream_keys, Cw, past>>

(* addCWQueue: SELECT 4 and the control words of streams_json.             *)
CwRound ==
    /\ threads > 0
    /\ selected' = 4
    /\ past' = past \cup {"cw"}
    /\ UNCHANGED <<pc, req, count, Tables, lists, stream_keys, Cw>>

(* The server is stopped, or dies in a request, and is started again.      *)
(* init repairs nothing and does not start the control word thread: the    *)
(* calls that would are commented out.                                     *)
Restart ==
    /\ pc' = [w \in Workers |-> "idle"]
    /\ req' = [w \in Workers |-> None]
    /\ selected' = 0
    /\ found' = [w \in Workers |-> {}]
    /\ streams' = {}
    /\ created' = FALSE
    /\ threads' = 0
    /\ past' = IF \A w \in Workers : pc[w] = "idle" THEN past ELSE past \cup {"killed"}
    /\ UNCHANGED <<count, Tables, lists, stream_keys>>

WorkerStep(w) ==
    \/ AddECM(w) \/ UpdateECM(w) \/ DeleteECM(w) \/ SetStream(w) \/ DeleteStream(w)
    \/ SetEMM(w) \/ DeleteEMM(w) \/ Scramble(w) \/ Descramble(w) \/ List(w) \/ Cache(w)
    \/ Spawn(w) \/ Mark(w) \/ Select(w) \/ PublishECM(w) \/ UnpublishECM(w)
    \/ PublishStream(w) \/ UnpublishStream(w) \/ PublishEMM(w) \/ UnpublishEMM(w)

Next == (\E w \in Workers : Accept(w) \/ WorkerStep(w)) \/ CwRound \/ Restart

Spec == Init /\ [][Next]_vars

-------------------------------------------------------------------------------
(* Properties.  Each speaks of the time between requests.                  *)

Quiet == \A w \in Workers : pc[w] = "idle"

(* The entry of Redis says what the row says, and is gone or marked when   *)
(* there is no row.                                                        *)
Mirrors(entry, row) ==
    IF row = None
    THEN entry = None \/ entry.deleted
    ELSE entry = [p |-> row, deleted |-> FALSE]

(* The CAS process sees the ECM channels of the table, through any adds,   *)
(* deletions, changes of parameters and of numbers, and restarts between   *)
(* requests.                                                               *)
ChannelsAgree ==
    Quiet /\ "killed" \notin past =>
        \A c \in Channels : Mirrors(lists[<<4, "ecm", c>>], ecmg[c])

(* The same for EMM channels, until a control word thread has run: its     *)
(* SELECT 4 may fall between the SELECT 3 of a request and its commands.   *)
EmmChannelsAgree ==
    Quiet /\ past \cap {"killed", "cw"} = {} =>
        \A c \in Channels : Mirrors(lists[<<3, "emm", c>>], emmg[c])

(* The row of a stream has its key, unless a refused change of a channel   *)
(* number has moved rows only, a change of a number has taken along keys   *)
(* of a channel whose number begins with it, or the number of the stream   *)
(* itself begins with that of another.                                     *)
StreamsPublished ==
    Quiet /\ past \cap {"killed", "halfRenamed", "swept"} = {} =>
        \A c \in Channels, s \in Streams :
            /\ ecm_stream[<<c, s>>] # None
            /\ \A n \in Streams \ {s} : ~Begins(n, s)
            => [d |-> 4, c |-> c, s |-> s, at |-> ecm_stream[<<c, s>>],
                deleted |-> FALSE] \in stream_keys

(* Control words go only to streams that exist and scramble a service, as  *)
(* long as no channel changes its number, also after a crash.  With one    *)
(* worker: of two, one may assign a list it has read before the other has  *)
(* deleted a stream, after the other has assigned its own.                 *)
CwOnlyForScrambled ==
    Quiet /\ past \cap {"renamed", "halfRenamed"} = {} =>
        streams \subseteq Scrambled(ecm_stream, map)

(* One thread feeds the control words, and the flag tells.                 *)
OneCwThread == threads <= 1 /\ (Quiet => (created <=> threads = 1))
===============================================================================
