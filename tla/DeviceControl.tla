---------------------------- MODULE DeviceControl ----------------------------
(***************************************************************************)
(* Tuners, LNB supplies, IP outputs and centre frequencies                 *)
(* (examples/rest_server.cc, from setMxlTuner, setEthernetOut and          *)
(* setCenterFrequency on; src/common/MxlApiLib.c).                         *)
(* They sit behind one I2C core.  write32bCPU(0, 0, target) connects the   *)
(* core to an interface of a board, and everything after it goes there:    *)
(* interface 0, 1, 2 of board code 0 is the control FPGA of two boards,    *)
(* 6 its RF output, 7 to 12 of any code the tuner chips of that board,     *)
(* each with two LNB supplies (Allegro) on its bus.                        *)
(*                                                                         *)
(* A selection reports whether it was answered.  What is written through   *)
(* the core is not: writeI2C and the vendor's driver report success, and   *)
(* write32bI2C returns nothing, so that what its callers compare is any    *)
(* value.  A lost write is therefore not noticed by the code.              *)
(*                                                                         *)
(* The settings of a tuner are one value.  Left out: the MPEG output mode  *)
(* of a demodulator, which is the same in every request; the register that *)
(* RFauthorization writes (the board it is called for), which nothing      *)
(* reads; what a reading returns; the registers of IP inputs (28 and 32 of *)
(* the control FPGA, and the cores 4 and 6); the routes that write any     *)
(* register they are told (readWrite32bUdpI2C, setReadWrite).  Queries do  *)
(* not fail.                                                               *)
(***************************************************************************)
EXTENDS Naturals

CONSTANTS
    Workers,      \* the worker threads of the HTTP endpoint
    Boards,       \* rmx_no
    Chips,        \* mxl_id
    Demods,       \* demod_id
    Lnbs,         \* lnb_id
    Volts,        \* supply voltages
    Settings,     \* what a demodulator can be tuned to
    Numbers,      \* channel_no of an IP output
    Addresses,    \* IP address and port of an IP output
    Frequencies,  \* centre frequencies
    Groups,       \* how many channels setEthernet_MULT sets (4 in the code)
    Installed,    \* the tuner chips that are there, by their target
    MaxRequests,  \* bound: how many requests the clients send
    Off,          \* not tuned, not supplied, no IP output
    None          \* no row, no request

VARIABLES
    pc,          \* pc[w]: where worker w is in its request
    req,         \* req[w]: the request
    count,       \* requests so far
    target,      \* what the I2C core is connected to
    firmware,    \* the chips that have their firmware
    tuned,       \* tuned[t][d]: what demodulator d of chip t is tuned to
    supply,      \* supply[t][a]: the voltages in the two halves of Allegro a
    staged,      \* staged[f]: registers 36, 40 and 44 of control FPGA f
    output,      \* output[f][k]: the address of channel k of control FPGA f
    frequency,   \* frequency[b]: register 4 * (b - 1) of the RF output
    tuner_details, config_allegro, ip_output_channels, rf_authorization,
    Ifrequency,  \* the tables
    lost,        \* ghost: the workers that had a write lost
    doubt        \* ghost: the rows whose last request did not answer a
                 \* success, or had a write lost, or was no setting

Devices == <<firmware, tuned, supply, staged, output, frequency>>
Tables == <<tuner_details, config_allegro, ip_output_channels, rf_authorization, Ifrequency>>
vars == <<pc, req, count, target, Devices, Tables, lost, doubt>>

-------------------------------------------------------------------------------
(* Addresses of the hardware.                                              *)

Target(code, interface) == 32 * (code % 8) + 2 * (interface % 16)
Bus(code, c) == Target(code, c + 6)
RF == Target(0, 6)
ControlFpga(b) == Target(0, ((b + 1) \div 2) - 1)       \* ceil(b / 2) - 1
(* Mutant: every board counts its channels from 1.                         *)
ChannelOf_PerBoard(b, n) == n
ChannelOf(b, n) == (b - 1) * 8 + n
Allegro(lnb) == IF lnb \in {0, 1} THEN 8 ELSE 9
Half(lnb) == IF lnb \in {0, 2} THEN 1 ELSE 2

Buses == {Bus(k, c) : k \in 0 .. 7, c \in Chips}
Fpgas == {ControlFpga(b) : b \in Boards}
Channels == {ChannelOf(b, n) : b \in Boards, n \in Numbers} \cup 1 .. Groups

(* setEthernet_MULT gives channel i the group 4026466561 + i - 1, and ports *)
(* 10001 + i - 1.                                                          *)
Multicast(i) == <<"multicast", i>>
InForce == Addresses \cup {Off} \cup {Multicast(i) : i \in 1 .. Groups}
Voltages == [1 .. 2 -> Volts]
Supplied == [1 .. 2 -> Volts \cup {Off}]

Tuners == {"tuner"} \X Boards \X Chips \X Demods
Outputs == {"output"} \X Boards \X Numbers
Carriers == {"carrier"} \X Boards

(* What the handlers accept.  configure stands for the handlers that select *)
(* a board for a command of their own.                                     *)
SetMxlTuner ==
    [do : {"setMxlTuner"}, b : Boards, c : Chips, d : Demods, lnb : Lnbs,
     volt : Volts, to : Settings]
SetDemodMxl == [do : {"setDemodMxl"}, b : Boards, c : Chips, d : Demods, to : Settings]
SetConfAllegro == [do : {"setConfAllegro"}, at : {8, 9}, lnb : Lnbs, volt : Volts, c : Chips]
DownloadFirmware == [do : {"downloadFirmware"}, b : Boards, c : Chips]
ConnectMxl == [do : {"connectMxl"}, b : Boards, c : Chips]
SetMxlTunerOff == [do : {"setMxlTunerOff"}, d : Demods]
AuthorizeRFout == [do : {"authorizeRFout"}, b : Boards]
Configure == [do : {"configure"}, b : Boards]
SetEthernetOut == [do : {"setEthernetOut"}, b : Boards, n : Numbers, to : Addresses]
SetEthernetOutOff == [do : {"setEthernetOutOff"}, b : Boards, n : Numbers]
GetEthernetOut == [do : {"getEthernetOut"}, b : Boards, n : Numbers]
SetIpdestination == [do : {"setIpdestination"}, to : Addresses]
SetCenterFrequency == [do : {"setCenterFrequency"}, b : Boards, to : Frequencies]
GetCenterFrequency == [do : {"getCenterFrequency"}, b : Boards]
(* It names no channel: n is the one it has come to.                       *)
SetIPTV == [do : {"setIPTV"}, n : 1 .. Groups]

Requests ==
    SetMxlTuner \cup SetDemodMxl \cup SetConfAllegro \cup DownloadFirmware
        \cup ConnectMxl \cup SetMxlTunerOff \cup AuthorizeRFout \cup Configure
        \cup SetEthernetOut \cup SetEthernetOutOff \cup GetEthernetOut
        \cup SetIpdestination \cup SetCenterFrequency \cup GetCenterFrequency
        \cup SetIPTV

(* Where the handlers begin.                                               *)
Begins == [ setMxlTuner |-> "connect", setDemodMxl |-> "reconnect",
            setConfAllegro |-> "connect", downloadFirmware |-> "download",
            connectMxl |-> "connect", setMxlTunerOff |-> "off",
            authorizeRFout |-> "authorize", configure |-> "board",
            setEthernetOut |-> "fpga", setEthernetOutOff |-> "fpga",
            getEthernetOut |-> "fpga", setIpdestination |-> "stage",
            setCenterFrequency |-> "rf", getCenterFrequency |-> "rf",
            setIPTV |-> "iptv" ]

ASSUME DeviceAssumption ==
    /\ Boards \subseteq 1 .. 6 /\ Chips \subseteq 1 .. 6
    /\ Lnbs \subseteq 0 .. 3 /\ Numbers \subseteq 1 .. 16
    /\ Installed \subseteq Buses
    /\ MaxRequests \in Nat
    /\ Groups \in Nat \ {0}
    /\ Off \notin Settings \cup Volts \cup Addresses \cup Frequencies
    /\ None \notin Settings \cup Voltages \cup Addresses \cup Frequencies
                      \cup {Off} \cup Requests

TypeOK ==
    /\ pc \in [Workers -> {"idle", "connect", "download", "supply", "reconnect", "tune",
                           "row", "authorize", "off", "board", "fpga", "stage",
                           "validate", "save", "rf", "carrier", "keep",
                           "iptv", "preset", "inforce"}]
    /\ req \in [Workers -> Requests \cup {None}]
    /\ \A w \in Workers : pc[w] = "idle" <=> req[w] = None
    /\ count \in 0 .. MaxRequests
    /\ target \in Nat
    /\ firmware \in SUBSET Installed
    /\ tuned \in [Installed -> [Demods -> Settings \cup {Off}]]
    /\ supply \in [Installed -> [{8, 9} -> Supplied]]
    /\ staged \in [Fpgas -> InForce]
    /\ output \in [Fpgas -> [Channels -> InForce]]
    /\ frequency \in [Boards -> Frequencies \cup {Off}]
    /\ tuner_details \in [Tuners -> Settings \cup {None}]
    /\ config_allegro \in [Chips \X {8, 9} -> Voltages \cup {None}]
    /\ ip_output_channels \in [Outputs -> Addresses \cup {Off, None}]
    /\ rf_authorization \in SUBSET Boards
    /\ Ifrequency \in [Carriers -> Frequencies \cup {None}]
    /\ lost \in SUBSET Workers
    /\ doubt \in SUBSET (Tuners \cup Outputs \cup Carriers)

Init ==
    /\ pc = [w \in Workers |-> "idle"]
    /\ req = [w \in Workers |-> None]
    /\ count = 0
    /\ target = 0
    /\ firmware \in SUBSET Installed
    /\ tuned = [t \in Installed |-> [d \in Demods |-> Off]]
    /\ supply = [t \in Installed |-> [a \in {8, 9} |-> [h \in 1 .. 2 |-> Off]]]
    /\ staged = [f \in Fpgas |-> Off]
    /\ output = [f \in Fpgas |-> [k \in Channels |-> Off]]
    /\ frequency = [b \in Boards |-> Off]
    /\ tuner_details = [k \in Tuners |-> None]
    /\ config_allegro = [k \in Chips \X {8, 9} |-> None]
    /\ ip_output_channels = [k \in Outputs |-> None]
    /\ rf_authorization = {}
    /\ Ifrequency = [k \in Carriers |-> None]
    /\ lost = {}
    /\ doubt = {}

-------------------------------------------------------------------------------
(* Requests and selections.                                                *)

At(w, label) == pc[w] = label
Goto(w, label) == pc' = [pc EXCEPT ![w] = label] /\ UNCHANGED req
Answer(w) == pc' = [pc EXCEPT ![w] = "idle"] /\ req' = [req EXCEPT ![w] = None]

(* The rows that a request is about, or whose subject it may change.       *)
Subject(r) ==
    CASE r.do \in {"setMxlTuner", "setDemodMxl"} -> {<<"tuner", r.b, r.c, r.d>>}
      [] r.do \in {"setEthernetOut", "setEthernetOutOff", "getEthernetOut"} ->
            {<<"output", r.b, r.n>>}
      [] r.do = "setCenterFrequency" -> {<<"carrier", r.b>>}
      [] r.do = "setIPTV" -> {k \in Outputs : ChannelOf(k[2], k[3]) \in 1 .. Groups}
      [] OTHER -> {}

Accept(w) ==
    /\ At(w, "idle")
    /\ count < MaxRequests
    /\ count' = count + 1
    /\ \E r \in Requests :
          /\ r.do = "setIPTV" => r.n = 1
          /\ req' = [req EXCEPT ![w] = r]
          /\ pc' = [pc EXCEPT ![w] = Begins[r.do]]
          /\ doubt' = doubt \cup Subject(r)
    /\ lost' = lost \ {w}
    /\ UNCHANGED <<target, Devices, Tables>>

(* write32bCPU(0, 0, t): -1 when no answer came, whether the selection was *)
(* made or not.                                                            *)
Select(t, answered) ==
    \/ answered /\ target' = t
    \/ ~answered /\ target' \in {target, t}

(* connectI2Clines: selects, resets the core, and asks the chip for its    *)
(* version; a chip that is not there does not answer.                      *)
Connect(t, connected) ==
    \E answered \in BOOLEAN :
        /\ Select(t, answered)
        /\ connected = (answered /\ t \in Installed)

-------------------------------------------------------------------------------
(* Tuners and their LNB supplies.                                          *)

(* setMxlTuner, setConfAllegro (always board code 0), connectMxl, and      *)
(* setMPEGOut and getDemodMxl, which do no more than connectMxl here.      *)
ConnectFirst(w) ==
    /\ At(w, "connect")
    /\ \E connected \in BOOLEAN :
          /\ Connect(IF req[w].do = "setConfAllegro" THEN Bus(0, req[w].c)
                                                     ELSE Bus(req[w].b - 1, req[w].c),
                     connected)
          /\ IF ~connected \/ req[w].do = "connectMxl" THEN Answer(w)
             ELSE Goto(w, IF req[w].do = "setMxlTuner" THEN "download" ELSE "supply")
    /\ UNCHANGED <<count, Devices, Tables, lost, doubt>>

(* Mutant: the download does not wait for the chip to answer.              *)
Download_Unchecked(w) ==
    LET t == Bus(IF req[w].do = "setMxlTuner" THEN req[w].b ELSE req[w].b - 1, req[w].c) IN
    /\ At(w, "download")
    /\ \E answered \in BOOLEAN : Select(t, answered)
    /\ firmware' \in {firmware, firmware \cup {t}}
    /\ IF req[w].do = "setMxlTuner" THEN Goto(w, "supply") ELSE Answer(w)
    /\ UNCHANGED <<count, tuned, supply, staged, output, frequency, Tables, lost, doubt>>

(* downloadMxlFW takes a board code; setMxlTuner gives it the number of    *)
(* the board, which is the code of the next one, and goes on whatever it   *)
(* answers.                                                                *)
Download(w) ==
    LET setsTuner == req[w].do = "setMxlTuner"
        t == Bus(IF setsTuner THEN req[w].b ELSE req[w].b - 1, req[w].c)
    IN
    /\ At(w, "download")
    /\ \E connected \in BOOLEAN :
          /\ Connect(t, connected)
          /\ firmware' \in IF connected THEN {firmware, firmware \cup {t}} ELSE {firmware}
    /\ IF setsTuner THEN Goto(w, "supply") ELSE Answer(w)
    /\ UNCHANGED <<count, tuned, supply, staged, output, frequency, Tables, lost, doubt>>

(* confAllegro: both halves are in one register, and the half that is not  *)
(* set is taken from the row.  Its success does not depend on the write.   *)
Supply(w) ==
    LET r == req[w]
        a == IF r.do = "setConfAllegro" THEN r.at ELSE Allegro(r.lnb)
        row == config_allegro[<<r.c, a>>]
        new == IF row = None THEN [h \in 1 .. 2 |-> r.volt]
                             ELSE [row EXCEPT ![Half(r.lnb)] = r.volt]
    IN
    /\ At(w, "supply")
    /\ supply' \in {supply} \cup
          IF target \in Installed THEN {[supply EXCEPT ![target][a] = new]} ELSE {}
    /\ config_allegro' = [config_allegro EXCEPT ![<<r.c, a>>] = new]
    /\ IF r.do = "setMxlTuner" THEN Goto(w, "reconnect") ELSE Answer(w)
    /\ UNCHANGED <<count, target, firmware, tuned, staged, output, frequency, tuner_details,
                   ip_output_channels, rf_authorization, Ifrequency, lost, doubt>>

(* What follows a failure, and the row: the RF output for setMxlTuner.     *)
Leave(w) == IF req[w].do = "setMxlTuner" THEN Goto(w, "authorize") ELSE Answer(w)

(* Mutant: tuneMxl relies on the connection it was called with.            *)
Reconnect_Omitted(w) ==
    /\ At(w, "reconnect")
    /\ Goto(w, "tune")
    /\ UNCHANGED <<count, target, Devices, Tables, lost, doubt>>

(* tuneMxl connects again.                                                 *)
Reconnect(w) ==
    /\ At(w, "reconnect")
    /\ \E connected \in BOOLEAN :
          /\ Connect(Bus(req[w].b - 1, req[w].c), connected)
          /\ IF connected THEN Goto(w, "tune") ELSE Leave(w)
    /\ UNCHANGED <<count, Devices, Tables, lost, doubt>>

(* configureLNB and setTuner, on whatever the core is connected to; a chip *)
(* without its firmware ignores them.                                      *)
Tune(w) ==
    LET r == req[w] IN
    /\ At(w, "tune")
    /\ \E arrives, succeeds \in BOOLEAN :
          /\ IF arrives /\ target \in firmware
             THEN tuned' = [tuned EXCEPT ![target][r.d] = r.to] /\ UNCHANGED lost
             ELSE lost' = lost \cup {w} /\ UNCHANGED tuned
          /\ IF succeeds THEN Goto(w, "row") ELSE Leave(w)
    /\ UNCHANGED <<count, target, firmware, supply, staged, output, frequency, Tables, doubt>>

(* db->addTunerDetails.                                                    *)
SaveTuner(w) ==
    LET k == <<"tuner", req[w].b, req[w].c, req[w].d>> IN
    /\ At(w, "row")
    /\ tuner_details' = [tuner_details EXCEPT ![k] = req[w].to]
    /\ doubt' = IF w \in lost THEN doubt ELSE doubt \ {k}
    /\ Leave(w)
    /\ UNCHANGED <<count, target, Devices, config_allegro, ip_output_channels,
                   rf_authorization, Ifrequency, lost>>

(* setMxlTunerOff: it names no board and no chip.                          *)
TuneOff(w) ==
    /\ At(w, "off")
    /\ tuned' \in {tuned} \cup
          IF target \in firmware THEN {[tuned EXCEPT ![target][req[w].d] = Off]} ELSE {}
    /\ Answer(w)
    /\ UNCHANGED <<count, target, firmware, supply, staged, output, frequency, Tables,
                   lost, doubt>>

(* RFauthorization.                                                        *)
Authorize(w) ==
    /\ At(w, "authorize")
    /\ \E answered \in BOOLEAN :
          /\ Select(RF, answered)
          /\ rf_authorization' =
                IF answered THEN rf_authorization \cup {req[w].b} ELSE rf_authorization
    /\ Answer(w)
    /\ UNCHANGED <<count, Devices, tuner_details, config_allegro, ip_output_channels,
                   Ifrequency, lost, doubt>>

(* The first step of a configuration handler, which selects the board (the *)
(* rest is RmxControl's), or of setEthernetIn and setEthernetInOff, which  *)
(* select its control FPGA.                                                *)
SelectBoard(w) ==
    /\ At(w, "board")
    /\ \E answered \in BOOLEAN, t \in {Target(req[w].b - 1, 0), ControlFpga(req[w].b)} :
          Select(t, answered)
    /\ Answer(w)
    /\ UNCHANGED <<count, Devices, Tables, lost, doubt>>

-------------------------------------------------------------------------------
(* IP outputs.                                                             *)

SelectFpga(w) ==
    /\ At(w, "fpga")
    /\ \E answered \in BOOLEAN :
          /\ Select(ControlFpga(req[w].b), answered)
          /\ IF ~answered THEN Answer(w)
             ELSE Goto(w, IF req[w].do = "getEthernetOut" THEN "validate" ELSE "stage")
    /\ UNCHANGED <<count, Devices, Tables, lost, doubt>>

(* Registers 36, 40 and 44, without a look at errors.  setIpdestination    *)
(* computes a target and does not select it.                               *)
Stage(w) ==
    LET new == IF req[w].do = "setEthernetOutOff" THEN Off ELSE req[w].to IN
    /\ At(w, "stage")
    /\ \E arrives \in BOOLEAN :
          IF arrives /\ target \in Fpgas
          THEN staged' = [staged EXCEPT ![target] = new] /\ UNCHANGED lost
          ELSE lost' = lost \cup {w} /\ UNCHANGED staged
    /\ IF req[w].do = "setIpdestination" THEN Answer(w) ELSE Goto(w, "validate")
    /\ UNCHANGED <<count, target, firmware, tuned, supply, output, frequency, Tables, doubt>>

(* Register 48 puts the staged address in force for a channel; the error   *)
(* of this write alone decides the answer.  getEthernetOut writes it too,  *)
(* before it reads the address.                                            *)
Validate(w) ==
    LET k == ChannelOf(req[w].b, req[w].n) IN
    /\ At(w, "validate")
    /\ \E arrives, succeeds \in BOOLEAN :
          /\ IF arrives /\ target \in Fpgas
             THEN output' = [output EXCEPT ![target][k] = staged[target]] /\ UNCHANGED lost
             ELSE lost' = lost \cup {w} /\ UNCHANGED output
          /\ IF succeeds /\ req[w].do # "getEthernetOut" THEN Goto(w, "save") ELSE Answer(w)
    /\ UNCHANGED <<count, target, firmware, tuned, supply, staged, frequency, Tables, doubt>>

(* addIPOutputChannels inserts or replaces, removeIPOutputChannels updates *)
(* a row that is there.                                                    *)
SaveOutput(w) ==
    LET k == <<"output", req[w].b, req[w].n>> IN
    /\ At(w, "save")
    /\ ip_output_channels' = [ip_output_channels EXCEPT ![k] =
          IF req[w].do = "setEthernetOut" THEN req[w].to
          ELSE IF @ = None THEN None ELSE Off]
    /\ doubt' = IF w \in lost THEN doubt ELSE doubt \ {k}
    /\ Answer(w)
    /\ UNCHANGED <<count, target, Devices, tuner_details, config_allegro,
                   rf_authorization, Ifrequency, lost>>

(* setIPTV: selects control FPGA 0, and goes on whatever that answers.     *)
SelectIPTV(w) ==
    /\ At(w, "iptv")
    /\ \E answered \in BOOLEAN : Select(Target(0, 0), answered)
    /\ Goto(w, "preset")
    /\ UNCHANGED <<count, Devices, Tables, lost, doubt>>

(* setEthernet_MULT: registers 36, 40 and 44 for a channel,                *)
Preset(w) ==
    /\ At(w, "preset")
    /\ staged' \in {staged} \cup
          IF target \in Fpgas THEN {[staged EXCEPT ![target] = Multicast(req[w].n)]} ELSE {}
    /\ Goto(w, "inforce")
    /\ UNCHANGED <<count, target, firmware, tuned, supply, output, frequency, Tables,
                   lost, doubt>>

(* then register 48, for one channel after the other; it looks at no error *)
(* and saves no row.                                                       *)
PutInForce(w) ==
    LET n == req[w].n IN
    /\ At(w, "inforce")
    /\ output' \in {output} \cup
          IF target \in Fpgas THEN {[output EXCEPT ![target][n] = staged[target]]} ELSE {}
    /\ IF n = Groups THEN Answer(w)
       ELSE pc' = [pc EXCEPT ![w] = "preset"] /\ req' = [req EXCEPT ![w].n = n + 1]
    /\ UNCHANGED <<count, target, firmware, tuned, supply, staged, frequency, Tables,
                   lost, doubt>>

-------------------------------------------------------------------------------
(* Centre frequencies.                                                     *)

(* setCenterFrequency, and getCenterFrequency, which then only reads, and  *)
(* again while it reads 197.                                               *)
SelectRF(w) ==
    /\ At(w, "rf")
    /\ \E answered \in BOOLEAN :
          /\ Select(RF, answered)
          /\ IF answered /\ req[w].do = "setCenterFrequency" THEN Goto(w, "carrier")
                                                            ELSE Answer(w)
    /\ UNCHANGED <<count, Devices, Tables, lost, doubt>>

(* Mutant: all boards have register 0.                                     *)
SetFrequency_OneRegister(w) ==
    /\ At(w, "carrier")
    /\ \E arrives, succeeds \in BOOLEAN :
          /\ IF arrives /\ target = RF
             THEN frequency' = [b \in Boards |-> req[w].to] /\ UNCHANGED lost
             ELSE lost' = lost \cup {w} /\ UNCHANGED frequency
          /\ IF succeeds THEN Goto(w, "keep") ELSE Answer(w)
    /\ UNCHANGED <<count, target, firmware, tuned, supply, staged, output, Tables, doubt>>

SetFrequency(w) ==
    /\ At(w, "carrier")
    /\ \E arrives, succeeds \in BOOLEAN :
          /\ IF arrives /\ target = RF
             THEN frequency' = [frequency EXCEPT ![req[w].b] = req[w].to] /\ UNCHANGED lost
             ELSE lost' = lost \cup {w} /\ UNCHANGED frequency
          /\ IF succeeds THEN Goto(w, "keep") ELSE Answer(w)
    /\ UNCHANGED <<count, target, firmware, tuned, supply, staged, output, Tables, doubt>>

(* db->addFrequency inserts or updates.                                    *)
SaveFrequency(w) ==
    LET k == <<"carrier", req[w].b>> IN
    /\ At(w, "keep")
    /\ Ifrequency' = [Ifrequency EXCEPT ![k] = req[w].to]
    /\ doubt' = IF w \in lost THEN doubt ELSE doubt \ {k}
    /\ Answer(w)
    /\ UNCHANGED <<count, target, Devices, tuner_details, config_allegro,
                   ip_output_channels, rf_authorization, lost>>

(* The server dies and starts again; nothing is restored.                  *)
Restart ==
    /\ pc' = [w \in Workers |-> "idle"]
    /\ req' = [w \in Workers |-> None]
    /\ UNCHANGED <<count, target, Devices, Tables, lost, doubt>>

Next ==
    \/ \E w \in Workers :
          \/ Accept(w) \/ ConnectFirst(w) \/ Download(w) \/ Supply(w) \/ Reconnect(w)
          \/ Tune(w) \/ SaveTuner(w) \/ TuneOff(w) \/ Authorize(w) \/ SelectBoard(w)
          \/ SelectFpga(w) \/ Stage(w) \/ Validate(w) \/ SaveOutput(w)
          \/ SelectIPTV(w) \/ Preset(w) \/ PutInForce(w)
          \/ SelectRF(w) \/ SetFrequency(w) \/ SaveFrequency(w)
    \/ Restart

Spec == Init /\ [][Next]_vars
-------------------------------------------------------------------------------
(* Properties.                                                             *)

OneWorker == \A u, v \in Workers : u = v

(* The row of a tuner says what the demodulator of that chip on that board *)
(* is tuned to, or it was turned off since, although setMxlTuner visits    *)
(* the next board before, and the RF output after, and every other handler *)
(* moves the one selection too.  A tuner whose last request failed or lost *)
(* a write is not covered: the code cannot tell.                           *)
TunersAsRecorded ==
    \A b \in Boards, c \in Chips, d \in Demods :
        LET k == <<"tuner", b, c, d>>
            t == Bus(b - 1, c)
        IN (tuner_details[k] # None /\ k \notin doubt) =>
              t \in Installed /\ tuned[t][d] \in {tuner_details[k], Off}

(* The row of an IP output says what is in force for its channel on the    *)
(* control FPGA two boards share, and addresses staged for one channel     *)
(* never reach another.  Boards have eight channels each there, but        *)
(* channel_no may be up to 16: a number above 8 is a channel of the other  *)
(* board, and those channels are not covered.  Nor is one that             *)
(* getEthernetOut showed: it puts the address staged last in force for it. *)
(* Nor, until they are set again, are channels 1 to 4 of control FPGA 0    *)
(* once setIPTV was called: it gives them addresses that no row records.   *)
OutputsAsRecorded ==
    \A b \in Boards, n \in Numbers :
        LET k == <<"output", b, n>> IN
        /\ n <= 8 /\ (b % 2 = 1 \/ n + 8 \notin Numbers)
        /\ ip_output_channels[k] # None /\ k \notin doubt
        => output[ControlFpga(b)][ChannelOf(b, n)] = ip_output_channels[k]

(* The row of a board's centre frequency says what its register in the RF  *)
(* output holds, although the write goes through the core that every       *)
(* handler moves, and its success is not known (callsetCenterFrequency).   *)
FrequenciesAsRecorded ==
    \A b \in Boards :
        LET k == <<"carrier", b>> IN
        Ifrequency[k] # None /\ k \notin doubt => frequency[b] = Ifrequency[k]

=============================================================================
