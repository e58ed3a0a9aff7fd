------------------------- MODULE DeviceControl_proofs -------------------------
(***************************************************************************)
(* Proofs about module DeviceControl.                                      *)
(***************************************************************************)
EXTENDS DeviceControl, TLAPS

(* What the requests of each kind hold.                                    *)
LEMMA Fields ==
    ASSUME NEW r
    PROVE  /\ r \in SetMxlTuner => r.do = "setMxlTuner" /\ r.b \in Boards /\ r.c \in Chips
                                   /\ r.d \in Demods /\ r.lnb \in Lnbs /\ r.volt \in Volts
                                   /\ r.to \in Settings
           /\ r \in SetDemodMxl => r.do = "setDemodMxl" /\ r.b \in Boards /\ r.c \in Chips
                                   /\ r.d \in Demods /\ r.to \in Settings
           /\ r \in SetConfAllegro => r.do = "setConfAllegro" /\ r.at \in {8, 9}
                                      /\ r.lnb \in Lnbs /\ r.volt \in Volts /\ r.c \in Chips
           /\ r \in DownloadFirmware => r.do = "downloadFirmware" /\ r.b \in Boards
                                        /\ r.c \in Chips
           /\ r \in ConnectMxl => r.do = "connectMxl" /\ r.b \in Boards /\ r.c \in Chips
           /\ r \in SetMxlTunerOff => r.do = "setMxlTunerOff" /\ r.d \in Demods
           /\ r \in AuthorizeRFout => r.do = "authorizeRFout" /\ r.b \in Boards
           /\ r \in Configure => r.do = "configure" /\ r.b \in Boards
           /\ r \in SetEthernetOut => r.do = "setEthernetOut" /\ r.b \in Boards
                                      /\ r.n \in Numbers /\ r.to \in Addresses
           /\ r \in SetEthernetOutOff => r.do = "setEthernetOutOff" /\ r.b \in Boards
                                         /\ r.n \in Numbers
           /\ r \in GetEthernetOut => r.do = "getEthernetOut" /\ r.b \in Boards
                                      /\ r.n \in Numbers
           /\ r \in SetIpdestination => r.do = "setIpdestination" /\ r.to \in Addresses
           /\ r \in SetCenterFrequency => r.do = "setCenterFrequency" /\ r.b \in Boards
                                          /\ r.to \in Frequencies
           /\ r \in GetCenterFrequency => r.do = "getCenterFrequency" /\ r.b \in Boards
           /\ r \in SetIPTV => r.do = "setIPTV" /\ r.n \in 1 .. Groups
  BY DEF SetMxlTuner, SetDemodMxl, SetConfAllegro, DownloadFirmware, ConnectMxl,
         SetMxlTunerOff, AuthorizeRFout, Configure, SetEthernetOut, SetEthernetOutOff,
         GetEthernetOut, SetIpdestination, SetCenterFrequency, GetCenterFrequency, SetIPTV

(* Every worker is at a place where the handler of its request comes by.   *)
OutputRequests == SetEthernetOut \cup SetEthernetOutOff \cup GetEthernetOut
Fits(label, r) ==
    /\ label = "idle" <=> r = None
    /\ label = "connect" => r \in SetMxlTuner \cup SetConfAllegro \cup ConnectMxl
    /\ label = "download" => r \in SetMxlTuner \cup DownloadFirmware
    /\ label = "supply" => r \in SetMxlTuner \cup SetConfAllegro
    /\ label \in {"reconnect", "tune", "row"} => r \in SetMxlTuner \cup SetDemodMxl
    /\ label = "authorize" => r \in SetMxlTuner \cup AuthorizeRFout
    /\ label = "off" => r \in SetMxlTunerOff
    /\ label = "board" => r \in Configure
    /\ label \in {"fpga", "validate"} => r \in OutputRequests
    /\ label = "stage" => r \in SetEthernetOut \cup SetEthernetOutOff \cup SetIpdestination
    /\ label = "save" => r \in SetEthernetOut \cup SetEthernetOutOff
    /\ label = "rf" => r \in SetCenterFrequency \cup GetCenterFrequency
    /\ label \in {"carrier", "keep"} => r \in SetCenterFrequency
    /\ label \in {"iptv", "preset", "inforce"} => r \in SetIPTV

Places == {"connect", "download", "supply", "reconnect", "tune", "row", "authorize", "off",
           "board", "fpga", "stage", "validate", "save", "rf", "carrier", "keep",
           "iptv", "preset", "inforce"}

(* The two halves of the type invariant, the first one strengthened.       *)
Whereabouts ==
    /\ pc \in [Workers -> Places \cup {"idle"}]
    /\ req \in [Workers -> Requests \cup {None}]
    /\ \A w \in Workers : Fits(pc[w], req[w])

Values ==
    /\ count \in 0 .. MaxRequests
    /\ target \in Nat
    /\ firmware \in SUBSET Installed
    /\ tuned \in [Installed -> [Demods -> Settings \cup {Off}]]
    /\ supply \in [Installed -> [{8, 9} -> Supplied]]
    /\ staged \in [Fpgas -> InForce]
    /\ output \in [Fpgas -> [Channels -> InForce]]
    /\ frequency \in [Boards -> Frequencies \cup {Off}]
    /\ tuner_details \in [Tuners -> Settings \cup {None}]
    /\ config_allegro \in [Chips \X {8, 9} -> Voltages \cup {None}]
    /\ ip_output_channels \in [Outputs -> Addresses \cup {Off, None}]
    /\ rf_authorization \in SUBSET Boards
    /\ Ifrequency \in [Carriers -> Frequencies \cup {None}]
    /\ lost \in SUBSET Workers
    /\ doubt \in SUBSET (Tuners \cup Outputs \cup Carriers)

-------------------------------------------------------------------------------
(* The hardware's addresses.                                               *)

LEMMA TargetNat ==
    ASSUME NEW k \in Nat, NEW i \in Nat PROVE Target(k, i) \in Nat
  BY DEF Target

LEMMA Addressed ==
    ASSUME NEW b \in Boards
    PROVE  /\ b \in 1 .. 6 /\ b - 1 \in Nat
           /\ ControlFpga(b) \in Fpgas /\ ControlFpga(b) \in Nat
           /\ \A c \in Chips : Bus(b - 1, c) \in Nat /\ Bus(b, c) \in Nat
           /\ \A n \in Numbers : ChannelOf(b, n) \in Channels
           /\ RF \in Nat /\ Target(b - 1, 0) \in Nat
<1>1. b \in 1 .. 6 /\ b - 1 \in Nat /\ b \in Nat
  BY DeviceAssumption
<1>2. ((b + 1) \div 2) - 1 \in Nat
  BY <1>1
<1>3. \A c \in Chips : Bus(b - 1, c) \in Nat /\ Bus(b, c) \in Nat
  <2> TAKE c \in Chips
  <2>1. c + 6 \in Nat
    BY DeviceAssumption
  <2> QED
    BY <1>1, <2>1, TargetNat DEF Bus
<1>4. ControlFpga(b) \in Fpgas /\ ControlFpga(b) \in Nat
  BY <1>2, TargetNat DEF ControlFpga, Fpgas
<1>5. RF \in Nat /\ Target(b - 1, 0) \in Nat
  BY <1>1, TargetNat DEF RF
<1>6. \A n \in Numbers : ChannelOf(b, n) \in Channels
  BY DEF Channels
<1> QED
  BY <1>1, <1>3, <1>4, <1>5, <1>6

(* Two boards of one control FPGA count its channels from 1 and from 9: a  *)
(* channel of one is another's only by a number above 8.                   *)
LEMMA ChannelsApart ==
    ASSUME NEW b \in Boards, NEW n \in Numbers, NEW d \in Boards, NEW m \in Numbers,
           n <= 8, b % 2 = 1 \/ n + 8 \notin Numbers,
           ControlFpga(b) = ControlFpga(d), ChannelOf(b, n) = ChannelOf(d, m)
    PROVE  b = d /\ n = m
<1>1. /\ b \in 1 .. 6 /\ d \in 1 .. 6 /\ n \in 1 .. 16 /\ m \in 1 .. 16
  BY DeviceAssumption
<1>2. (b + 1) \div 2 = (d + 1) \div 2
  BY <1>1 DEF ControlFpga, Target
<1>3. (b - 1) * 8 + n = (d - 1) * 8 + m
  BY DEF ChannelOf
<1>4. CASE d = b + 1
  BY <1>1, <1>3, <1>4
<1>5. CASE b = d + 1
  <2>1. m = n + 8
    BY <1>1, <1>3, <1>5
  <2>2. b % 2 = 1
    BY <2>1
  <2> QED
    BY <2>2, <1>1, <1>2, <1>5
<1>6. CASE b = d
  BY <1>1, <1>3, <1>6
<1> QED
  BY <1>1, <1>2, <1>4, <1>5, <1>6

(* A bus belongs to one chip of one board.                                 *)
LEMMA BusesApart ==
    ASSUME NEW b \in Boards, NEW c \in Chips, NEW d \in Boards, NEW e \in Chips,
           Bus(b - 1, c) = Bus(d - 1, e)
    PROVE  b = d /\ c = e
<1>1. b \in 1 .. 6 /\ d \in 1 .. 6 /\ c \in 1 .. 6 /\ e \in 1 .. 6
  BY DeviceAssumption
<1>2. /\ (b - 1) % 8 = b - 1 /\ (d - 1) % 8 = d - 1
      /\ (c + 6) % 16 = c + 6 /\ (e + 6) % 16 = e + 6
  BY <1>1
<1>3. 32 * (b - 1) + 2 * (c + 6) = 32 * (d - 1) + 2 * (e + 6)
  BY <1>2 DEF Bus, Target
<1> QED
  BY <1>1, <1>3

-------------------------------------------------------------------------------
(* Where the workers are.                                                  *)

LEMMA Going ==
    ASSUME Whereabouts, NEW w \in Workers, NEW l \in Places, Goto(w, l), Fits(l, req[w])
    PROVE  Whereabouts'
  BY DEF Whereabouts, Goto

LEMMA Answering ==
    ASSUME Whereabouts, NEW w \in Workers, Answer(w)
    PROVE  Whereabouts'
<1>1. Fits("idle", None)
  BY DEF Fits
<1> QED
  BY <1>1 DEF Whereabouts, Answer

LEMMA Beginning ==
    ASSUME NEW r \in Requests
    PROVE  /\ Begins[r.do] \in Places
           /\ Fits(Begins[r.do], r)
           /\ Subject(r) \subseteq Tuners \cup Outputs \cup Carriers
<1>0. r # None
  BY DeviceAssumption
<1>1. CASE r \in SetMxlTuner \cup SetDemodMxl \cup SetConfAllegro
  BY <1>0, <1>1, Fields DEF Begins, Places, Fits, Subject, Tuners
<1>2. CASE r \in DownloadFirmware \cup ConnectMxl \cup SetMxlTunerOff
  BY <1>0, <1>2, Fields DEF Begins, Places, Fits, Subject
<1>3. CASE r \in AuthorizeRFout \cup Configure \cup SetIpdestination
  BY <1>0, <1>3, Fields DEF Begins, Places, Fits, Subject
<1>4. CASE r \in SetEthernetOut \cup SetEthernetOutOff \cup GetEthernetOut
  BY <1>0, <1>4, Fields DEF Begins, Places, Fits, Subject, Outputs, OutputRequests
<1>5. CASE r \in SetCenterFrequency \cup GetCenterFrequency
  BY <1>0, <1>5, Fields DEF Begins, Places, Fits, Subject, Carriers
<1>6. CASE r \in SetIPTV
  <2>1. Subject(r) = {k \in Outputs : ChannelOf(k[2], k[3]) \in 1 .. Groups}
    BY <1>6, Fields DEF Subject
  <2> QED
    BY <1>0, <1>6, <2>1, Fields DEF Begins, Places, Fits
<1> QED
  BY <1>1, <1>2, <1>3, <1>4, <1>5, <1>6 DEF Requests

LEMMA WhereStep == ASSUME Whereabouts, [Next]_vars PROVE Whereabouts'
<1> USE DEF At
<1>1. ASSUME NEW w \in Workers, Accept(w) PROVE Whereabouts'
  <2>1. PICK r \in Requests : /\ req' = [req EXCEPT ![w] = r]
                              /\ pc' = [pc EXCEPT ![w] = Begins[r.do]]
    BY <1>1 DEF Accept
  <2> QED
    BY <2>1, Beginning DEF Whereabouts
<1>2. ASSUME NEW w \in Workers, ConnectFirst(w) PROVE Whereabouts'
  <2>1. CASE Answer(w)
    BY <2>1, Answering
  <2>2. CASE ~Answer(w)
    <3>1. /\ req[w].do # "connectMxl"
          /\ Goto(w, IF req[w].do = "setMxlTuner" THEN "download" ELSE "supply")
      BY <1>2, <2>2 DEF ConnectFirst
    <3>2. req[w] \in SetMxlTuner \cup SetConfAllegro
      BY <1>2, <3>1, Fields DEF ConnectFirst, Whereabouts, Fits
    <3>3. req[w] \in SetMxlTuner <=> req[w].do = "setMxlTuner"
      BY <3>2, Fields
    <3>4. CASE req[w].do = "setMxlTuner"
      BY <3>1, <3>2, <3>3, <3>4, Going, DeviceAssumption DEF Places, Fits, Whereabouts, Requests
    <3>5. CASE req[w].do # "setMxlTuner"
      BY <3>1, <3>2, <3>3, <3>5, Going, DeviceAssumption DEF Places, Fits, Whereabouts, Requests
    <3> QED
      BY <3>4, <3>5
  <2> QED
    BY <2>1, <2>2
<1>3. ASSUME NEW w \in Workers, Download(w) PROVE Whereabouts'
  <2>1. CASE Answer(w)
    BY <2>1, Answering
  <2>2. CASE ~Answer(w)
    <3>1. req[w].do = "setMxlTuner" /\ Goto(w, "supply")
      BY <1>3, <2>2 DEF Download
    <3>2. req[w] \in SetMxlTuner
      BY <1>3, <3>1, Fields DEF Download, Whereabouts, Fits
    <3> QED
      BY <3>1, <3>2, Going, DeviceAssumption DEF Places, Fits, Requests
  <2> QED
    BY <2>1, <2>2
<1>4. ASSUME NEW w \in Workers, Supply(w) PROVE Whereabouts'
  <2>1. CASE Answer(w)
    BY <2>1, Answering
  <2>2. CASE ~Answer(w)
    <3>1. req[w].do = "setMxlTuner" /\ Goto(w, "reconnect")
      BY <1>4, <2>2 DEF Supply
    <3>2. req[w] \in SetMxlTuner
      BY <1>4, <3>1, Fields DEF Supply, Whereabouts, Fits
    <3> QED
      BY <3>1, <3>2, Going, DeviceAssumption DEF Places, Fits, Requests
  <2> QED
    BY <2>1, <2>2
<1>5. ASSUME NEW w \in Workers, pc[w] \in {"reconnect", "tune", "row"}, Leave(w) PROVE Whereabouts'
  <2>1. CASE Answer(w)
    BY <2>1, Answering
  <2>2. CASE ~Answer(w)
    <3>1. req[w].do = "setMxlTuner" /\ Goto(w, "authorize")
      BY <1>5, <2>2 DEF Leave
    <3>2. req[w] \in SetMxlTuner
      BY <1>5, <3>1, Fields DEF Whereabouts, Fits
    <3> QED
      BY <3>1, <3>2, Going, DeviceAssumption DEF Places, Fits, Requests
  <2> QED
    BY <2>1, <2>2
<1>6. ASSUME NEW w \in Workers, NEW l \in {"tune", "row"}, pc[w] \in {"reconnect", "tune"},
             Goto(w, l)
      PROVE  Whereabouts'
  <2>1. req[w] \in SetMxlTuner \cup SetDemodMxl /\ req[w] # None
    BY <1>6, DeviceAssumption DEF Whereabouts, Fits, Requests
  <2> QED
    BY <1>6, <2>1, Going DEF Places, Fits
<1>7. ASSUME NEW w \in Workers, Reconnect(w) \/ Tune(w) \/ SaveTuner(w) PROVE Whereabouts'
  BY <1>5, <1>6, <1>7 DEF Reconnect, Tune, SaveTuner
<1>8. ASSUME NEW w \in Workers, \/ TuneOff(w) \/ Authorize(w) \/ SelectBoard(w)
                                \/ SaveOutput(w) \/ SaveFrequency(w)
      PROVE  Whereabouts'
  BY <1>8, Answering DEF TuneOff, Authorize, SelectBoard, SaveOutput, SaveFrequency
<1>9. ASSUME NEW w \in Workers, SelectFpga(w) PROVE Whereabouts'
  <2>1. CASE Answer(w)
    BY <2>1, Answering
  <2>2. CASE ~Answer(w)
    <3>1. Goto(w, IF req[w].do = "getEthernetOut" THEN "validate" ELSE "stage")
      BY <1>9, <2>2 DEF SelectFpga
    <3>2. req[w] \in OutputRequests /\ req[w] # None
      BY <1>9, DeviceAssumption DEF SelectFpga, Whereabouts, Fits, OutputRequests, Requests
    <3>3. CASE req[w].do = "getEthernetOut"
      BY <3>1, <3>2, <3>3, Going DEF Places, Fits
    <3>4. CASE req[w].do # "getEthernetOut"
      <4>1. req[w] \in SetEthernetOut \cup SetEthernetOutOff
        BY <3>2, <3>4, Fields DEF OutputRequests
      <4> QED
        BY <3>1, <3>2, <3>4, <4>1, Going DEF Places, Fits
    <3> QED
      BY <3>3, <3>4
  <2> QED
    BY <2>1, <2>2
<1>10. ASSUME NEW w \in Workers, Stage(w) PROVE Whereabouts'
  <2>1. CASE Answer(w)
    BY <2>1, Answering
  <2>2. CASE ~Answer(w)
    <3>1. req[w].do # "setIpdestination" /\ Goto(w, "validate")
      BY <1>10, <2>2 DEF Stage
    <3>2. req[w] \in SetEthernetOut \cup SetEthernetOutOff /\ req[w] # None
      BY <1>10, <3>1, Fields, DeviceAssumption DEF Stage, Whereabouts, Fits, Requests
    <3> QED
      BY <3>1, <3>2, Going DEF Places, Fits, OutputRequests
  <2> QED
    BY <2>1, <2>2
<1>11. ASSUME NEW w \in Workers, Validate(w) PROVE Whereabouts'
  <2>1. CASE Answer(w)
    BY <2>1, Answering
  <2>2. CASE ~Answer(w)
    <3>1. req[w].do # "getEthernetOut" /\ Goto(w, "save")
      BY <1>11, <2>2 DEF Validate
    <3>2. req[w] \in SetEthernetOut \cup SetEthernetOutOff /\ req[w] # None
      BY <1>11, <3>1, Fields, DeviceAssumption
         DEF Validate, Whereabouts, Fits, Requests, OutputRequests
    <3> QED
      BY <3>1, <3>2, Going DEF Places, Fits
  <2> QED
    BY <2>1, <2>2
<1>12. ASSUME NEW w \in Workers, SelectRF(w) PROVE Whereabouts'
  <2>1. CASE Answer(w)
    BY <2>1, Answering
  <2>2. CASE ~Answer(w)
    <3>1. req[w].do = "setCenterFrequency" /\ Goto(w, "carrier")
      BY <1>12, <2>2 DEF SelectRF
    <3>2. req[w] \in SetCenterFrequency /\ req[w] # None
      BY <1>12, <3>1, Fields, DeviceAssumption DEF SelectRF, Whereabouts, Fits, Requests
    <3> QED
      BY <3>1, <3>2, Going DEF Places, Fits
  <2> QED
    BY <2>1, <2>2
<1>13. ASSUME NEW w \in Workers, SetFrequency(w) PROVE Whereabouts'
  <2>1. req[w] \in SetCenterFrequency /\ req[w] # None
    BY <1>13, DeviceAssumption DEF SetFrequency, Whereabouts, Fits, Requests
  <2>2. Goto(w, "keep") \/ Answer(w)
    BY <1>13 DEF SetFrequency
  <2>3. Fits("keep", req[w])
    BY <2>1 DEF Fits
  <2> QED
    BY <2>2, <2>3, Going, Answering DEF Places
<1>16. ASSUME NEW w \in Workers, SelectIPTV(w) \/ Preset(w) PROVE Whereabouts'
  <2>1. req[w] \in SetIPTV /\ req[w] # None
    BY <1>16, DeviceAssumption DEF SelectIPTV, Preset, Whereabouts, Fits, Requests
  <2>2. Goto(w, "preset") \/ Goto(w, "inforce")
    BY <1>16 DEF SelectIPTV, Preset
  <2>3. Fits("preset", req[w]) /\ Fits("inforce", req[w])
    BY <2>1 DEF Fits
  <2> QED
    BY <2>2, <2>3, Going DEF Places
<1>17. ASSUME NEW w \in Workers, PutInForce(w) PROVE Whereabouts'
  <2>1. CASE Answer(w)
    BY <2>1, Answering
  <2>2. CASE ~Answer(w)
    <3> DEFINE n == req[w].n
               r == [req[w] EXCEPT !.n = n + 1]
    <3>1. req[w] \in SetIPTV
      BY <1>17 DEF PutInForce, Whereabouts, Fits
    <3>2. /\ n # Groups /\ pc' = [pc EXCEPT ![w] = "preset"]
          /\ req' = [req EXCEPT ![w] = r]
      BY <1>17, <2>2 DEF PutInForce
    <3>3. r \in SetIPTV
      BY <3>1, <3>2, DeviceAssumption DEF SetIPTV
    <3>4. r \in Requests /\ r # None
      BY <3>3, DeviceAssumption DEF Requests
    <3>5. Fits("preset", r)
      BY <3>3, <3>4 DEF Fits
    <3> HIDE DEF r
    <3> QED
      BY <3>2, <3>4, <3>5 DEF Whereabouts, Places
  <2> QED
    BY <2>1, <2>2
<1>14. ASSUME Restart PROVE Whereabouts'
  <2>1. Fits("idle", None)
    BY DEF Fits
  <2> QED
    BY <1>14, <2>1 DEF Restart, Whereabouts
<1>15. ASSUME UNCHANGED vars PROVE Whereabouts'
  BY <1>15 DEF vars, Whereabouts
<1> QED
  BY <1>1, <1>2, <1>3, <1>4, <1>7, <1>8, <1>9, <1>10, <1>11, <1>12, <1>13, <1>14, <1>15,
     <1>16, <1>17 DEF Next

(* What the request of a worker holds where it is.                         *)
LEMMA Carried ==
    ASSUME Whereabouts, NEW w \in Workers
    PROVE  /\ pc[w] \in {"connect", "download", "supply"} => req[w].c \in Chips
           /\ pc[w] = "connect" /\ req[w].do # "setConfAllegro" => req[w].b \in Boards
           /\ pc[w] = "download" => req[w].b \in Boards
           /\ pc[w] = "supply" => /\ req[w].lnb \in Lnbs /\ req[w].volt \in Volts
                                  /\ req[w].do = "setConfAllegro" => req[w].at \in {8, 9}
           /\ pc[w] \in {"reconnect", "tune", "row"} =>
                 /\ req[w].do \in {"setMxlTuner", "setDemodMxl"}
                 /\ req[w].b \in Boards /\ req[w].c \in Chips /\ req[w].d \in Demods
                 /\ req[w].to \in Settings
           /\ pc[w] = "authorize" => req[w].b \in Boards
           /\ pc[w] = "off" => req[w].do = "setMxlTunerOff" /\ req[w].d \in Demods
           /\ pc[w] = "board" => req[w].b \in Boards
           /\ pc[w] \in {"fpga", "validate", "save"} =>
                 /\ req[w].do \in {"setEthernetOut", "setEthernetOutOff", "getEthernetOut"}
                 /\ req[w].b \in Boards /\ req[w].n \in Numbers
           /\ pc[w] \in {"stage", "save"} /\ req[w].do # "setEthernetOutOff" =>
                 req[w].to \in Addresses
           /\ pc[w] = "stage" =>
                 \/ req[w].do = "setIpdestination"
                 \/ /\ req[w].do \in {"setEthernetOut", "setEthernetOutOff"}
                    /\ req[w].b \in Boards /\ req[w].n \in Numbers
           /\ pc[w] = "save" => req[w].do # "getEthernetOut"
           /\ pc[w] \in {"carrier", "keep"} =>
                 /\ req[w].do = "setCenterFrequency"
                 /\ req[w].b \in Boards /\ req[w].to \in Frequencies
           /\ pc[w] \in {"iptv", "preset", "inforce"} =>
                 req[w].do = "setIPTV" /\ req[w].n \in 1 .. Groups
<1> USE Fields DEF Whereabouts, Fits
<1>1. CASE pc[w] \in {"connect", "download", "supply"}
  BY <1>1
<1>2. CASE pc[w] \in {"reconnect", "tune", "row"}
  BY <1>2
<1>3. CASE pc[w] \in {"authorize", "off", "board"}
  BY <1>3
<1>4. CASE pc[w] \in {"fpga", "validate"}
  BY <1>4 DEF OutputRequests
<1>5. CASE pc[w] \in {"stage", "save"}
  BY <1>5
<1>6. CASE pc[w] \in {"carrier", "keep", "iptv", "preset", "inforce"}
  BY <1>6
<1> QED
  BY <1>1, <1>2, <1>3, <1>4, <1>5, <1>6

-------------------------------------------------------------------------------
(* The values of the devices and the tables.                               *)

LEMMA Connecting ==
    ASSUME Values, NEW t \in Nat, NEW ok, Select(t, ok) \/ Connect(t, ok)
    PROVE  target' \in Nat
  BY DEF Select, Connect, Values

LEMMA Nested ==
    ASSUME NEW A, NEW B, NEW C, NEW f \in [A -> [B -> C]], NEW a \in A, NEW b \in B, NEW c \in C
    PROVE  [f EXCEPT ![a][b] = c] \in [A -> [B -> C]]
  OBVIOUS

LEMMA ValuesStep == ASSUME Whereabouts, Values, [Next]_vars PROVE Values'
<1> USE DEF At, Devices, Tables
<1>1. ASSUME NEW w \in Workers, Accept(w) PROVE Values'
  <2>1. PICK r \in Requests : doubt' = doubt \cup Subject(r)
    BY <1>1 DEF Accept
  <2>2. doubt' \in SUBSET (Tuners \cup Outputs \cup Carriers)
    BY <2>1, Beginning DEF Values
  <2>3. count' \in 0 .. MaxRequests
    BY <1>1, DeviceAssumption DEF Accept, Values
  <2> QED
    BY <1>1, <2>2, <2>3 DEF Accept, Values
<1>2. ASSUME NEW w \in Workers, ConnectFirst(w) PROVE Values'
  <2> DEFINE t == IF req[w].do = "setConfAllegro" THEN Bus(0, req[w].c)
                                                  ELSE Bus(req[w].b - 1, req[w].c)
  <2>1. req[w].c \in Chips /\ (req[w].do # "setConfAllegro" => req[w].b \in Boards)
    BY <1>2, Carried DEF ConnectFirst
  <2>2. Bus(0, req[w].c) \in Nat
    <3>1. req[w].c + 6 \in Nat
      <4> DEFINE c == req[w].c
      <4>1. c \in 1 .. 6
        BY <2>1, DeviceAssumption
      <4> HIDE DEF c
      <4>2. c + 6 \in Nat
        BY <4>1
      <4> QED
        BY <4>2 DEF c
    <3> QED
      BY <3>1, TargetNat DEF Bus
  <2>3. t \in Nat
    BY <2>1, <2>2, Addressed
  <2>4. PICK ok \in BOOLEAN : Connect(t, ok)
    BY <1>2 DEF ConnectFirst
  <2>5. target' \in Nat
    BY <2>3, <2>4, Connecting
  <2> QED
    BY <1>2, <2>5 DEF ConnectFirst, Values
<1>3. ASSUME NEW w \in Workers, Download(w) PROVE Values'
  <2> DEFINE t == Bus(IF req[w].do = "setMxlTuner" THEN req[w].b ELSE req[w].b - 1, req[w].c)
  <2>1. t \in Nat
    BY <1>3, Carried, Addressed DEF Download
  <2>2. PICK ok \in BOOLEAN :
           /\ Connect(t, ok)
           /\ firmware' \in IF ok THEN {firmware, firmware \cup {t}} ELSE {firmware}
    BY <1>3 DEF Download
  <2>3. target' \in Nat
    BY <2>1, <2>2, Connecting
  <2>4. firmware' \in SUBSET Installed
    BY <2>2 DEF Connect, Values
  <2> QED
    BY <1>3, <2>3, <2>4 DEF Download, Values
<1>4. ASSUME NEW w \in Workers, Supply(w) PROVE Values'
  <2> DEFINE a == IF req[w].do = "setConfAllegro" THEN req[w].at ELSE Allegro(req[w].lnb)
             row == config_allegro[<<req[w].c, a>>]
             new == IF row = None THEN [h \in 1 .. 2 |-> req[w].volt]
                                  ELSE [row EXCEPT ![Half(req[w].lnb)] = req[w].volt]
  <2>1. req[w].c \in Chips /\ req[w].volt \in Volts /\ a \in {8, 9}
    BY <1>4, Carried DEF Supply, Allegro
  <2>2. row \in Voltages \cup {None}
    BY <2>1 DEF Values
  <2>3. new \in Voltages
    BY <2>1, <2>2 DEF Voltages
  <2>4. new \in Supplied
    BY <2>3 DEF Voltages, Supplied
  <2> HIDE DEF a, row, new
  <2>5. /\ supply' = supply \/ (target \in Installed
                                /\ supply' = [supply EXCEPT ![target][a] = new])
        /\ config_allegro' = [config_allegro EXCEPT ![<<req[w].c, a>>] = new]
    BY <1>4 DEF Supply, a, row, new
  <2>6. supply' \in [Installed -> [{8, 9} -> Supplied]]
    <3>1. supply \in [Installed -> [{8, 9} -> Supplied]]
      BY DEF Values
    <3>2. CASE supply' = supply
      BY <3>1, <3>2
    <3>3. CASE target \in Installed /\ supply' = [supply EXCEPT ![target][a] = new]
      BY <2>1, <2>4, <3>1, <3>3, Nested
    <3> QED
      BY <2>5, <3>2, <3>3
  <2>7. config_allegro' \in [Chips \X {8, 9} -> Voltages \cup {None}]
    BY <2>3, <2>5 DEF Values
  <2> QED
    BY <1>4, <2>6, <2>7 DEF Supply, Values
<1>5. ASSUME NEW w \in Workers, Reconnect(w) PROVE Values'
  <2>1. Bus(req[w].b - 1, req[w].c) \in Nat
    BY <1>5, Carried, Addressed DEF Reconnect
  <2>2. target' \in Nat
    BY <1>5, <2>1, Connecting DEF Reconnect
  <2> QED
    BY <1>5, <2>2 DEF Reconnect, Values
<1>6. ASSUME NEW w \in Workers, Tune(w) PROVE Values'
  <2>1. req[w].d \in Demods /\ req[w].to \in Settings
    BY <1>6, Carried DEF Tune
  <2>2. \/ /\ target \in Installed
           /\ tuned' = [tuned EXCEPT ![target][req[w].d] = req[w].to]
        \/ tuned' = tuned
    BY <1>6 DEF Tune, Values
  <2>3. tuned' \in [Installed -> [Demods -> Settings \cup {Off}]]
    <3>1. tuned \in [Installed -> [Demods -> Settings \cup {Off}]]
      BY DEF Values
    <3>2. req[w].to \in Settings \cup {Off}
      BY <2>1
    <3>3. CASE /\ target \in Installed
               /\ tuned' = [tuned EXCEPT ![target][req[w].d] = req[w].to]
      BY <2>1, <3>1, <3>2, <3>3, Nested, Zenon
    <3> QED
      BY <2>2, <3>1, <3>3
  <2>4. lost' \in SUBSET Workers
    BY <1>6 DEF Tune, Values
  <2> QED
    BY <1>6, <2>3, <2>4 DEF Tune, Values
<1>7. ASSUME NEW w \in Workers, SaveTuner(w) PROVE Values'
  <2>1. /\ <<"tuner", req[w].b, req[w].c, req[w].d>> \in Tuners /\ req[w].to \in Settings
    BY <1>7, Carried DEF SaveTuner, Tuners
  <2>2. tuner_details' \in [Tuners -> Settings \cup {None}]
    BY <1>7, <2>1 DEF SaveTuner, Values
  <2>3. doubt' \subseteq doubt
    BY <1>7 DEF SaveTuner
  <2> QED
    BY <1>7, <2>2, <2>3 DEF SaveTuner, Values
<1>8. ASSUME NEW w \in Workers, TuneOff(w) PROVE Values'
  <2>1. req[w].d \in Demods
    BY <1>8, Carried DEF TuneOff
  <2>2. \/ /\ target \in Installed
           /\ tuned' = [tuned EXCEPT ![target][req[w].d] = Off]
        \/ tuned' = tuned
    BY <1>8 DEF TuneOff, Values
  <2>3. tuned' \in [Installed -> [Demods -> Settings \cup {Off}]]
    <3>1. tuned \in [Installed -> [Demods -> Settings \cup {Off}]]
      BY DEF Values
    <3>2. Off \in Settings \cup {Off}
      BY <2>1
    <3>3. CASE /\ target \in Installed
               /\ tuned' = [tuned EXCEPT ![target][req[w].d] = Off]
      BY <2>1, <3>1, <3>2, <3>3, Nested, Zenon
    <3> QED
      BY <2>2, <3>1, <3>3
  <2> QED
    BY <1>8, <2>3 DEF TuneOff, Values
<1>9. ASSUME NEW w \in Workers, Authorize(w) PROVE Values'
  <2>1. req[w].b \in Boards
    BY <1>9, Carried DEF Authorize
  <2>2. target' \in Nat
    BY <1>9, <2>1, Addressed, Connecting DEF Authorize
  <2> QED
    BY <1>9, <2>1, <2>2 DEF Authorize, Values
<1>10. ASSUME NEW w \in Workers, SelectBoard(w) PROVE Values'
  <2>1. target' \in Nat
    <3>1. req[w].b \in Boards
      BY <1>10, Carried DEF SelectBoard
    <3>2. PICK answered \in BOOLEAN, t \in {Target(req[w].b - 1, 0), ControlFpga(req[w].b)} :
             Select(t, answered)
      BY <1>10 DEF SelectBoard
    <3>3. t \in Nat
      BY <3>1, Addressed
    <3> QED
      BY <3>2, <3>3, Connecting
  <2> QED
    BY <1>10, <2>1 DEF SelectBoard, Values
<1>11. ASSUME NEW w \in Workers, SelectFpga(w) PROVE Values'
  <2>1. target' \in Nat
    BY <1>11, Carried, Addressed, Connecting DEF SelectFpga
  <2> QED
    BY <1>11, <2>1 DEF SelectFpga, Values
<1>12. ASSUME NEW w \in Workers, Stage(w) PROVE Values'
  <2>1. (IF req[w].do = "setEthernetOutOff" THEN Off ELSE req[w].to) \in InForce
    BY <1>12, Carried DEF Stage, InForce
  <2>2. staged' \in [Fpgas -> InForce] /\ lost' \in SUBSET Workers
    BY <1>12, <2>1 DEF Stage, Values
  <2> QED
    BY <1>12, <2>2 DEF Stage, Values
<1>13. ASSUME NEW w \in Workers, Validate(w) PROVE Values'
  <2>1. ChannelOf(req[w].b, req[w].n) \in Channels
    BY <1>13, Carried, Addressed DEF Validate
  <2> DEFINE k == ChannelOf(req[w].b, req[w].n)
  <2>2. \/ /\ target \in Fpgas
           /\ output' = [output EXCEPT ![target][k] = staged[target]]
        \/ output' = output
    BY <1>13 DEF Validate
  <2> HIDE DEF k
  <2>3. target \in Fpgas => staged[target] \in InForce
    BY DEF Values
  <2>4. k \in Channels
    BY <2>1 DEF k
  <2>5. output' \in [Fpgas -> [Channels -> InForce]]
    <3>1. output \in [Fpgas -> [Channels -> InForce]]
      BY DEF Values
    <3>2. CASE /\ target \in Fpgas
               /\ output' = [output EXCEPT ![target][k] = staged[target]]
      BY <2>3, <2>4, <3>1, <3>2, Nested, Zenon
    <3> QED
      BY <2>2, <3>1, <3>2
  <2>6. lost' \in SUBSET Workers
    BY <1>13 DEF Validate, Values
  <2> QED
    BY <1>13, <2>5, <2>6 DEF Validate, Values
<1>14. ASSUME NEW w \in Workers, SaveOutput(w) PROVE Values'
  <2>1. /\ <<"output", req[w].b, req[w].n>> \in Outputs
        /\ req[w].do = "setEthernetOut" => req[w].to \in Addresses
    BY <1>14, Carried DEF SaveOutput, Outputs
  <2>2. ip_output_channels' \in [Outputs -> Addresses \cup {Off, None}]
    BY <1>14, <2>1 DEF SaveOutput, Values
  <2>3. doubt' \subseteq doubt
    BY <1>14 DEF SaveOutput
  <2> QED
    BY <1>14, <2>2, <2>3 DEF SaveOutput, Values
<1>15. ASSUME NEW w \in Workers, SelectRF(w) PROVE Values'
  <2>1. RF \in Nat
    BY TargetNat DEF RF
  <2>2. target' \in Nat
    BY <1>15, <2>1, Connecting DEF SelectRF
  <2> QED
    BY <1>15, <2>2 DEF SelectRF, Values
<1>16. ASSUME NEW w \in Workers, SetFrequency(w) PROVE Values'
  <2>1. req[w].b \in Boards /\ req[w].to \in Frequencies
    BY <1>16, Carried DEF SetFrequency
  <2>2. frequency' \in [Boards -> Frequencies \cup {Off}] /\ lost' \in SUBSET Workers
    BY <1>16, <2>1 DEF SetFrequency, Values
  <2> QED
    BY <1>16, <2>2 DEF SetFrequency, Values
<1>17. ASSUME NEW w \in Workers, SaveFrequency(w) PROVE Values'
  <2>1. <<"carrier", req[w].b>> \in Carriers /\ req[w].to \in Frequencies
    BY <1>17, Carried DEF SaveFrequency, Carriers
  <2>2. Ifrequency' \in [Carriers -> Frequencies \cup {None}]
    BY <1>17, <2>1 DEF SaveFrequency, Values
  <2>3. doubt' \subseteq doubt
    BY <1>17 DEF SaveFrequency
  <2> QED
    BY <1>17, <2>2, <2>3 DEF SaveFrequency, Values
<1>19. ASSUME NEW w \in Workers, SelectIPTV(w) PROVE Values'
  <2>1. Target(0, 0) \in Nat
    BY TargetNat
  <2>2. target' \in Nat
    BY <1>19, <2>1, Connecting DEF SelectIPTV
  <2> QED
    BY <1>19, <2>2 DEF SelectIPTV, Values
<1>20. ASSUME NEW w \in Workers, Preset(w) PROVE Values'
  <2>1. Multicast(req[w].n) \in InForce
    BY <1>20, Carried DEF Preset, InForce
  <2>2. staged' \in [Fpgas -> InForce]
    BY <1>20, <2>1 DEF Preset, Values
  <2> QED
    BY <1>20, <2>2 DEF Preset, Values
<1>21. ASSUME NEW w \in Workers, PutInForce(w) PROVE Values'
  <2> DEFINE n == req[w].n
  <2>1. n \in Channels
    BY <1>21, Carried DEF PutInForce, Channels
  <2>2. \/ /\ target \in Fpgas
           /\ output' = [output EXCEPT ![target][n] = staged[target]]
        \/ output' = output
    BY <1>21 DEF PutInForce
  <2> HIDE DEF n
  <2>3. target \in Fpgas => staged[target] \in InForce
    BY DEF Values
  <2>4. output' \in [Fpgas -> [Channels -> InForce]]
    <3>1. output \in [Fpgas -> [Channels -> InForce]]
      BY DEF Values
    <3>2. CASE /\ target \in Fpgas
               /\ output' = [output EXCEPT ![target][n] = staged[target]]
      BY <2>1, <2>3, <3>1, <3>2, Nested, Zenon
    <3> QED
      BY <2>2, <3>1, <3>2
  <2> QED
    BY <1>21, <2>4 DEF PutInForce, Values
<1>18. CASE Restart \/ UNCHANGED vars
  BY <1>18 DEF Restart, vars, Values
<1> QED
  BY <1>1, <1>2, <1>3, <1>4, <1>5, <1>6, <1>7, <1>8, <1>9, <1>10, <1>11, <1>12, <1>13, <1>14,
     <1>15, <1>16, <1>17, <1>18, <1>19, <1>20, <1>21 DEF Next

LEMMA TypesAlways == Spec => [](Whereabouts /\ Values)
<1>1. Init => Whereabouts /\ Values
  <2> SUFFICES ASSUME Init PROVE Whereabouts /\ Values
    OBVIOUS
  <2>1. Fits("idle", None)
    BY DEF Fits
  <2>2. Whereabouts
    BY <2>1 DEF Init, Whereabouts
  <2>3. supply \in [Installed -> [{8, 9} -> Supplied]]
    BY DEF Init, Supplied
  <2>4. /\ tuned \in [Installed -> [Demods -> Settings \cup {Off}]]
        /\ output \in [Fpgas -> [Channels -> InForce]]
    BY DEF Init, InForce
  <2>5. /\ count \in 0 .. MaxRequests /\ target \in Nat /\ firmware \in SUBSET Installed
        /\ rf_authorization \in SUBSET Boards /\ lost \in SUBSET Workers
        /\ doubt \in SUBSET (Tuners \cup Outputs \cup Carriers)
    BY DeviceAssumption DEF Init
  <2>6. /\ staged \in [Fpgas -> InForce]
        /\ frequency \in [Boards -> Frequencies \cup {Off}]
        /\ tuner_details \in [Tuners -> Settings \cup {None}]
        /\ config_allegro \in [Chips \X {8, 9} -> Voltages \cup {None}]
        /\ ip_output_channels \in [Outputs -> Addresses \cup {Off, None}]
        /\ Ifrequency \in [Carriers -> Frequencies \cup {None}]
    BY DEF Init, InForce
  <2> QED
    BY <2>2, <2>3, <2>4, <2>5, <2>6 DEF Values
<1>2. Whereabouts /\ Values /\ [Next]_vars => (Whereabouts /\ Values)'
  BY WhereStep, ValuesStep
<1> QED
  BY <1>1, <1>2, PTL DEF Spec

(* Every worker stays where its handler has a next step, with a request of *)
(* that handler, and every device and table holds a value of its kind:     *)
(* no handler of rest_server.cc writes a register or a row that is none.   *)
THEOREM TypeCorrect == Spec => []TypeOK
<1>1. Whereabouts /\ Values => TypeOK
  BY DEF Whereabouts, Values, TypeOK, Fits, Places
<1> QED
  BY <1>1, TypesAlways, PTL

-------------------------------------------------------------------------------
(* What the handlers do to the request of the one worker.                  *)

LEMMA Course ==
    ASSUME Whereabouts, NEW w \in Workers
    PROVE  /\ ConnectFirst(w) => pc'[w] \in {"idle", "download", "supply"}
           /\ Download(w) => pc'[w] \in {"idle", "supply"}
           /\ Supply(w) => pc'[w] \in {"idle", "reconnect"}
           /\ Reconnect(w) => pc'[w] \in {"idle", "authorize", "tune"}
           /\ Tune(w) => pc'[w] \in {"idle", "authorize", "row"}
           /\ SaveTuner(w) => pc'[w] \in {"idle", "authorize"}
           /\ TuneOff(w) \/ Authorize(w) \/ SelectBoard(w) \/ SaveOutput(w)
                 \/ SaveFrequency(w) => pc'[w] = "idle"
           /\ SelectFpga(w) => pc'[w] \in {"idle", "stage", "validate"}
           /\ Stage(w) => pc'[w] \in {"idle", "validate"}
           /\ Validate(w) => pc'[w] \in {"idle", "save"}
           /\ SelectRF(w) => pc'[w] \in {"idle", "carrier"}
           /\ SetFrequency(w) => pc'[w] \in {"idle", "keep"}
           /\ SelectIPTV(w) \/ Preset(w) \/ PutInForce(w) =>
                 pc'[w] \in {"idle", "preset", "inforce"}
<1>1. /\ \A l : Goto(w, l) => pc'[w] = l
      /\ Answer(w) => pc'[w] = "idle"
      /\ Leave(w) => pc'[w] \in {"idle", "authorize"}
  BY DEF Whereabouts, Goto, Answer, Leave
<1>2. /\ ConnectFirst(w) => pc'[w] \in {"idle", "download", "supply"}
      /\ Download(w) => pc'[w] \in {"idle", "supply"}
      /\ Supply(w) => pc'[w] \in {"idle", "reconnect"}
  BY <1>1 DEF ConnectFirst, Download, Supply
<1>3. /\ Reconnect(w) => pc'[w] \in {"idle", "authorize", "tune"}
      /\ Tune(w) => pc'[w] \in {"idle", "authorize", "row"}
      /\ SaveTuner(w) => pc'[w] \in {"idle", "authorize"}
  BY <1>1 DEF Reconnect, Tune, SaveTuner
<1>4. TuneOff(w) \/ Authorize(w) \/ SelectBoard(w) \/ SaveOutput(w) \/ SaveFrequency(w)
         => pc'[w] = "idle"
  BY <1>1 DEF TuneOff, Authorize, SelectBoard, SaveOutput, SaveFrequency
<1>5. /\ SelectFpga(w) => pc'[w] \in {"idle", "stage", "validate"}
      /\ Stage(w) => pc'[w] \in {"idle", "validate"}
      /\ Validate(w) => pc'[w] \in {"idle", "save"}
  BY <1>1 DEF SelectFpga, Stage, Validate
<1>6. /\ SelectRF(w) => pc'[w] \in {"idle", "carrier"}
      /\ SetFrequency(w) => pc'[w] \in {"idle", "keep"}
  BY <1>1 DEF SelectRF, SetFrequency
<1>7. SelectIPTV(w) \/ Preset(w) \/ PutInForce(w) => pc'[w] \in {"idle", "preset", "inforce"}
  BY <1>1 DEF SelectIPTV, Preset, PutInForce, Whereabouts
<1> QED
  BY <1>2, <1>3, <1>4, <1>5, <1>6, <1>7

(* A request that goes on is the same; setIPTV's counts its channels.      *)
LEMMA SameRequest ==
    ASSUME Whereabouts, NEW w \in Workers, pc[w] \notin {"idle", "inforce"}, pc'[w] # "idle",
           [Next]_vars, OneWorker
    PROVE  req'[w] = req[w]
<1>1. /\ Answer(w) => pc'[w] = "idle"
      /\ \A l : Goto(w, l) => req'[w] = req[w]
      /\ Leave(w) => pc'[w] = "idle" \/ req'[w] = req[w]
  BY DEF Whereabouts, Goto, Answer, Leave
<1>2. CASE ConnectFirst(w) \/ Download(w) \/ Supply(w) \/ Reconnect(w) \/ Tune(w) \/ SaveTuner(w)
  BY <1>1, <1>2 DEF ConnectFirst, Download, Supply, Reconnect, Tune, SaveTuner
<1>3. CASE TuneOff(w) \/ Authorize(w) \/ SelectBoard(w) \/ SaveOutput(w) \/ SaveFrequency(w)
  BY <1>3, Course
<1>4. CASE SelectFpga(w) \/ Stage(w) \/ Validate(w) \/ SelectRF(w) \/ SetFrequency(w)
  BY <1>1, <1>4 DEF SelectFpga, Stage, Validate, SelectRF, SetFrequency
<1>5. CASE Restart
  BY <1>5 DEF Restart
<1>6. CASE UNCHANGED vars \/ SelectIPTV(w) \/ Preset(w)
  BY <1>1, <1>6 DEF vars, SelectIPTV, Preset
<1>7. ~Accept(w) /\ ~PutInForce(w)
  BY DEF Accept, PutInForce, At
<1>8. \A v \in Workers : v = w
  BY DEF OneWorker
<1> QED
  BY <1>2, <1>3, <1>4, <1>5, <1>6, <1>7, <1>8 DEF Next

(* The rows of different tables have different names.                      *)
LEMMA KeysApart ==
    ASSUME NEW b, NEW c, NEW d, NEW n, NEW e, NEW f
    PROVE  /\ <<"tuner", b, c, d>> # <<"output", e, n>>
           /\ <<"tuner", b, c, d>> # <<"carrier", f>>
           /\ <<"output", e, n>> # <<"carrier", f>>
  OBVIOUS

-------------------------------------------------------------------------------
(* Centre frequencies.                                                     *)

(* What is known while worker w's request sets a centre frequency.         *)
CarrierAt(w) ==
    /\ pc[w] \in {"rf", "carrier", "keep"} /\ req[w].do = "setCenterFrequency"
          => <<"carrier", req[w].b>> \in doubt
    /\ pc[w] = "carrier" => target = RF
    /\ pc[w] = "keep" /\ w \notin lost => frequency[req[w].b] = req[w].to

CarrierInv == FrequenciesAsRecorded /\ \A w \in Workers : CarrierAt(w)

LEMMA CarrierStep ==
    ASSUME OneWorker, Whereabouts, Values, CarrierInv, [Next]_vars
    PROVE  CarrierInv'
<1> USE DEF At, Devices, Tables
<1>0. ASSUME UNCHANGED <<frequency, Ifrequency>>,
             \A b \in Boards : <<"carrier", b>> \in doubt => <<"carrier", b>> \in doubt',
             \A w \in Workers : pc'[w] \notin {"rf", "carrier", "keep"}
      PROVE  CarrierInv'
  BY <1>0 DEF CarrierInv, CarrierAt, FrequenciesAsRecorded
<1>1. ASSUME NEW w \in Workers, Accept(w) PROVE CarrierInv'
  <2>1. PICK r \in Requests : /\ req' = [req EXCEPT ![w] = r]
                              /\ pc' = [pc EXCEPT ![w] = Begins[r.do]]
                              /\ doubt' = doubt \cup Subject(r)
    BY <1>1 DEF Accept
  <2>2. req'[w] = r /\ pc'[w] = Begins[r.do] /\ \A v \in Workers : v = w
    BY <2>1 DEF Whereabouts, OneWorker
  <2>3. pc'[w] \notin {"carrier", "keep"}
    <3>1. CASE r \in SetMxlTuner \cup SetDemodMxl \cup SetConfAllegro \cup DownloadFirmware
      BY <2>2, <3>1, Fields DEF Begins
    <3>2. CASE r \in ConnectMxl \cup SetMxlTunerOff \cup AuthorizeRFout \cup Configure
      BY <2>2, <3>2, Fields DEF Begins
    <3>3. CASE r \in SetEthernetOut \cup SetEthernetOutOff \cup GetEthernetOut \cup SetIpdestination
      BY <2>2, <3>3, Fields DEF Begins
    <3>4. CASE r \in SetCenterFrequency \cup GetCenterFrequency \cup SetIPTV
      BY <2>2, <3>4, Fields DEF Begins
    <3> QED
      BY <3>1, <3>2, <3>3, <3>4 DEF Requests
  <2>4. r.do = "setCenterFrequency" => <<"carrier", r.b>> \in doubt'
    BY <2>1 DEF Subject
  <2>5. CarrierAt(w)'
    BY <2>2, <2>3, <2>4 DEF CarrierAt
  <2>6. FrequenciesAsRecorded'
    BY <1>1, <2>1 DEF Accept, CarrierInv, FrequenciesAsRecorded
  <2> QED
    BY <2>2, <2>5, <2>6 DEF CarrierInv
<1>2. ASSUME NEW w \in Workers, SelectRF(w) PROVE CarrierInv'
  <2>1. \A v \in Workers : v = w
    BY DEF OneWorker
  <2>2. FrequenciesAsRecorded'
    BY <1>2 DEF SelectRF, CarrierInv, FrequenciesAsRecorded
  <2>3. CASE pc'[w] = "idle"
    BY <2>1, <2>2, <2>3 DEF CarrierInv, CarrierAt
  <2>4. CASE pc'[w] = "carrier"
    <3>1. req'[w] = req[w] /\ UNCHANGED doubt
      BY <1>2, <2>4, SameRequest DEF SelectRF
    <3>2. req[w].do = "setCenterFrequency" /\ target' = RF
      BY <1>2, <2>4 DEF SelectRF, Select, Answer, Whereabouts
    <3>3. <<"carrier", req[w].b>> \in doubt
      BY <1>2, <3>2 DEF SelectRF, CarrierInv, CarrierAt
    <3> QED
      BY <2>1, <2>2, <2>4, <3>1, <3>2, <3>3 DEF CarrierInv, CarrierAt
  <2> QED
    BY <1>2, <2>3, <2>4, Course
<1>3. ASSUME NEW w \in Workers, SetFrequency(w) PROVE CarrierInv'
  <2> DEFINE r == req[w]
  <2>1. \A v \in Workers : v = w
    BY DEF OneWorker
  <2>2. /\ r.do = "setCenterFrequency" /\ r.b \in Boards
        /\ <<"carrier", r.b>> \in doubt /\ target = RF
    BY <1>3, Carried DEF SetFrequency, CarrierInv, CarrierAt
  <2>3. \/ frequency' = [frequency EXCEPT ![r.b] = r.to] /\ UNCHANGED lost
        \/ frequency' = frequency /\ w \in lost'
    BY <1>3 DEF SetFrequency
  <2>4. FrequenciesAsRecorded'
    BY <1>3, <2>2, <2>3 DEF SetFrequency, CarrierInv, FrequenciesAsRecorded, Values
  <2>5. CASE pc'[w] = "idle"
    BY <2>1, <2>4, <2>5 DEF CarrierInv, CarrierAt
  <2>6. CASE pc'[w] = "keep"
    <3>1. req'[w] = r /\ UNCHANGED doubt
      BY <1>3, <2>6, SameRequest DEF SetFrequency
    <3>2. w \notin lost' => frequency'[r.b] = r.to
      BY <2>2, <2>3 DEF Values
    <3>3. CarrierAt(w)'
      BY <2>2, <2>6, <3>1, <3>2 DEF CarrierAt
    <3> QED
      BY <2>1, <2>4, <3>3 DEF CarrierInv
  <2> QED
    BY <1>3, <2>5, <2>6, Course
<1>4. ASSUME NEW w \in Workers, SaveFrequency(w) PROVE CarrierInv'
  <2> DEFINE r == req[w]
  <2>1. \A v \in Workers : v = w
    BY DEF OneWorker
  <2>2. /\ r.b \in Boards /\ <<"carrier", r.b>> \in Carriers
        /\ w \notin lost => frequency[r.b] = r.to
    BY <1>4, Carried DEF SaveFrequency, CarrierInv, CarrierAt, Carriers
  <2>3. \A b \in Boards : <<"carrier", b>> \in Carriers
    BY DEF Carriers
  <2>4. /\ UNCHANGED frequency
        /\ \A b \in Boards : Ifrequency'[<<"carrier", b>>] =
                                IF b = r.b THEN r.to ELSE Ifrequency[<<"carrier", b>>]
        /\ doubt' = IF w \in lost THEN doubt ELSE doubt \ {<<"carrier", r.b>>}
    BY <1>4, <2>2, <2>3 DEF SaveFrequency, Values
  <2>5. <<"carrier", r.b>> \in doubt
    BY <1>4, Carried DEF SaveFrequency, CarrierInv, CarrierAt
  <2>6. FrequenciesAsRecorded'
    <3> SUFFICES ASSUME NEW b \in Boards, Ifrequency'[<<"carrier", b>>] # None,
                        <<"carrier", b>> \notin doubt'
                 PROVE  frequency'[b] = Ifrequency'[<<"carrier", b>>]
      BY DEF FrequenciesAsRecorded
    <3>1. CASE b = r.b
      BY <2>2, <2>4, <2>5, <3>1
    <3>2. CASE b # r.b
      BY <2>4, <3>2 DEF CarrierInv, FrequenciesAsRecorded
    <3> QED
      BY <3>1, <3>2
  <2> QED
    BY <1>4, <2>1, <2>6, Course DEF CarrierInv, CarrierAt
<1>5. ASSUME NEW w \in Workers, \/ ConnectFirst(w) \/ Download(w) \/ Supply(w) \/ Reconnect(w)
                                \/ Tune(w) \/ SaveTuner(w) \/ TuneOff(w) \/ Authorize(w)
                                \/ SelectBoard(w) \/ SelectFpga(w) \/ Stage(w) \/ Validate(w)
                                \/ SaveOutput(w) \/ SelectIPTV(w) \/ Preset(w)
                                \/ PutInForce(w)
      PROVE  CarrierInv'
  <2>1. pc'[w] \notin {"rf", "carrier", "keep"}
    BY <1>5, Course
  <2>2. \A v \in Workers : pc'[v] \notin {"rf", "carrier", "keep"}
    BY <2>1 DEF OneWorker
  <2>3. UNCHANGED <<frequency, Ifrequency>>
    BY <1>5 DEF ConnectFirst, Download, Supply, Reconnect, Tune, SaveTuner, TuneOff, Authorize,
                SelectBoard, SelectFpga, Stage, Validate, SaveOutput, SelectIPTV, Preset,
                PutInForce
  <2>4. CASE SaveTuner(w)
    BY <1>0, <2>2, <2>3, <2>4, KeysApart DEF SaveTuner
  <2>5. CASE SaveOutput(w)
    BY <1>0, <2>2, <2>3, <2>5, KeysApart DEF SaveOutput
  <2>6. CASE ~SaveTuner(w) /\ ~SaveOutput(w)
    <3>1. UNCHANGED doubt
      BY <1>5, <2>6 DEF ConnectFirst, Download, Supply, Reconnect, Tune, TuneOff, Authorize,
                        SelectBoard, SelectFpga, Stage, Validate, SelectIPTV, Preset,
                        PutInForce
    <3> QED
      BY <1>0, <2>2, <2>3, <3>1
  <2> QED
    BY <2>4, <2>5, <2>6
<1>6. CASE Restart
  BY <1>0, <1>6 DEF Restart
<1>7. CASE UNCHANGED vars
  BY <1>7 DEF vars, CarrierInv, CarrierAt, FrequenciesAsRecorded
<1> QED
  BY <1>1, <1>2, <1>3, <1>4, <1>5, <1>6, <1>7 DEF Next

(* callsetCenterFrequency's row says what the board's register in the RF   *)
(* output holds, unless the last request for it failed or lost its write:  *)
(* from the selection of the RF output to the row the one worker lets no   *)
(* other handler move the selection, and each board has a register.        *)
THEOREM FrequenciesStayAsRecorded == ASSUME OneWorker PROVE Spec => []FrequenciesAsRecorded
<1>1. Init => CarrierInv
  BY DEF Init, CarrierInv, CarrierAt, FrequenciesAsRecorded, Carriers
<1>2. Whereabouts /\ Values /\ CarrierInv /\ [Next]_vars => CarrierInv'
  BY CarrierStep
<1>3. CarrierInv => FrequenciesAsRecorded
  BY DEF CarrierInv
<1> QED
  BY <1>1, <1>2, <1>3, TypesAlways, PTL DEF Spec

-------------------------------------------------------------------------------
(* IP outputs.                                                             *)

OutputKey(r) == <<"output", r.b, r.n>>
Wanted(r) == IF r.do = "setEthernetOutOff" THEN Off ELSE r.to

(* What is known while worker w's request is about an output.             *)
OutputAt(w) ==
    LET r == req[w] IN
    pc[w] \in {"fpga", "stage", "validate", "save"} /\ r.do # "setIpdestination" =>
        /\ OutputKey(r) \in doubt
        /\ pc[w] \in {"stage", "validate"} => target = ControlFpga(r.b)
        /\ pc[w] = "validate" /\ r.do # "getEthernetOut" /\ w \notin lost =>
              staged[ControlFpga(r.b)] = Wanted(r)
        /\ pc[w] = "save" /\ w \notin lost =>
              output[ControlFpga(r.b)][ChannelOf(r.b, r.n)] = Wanted(r)

(* While setIPTV runs, no row of the channels it sets is relied on.        *)
GroupsAt(w) ==
    pc[w] \in {"iptv", "preset", "inforce"} =>
        \A b \in Boards, n \in Numbers :
            ChannelOf(b, n) \in 1 .. Groups => <<"output", b, n>> \in doubt

OutputInv == OutputsAsRecorded /\ \A w \in Workers : OutputAt(w) /\ GroupsAt(w)

(* A row's output is not touched by a request about another.               *)
LEMMA OthersOutputs ==
    ASSUME Values, OutputsAsRecorded, UNCHANGED <<ip_output_channels, doubt>>,
           NEW d \in Boards, NEW m \in Numbers, <<"output", d, m>> \in doubt, NEW a,
           output' = [output EXCEPT ![ControlFpga(d)][ChannelOf(d, m)] = a]
    PROVE  OutputsAsRecorded'
<1> SUFFICES ASSUME NEW b \in Boards, NEW n \in Numbers,
                    n <= 8, b % 2 = 1 \/ n + 8 \notin Numbers,
                    ip_output_channels[<<"output", b, n>>] # None,
                    <<"output", b, n>> \notin doubt
             PROVE  output'[ControlFpga(b)][ChannelOf(b, n)] =
                        ip_output_channels[<<"output", b, n>>]
  BY DEF OutputsAsRecorded
<1>1. output[ControlFpga(b)][ChannelOf(b, n)] = ip_output_channels[<<"output", b, n>>]
  BY DEF OutputsAsRecorded
<1>2. ~(ControlFpga(b) = ControlFpga(d) /\ ChannelOf(b, n) = ChannelOf(d, m))
  BY ChannelsApart
<1>3. ControlFpga(b) \in Fpgas /\ ChannelOf(b, n) \in Channels
  BY Addressed
<1>4. output \in [Fpgas -> [Channels -> InForce]]
  BY DEF Values
<1>5. output'[ControlFpga(b)][ChannelOf(b, n)] = output[ControlFpga(b)][ChannelOf(b, n)]
  BY <1>2, <1>3, <1>4
<1> QED
  BY <1>1, <1>5

LEMMA OutputStep ==
    ASSUME OneWorker, Whereabouts, Values, OutputInv, [Next]_vars
    PROVE  OutputInv'
<1> USE DEF At, Devices, Tables
<1> DEFINE Labels == {"fpga", "stage", "validate", "save", "iptv", "preset", "inforce"}
<1>0. ASSUME UNCHANGED <<output, ip_output_channels>>,
             \A b \in Boards, n \in Numbers :
                <<"output", b, n>> \in doubt => <<"output", b, n>> \in doubt'
      PROVE  OutputsAsRecorded'
  BY <1>0 DEF OutputInv, OutputsAsRecorded
<1>9. ASSUME NEW w \in Workers, OutputsAsRecorded', pc'[w] \notin Labels PROVE OutputInv'
  BY <1>9 DEF OutputInv, OutputAt, GroupsAt, OneWorker
<1>1. ASSUME NEW w \in Workers, Accept(w) PROVE OutputInv'
  <2>1. PICK r \in Requests : /\ req' = [req EXCEPT ![w] = r]
                              /\ pc' = [pc EXCEPT ![w] = Begins[r.do]]
                              /\ doubt' = doubt \cup Subject(r)
    BY <1>1 DEF Accept
  <2>2. req'[w] = r /\ pc'[w] = Begins[r.do] /\ \A v \in Workers : v = w
    BY <2>1 DEF Whereabouts, OneWorker
  <2>3. OutputsAsRecorded'
    BY <1>0, <1>1, <2>1 DEF Accept
  <2>4. CASE r \in OutputRequests
    <3>1. pc'[w] = "fpga" /\ OutputKey(r) \in doubt'
      BY <2>1, <2>2, <2>4, Fields DEF Begins, OutputRequests, Subject, OutputKey
    <3> QED
      BY <2>2, <2>3, <3>1 DEF OutputInv, OutputAt, GroupsAt
  <2>5. CASE r \in SetIpdestination
    <3>1. pc'[w] = "stage" /\ req'[w].do = "setIpdestination"
      BY <2>2, <2>5, Fields DEF Begins
    <3> QED
      BY <2>2, <2>3, <3>1 DEF OutputInv, OutputAt, GroupsAt
  <2>7. CASE r \in SetIPTV
    <3>1. pc'[w] = "iptv"
      BY <2>2, <2>7, Fields DEF Begins
    <3>2. Subject(r) = {k \in Outputs : ChannelOf(k[2], k[3]) \in 1 .. Groups}
      BY <2>7, Fields DEF Subject
    <3>3. GroupsAt(w)'
      BY <2>1, <3>2 DEF GroupsAt, Outputs
    <3> QED
      BY <2>2, <2>3, <3>1, <3>3 DEF OutputInv, OutputAt
  <2>6. CASE r \notin OutputRequests \cup SetIpdestination \cup SetIPTV
    <3>1. CASE r \in SetMxlTuner \cup SetDemodMxl \cup SetConfAllegro \cup DownloadFirmware
      BY <1>9, <2>2, <2>3, <3>1, Fields DEF Begins
    <3>2. CASE r \in ConnectMxl \cup SetMxlTunerOff \cup AuthorizeRFout \cup Configure
      BY <1>9, <2>2, <2>3, <3>2, Fields DEF Begins
    <3>3. CASE r \in SetCenterFrequency \cup GetCenterFrequency
      BY <1>9, <2>2, <2>3, <3>3, Fields DEF Begins
    <3> QED
      BY <2>6, <3>1, <3>2, <3>3 DEF Requests, OutputRequests
  <2> QED
    BY <2>4, <2>5, <2>6, <2>7
<1>2. ASSUME NEW w \in Workers, SelectFpga(w) PROVE OutputInv'
  <2>1. OutputsAsRecorded'
    BY <1>0, <1>2 DEF SelectFpga
  <2>2. CASE pc'[w] = "idle"
    BY <1>9, <2>1, <2>2
  <2>3. CASE pc'[w] \in {"stage", "validate"}
    <3>1. req'[w] = req[w] /\ UNCHANGED doubt
      BY <1>2, <2>3, SameRequest DEF SelectFpga
    <3>2. target' = ControlFpga(req[w].b)
      BY <1>2, <2>3 DEF SelectFpga, Select, Answer, Whereabouts
    <3>3. OutputKey(req[w]) \in doubt /\ req[w].do # "setIpdestination"
      BY <1>2, Carried DEF SelectFpga, OutputInv, OutputAt
    <3>4. pc'[w] = "validate" => req[w].do = "getEthernetOut"
      BY <1>2, <2>3 DEF SelectFpga, Goto, Answer, Whereabouts
    <3>5. OutputAt(w)'
      BY <2>3, <3>1, <3>2, <3>3, <3>4 DEF OutputAt
    <3> QED
      BY <2>1, <3>5, <2>3 DEF OutputInv, GroupsAt, OneWorker
  <2> QED
    BY <1>2, <2>2, <2>3, Course
<1>3. ASSUME NEW w \in Workers, Stage(w) PROVE OutputInv'
  <2> DEFINE r == req[w]
  <2>1. OutputsAsRecorded'
    BY <1>0, <1>3 DEF Stage
  <2>2. CASE pc'[w] = "idle"
    BY <1>9, <2>1, <2>2
  <2>3. CASE pc'[w] = "validate"
    <3>1. req'[w] = r /\ UNCHANGED <<doubt, target>>
      BY <1>3, <2>3, SameRequest DEF Stage
    <3>2. r.do # "setIpdestination"
      BY <1>3, <2>3 DEF Stage, Answer, Whereabouts
    <3>3. OutputKey(r) \in doubt /\ target = ControlFpga(r.b) /\ r.b \in Boards
      BY <1>3, <3>2, Carried DEF Stage, OutputInv, OutputAt
    <3>4. \/ target \in Fpgas /\ staged' = [staged EXCEPT ![target] = Wanted(r)]
          \/ w \in lost'
      BY <1>3 DEF Stage, Wanted
    <3>5. w \notin lost' => staged'[ControlFpga(r.b)] = Wanted(r)
      BY <3>3, <3>4 DEF Values
    <3>6. OutputAt(w)'
      BY <2>3, <3>1, <3>3, <3>5 DEF OutputAt
    <3> QED
      BY <2>1, <3>6, <2>3 DEF OutputInv, GroupsAt, OneWorker
  <2> QED
    BY <1>3, <2>2, <2>3, Course
<1>4. ASSUME NEW w \in Workers, Validate(w) PROVE OutputInv'
  <2> DEFINE r == req[w]
             k == ChannelOf(r.b, r.n)
  <2>1. /\ r.b \in Boards /\ r.n \in Numbers /\ r.do # "setIpdestination"
        /\ OutputKey(r) \in doubt /\ target = ControlFpga(r.b)
        /\ ControlFpga(r.b) \in Fpgas /\ k \in Channels
        /\ UNCHANGED <<doubt, ip_output_channels, staged>>
    BY <1>4, Carried, Addressed DEF Validate, OutputInv, OutputAt
  <2>2. \/ /\ output' = [output EXCEPT ![ControlFpga(r.b)][k] = staged[ControlFpga(r.b)]]
           /\ UNCHANGED lost
        \/ UNCHANGED output /\ w \in lost'
    BY <1>4, <2>1 DEF Validate
  <2>3. OutputsAsRecorded'
    BY <1>0, <2>1, <2>2, OthersOutputs DEF OutputKey, OutputInv
  <2>4. CASE pc'[w] = "idle"
    BY <1>9, <2>3, <2>4
  <2>5. CASE pc'[w] = "save"
    <3>1. req'[w] = r
      BY <1>4, <2>5, SameRequest DEF Validate
    <3>2. r.do # "getEthernetOut"
      BY <1>4, <2>5 DEF Validate, Answer, Whereabouts
    <3>3. w \notin lost => staged[ControlFpga(r.b)] = Wanted(r)
      BY <1>4, <2>1, <3>2 DEF Validate, OutputInv, OutputAt
    <3>4. output \in [Fpgas -> [Channels -> InForce]]
      BY DEF Values
    <3>5. w \notin lost' => output'[ControlFpga(r.b)][k] = staged[ControlFpga(r.b)]
      BY <2>1, <2>2, <3>4
    <3>6. w \notin lost' => output'[ControlFpga(r.b)][k] = Wanted(r)
      BY <2>2, <3>3, <3>5
    <3>7. OutputAt(w)'
      BY <2>1, <2>5, <3>1, <3>6 DEF OutputAt
    <3> QED
      BY <2>3, <3>7, <2>5 DEF OutputInv, GroupsAt, OneWorker
  <2> QED
    BY <1>4, <2>4, <2>5, Course
<1>5. ASSUME NEW w \in Workers, SaveOutput(w) PROVE OutputInv'
  <2> DEFINE r == req[w]
  <2>1. /\ r.b \in Boards /\ r.n \in Numbers
        /\ r.do \in {"setEthernetOut", "setEthernetOutOff"}
        /\ w \notin lost => output[ControlFpga(r.b)][ChannelOf(r.b, r.n)] = Wanted(r)
        /\ OutputKey(r) \in doubt
    BY <1>5, Carried DEF SaveOutput, OutputInv, OutputAt
  <2>2. \A b \in Boards, n \in Numbers : <<"output", b, n>> \in Outputs
    BY DEF Outputs
  <2>3. /\ UNCHANGED output
        /\ ip_output_channels' = [ip_output_channels EXCEPT ![OutputKey(r)] =
              IF r.do = "setEthernetOut" THEN r.to ELSE IF @ = None THEN None ELSE Off]
        /\ doubt' = IF w \in lost THEN doubt ELSE doubt \ {OutputKey(r)}
    BY <1>5 DEF SaveOutput, OutputKey
  <2>4. ip_output_channels'[OutputKey(r)] \in {Wanted(r), None}
    BY <2>1, <2>2, <2>3 DEF Values, Wanted, OutputKey
  <2>5. OutputsAsRecorded'
    <3> SUFFICES ASSUME NEW b \in Boards, NEW n \in Numbers,
                        n <= 8, b % 2 = 1 \/ n + 8 \notin Numbers,
                        ip_output_channels'[<<"output", b, n>>] # None,
                        <<"output", b, n>> \notin doubt'
                 PROVE  output'[ControlFpga(b)][ChannelOf(b, n)] =
                            ip_output_channels'[<<"output", b, n>>]
      BY DEF OutputsAsRecorded
    <3>1. CASE <<"output", b, n>> = OutputKey(r)
      <4>1. b = r.b /\ n = r.n
        BY <3>1 DEF OutputKey
      <4> QED
        BY <2>1, <2>3, <2>4, <3>1, <4>1
    <3>2. CASE <<"output", b, n>> # OutputKey(r)
      BY <2>2, <2>3, <3>2 DEF OutputInv, OutputsAsRecorded, Values
    <3> QED
      BY <3>1, <3>2
  <2> QED
    BY <1>9, <1>5, <2>5, Course
<1>6. ASSUME NEW w \in Workers, \/ ConnectFirst(w) \/ Download(w) \/ Supply(w) \/ Reconnect(w)
                                \/ Tune(w) \/ SaveTuner(w) \/ TuneOff(w) \/ Authorize(w)
                                \/ SelectBoard(w) \/ SelectRF(w) \/ SetFrequency(w)
                                \/ SaveFrequency(w)
      PROVE  OutputInv'
  <2>1. pc'[w] \notin Labels
    BY <1>6, Course
  <2>2. UNCHANGED <<output, ip_output_channels>>
    BY <1>6 DEF ConnectFirst, Download, Supply, Reconnect, Tune, SaveTuner, TuneOff, Authorize,
                SelectBoard, SelectRF, SetFrequency, SaveFrequency
  <2>3. OutputsAsRecorded'
    <3>1. CASE SaveTuner(w)
      BY <1>0, <2>2, <3>1, KeysApart DEF SaveTuner
    <3>2. CASE SaveFrequency(w)
      BY <1>0, <2>2, <3>2, KeysApart DEF SaveFrequency
    <3>3. CASE ~SaveTuner(w) /\ ~SaveFrequency(w)
      BY <1>0, <1>6, <2>2, <3>3
         DEF ConnectFirst, Download, Supply, Reconnect, Tune, TuneOff, Authorize,
             SelectBoard, SelectRF, SetFrequency
    <3> QED
      BY <3>1, <3>2, <3>3
  <2> QED
    BY <1>9, <2>1, <2>3
<1>7. CASE Restart
  <2>1. OutputsAsRecorded'
    BY <1>0, <1>7 DEF Restart
  <2> QED
    BY <1>7, <2>1 DEF Restart, OutputInv, OutputAt, GroupsAt
<1>8. CASE UNCHANGED vars
  BY <1>8 DEF vars, OutputInv, OutputAt, GroupsAt, OutputsAsRecorded
<1>10. ASSUME NEW w \in Workers, SelectIPTV(w) \/ Preset(w) \/ PutInForce(w) PROVE OutputInv'
  <2>1. /\ pc[w] \in {"iptv", "preset", "inforce"}
        /\ UNCHANGED <<ip_output_channels, doubt>>
    BY <1>10 DEF SelectIPTV, Preset, PutInForce
  <2>2. GroupsAt(w)'
    BY <2>1 DEF OutputInv, GroupsAt
  <2>3. OutputsAsRecorded'
    <3>1. CASE UNCHANGED output
      BY <1>0, <2>1, <3>1
    <3>2. CASE output' # output
      <4> DEFINE i == req[w].n
      <4>1. i \in 1 .. Groups /\ output' = [output EXCEPT ![target][i] = staged[target]]
        BY <1>10, <3>2, Carried DEF SelectIPTV, Preset, PutInForce
      <4> HIDE DEF i
      <4> SUFFICES ASSUME NEW b \in Boards, NEW n \in Numbers,
                          n <= 8, b % 2 = 1 \/ n + 8 \notin Numbers,
                          ip_output_channels[<<"output", b, n>>] # None,
                          <<"output", b, n>> \notin doubt
                   PROVE  output'[ControlFpga(b)][ChannelOf(b, n)] =
                              ip_output_channels[<<"output", b, n>>]
        BY <2>1 DEF OutputsAsRecorded
      <4>2. output[ControlFpga(b)][ChannelOf(b, n)] = ip_output_channels[<<"output", b, n>>]
        BY DEF OutputInv, OutputsAsRecorded
      <4>3. ChannelOf(b, n) # i
        BY <2>1, <4>1 DEF OutputInv, GroupsAt
      <4>4. ControlFpga(b) \in Fpgas /\ ChannelOf(b, n) \in Channels
        BY Addressed
      <4>5. output \in [Fpgas -> [Channels -> InForce]]
        BY DEF Values
      <4>6. output'[ControlFpga(b)][ChannelOf(b, n)] = output[ControlFpga(b)][ChannelOf(b, n)]
        BY <4>1, <4>3, <4>4, <4>5
      <4> QED
        BY <4>2, <4>6
    <3> QED
      BY <3>1, <3>2
  <2>4. pc'[w] \notin {"fpga", "stage", "validate", "save"}
    BY <1>10, Course
  <2> QED
    BY <2>2, <2>3, <2>4 DEF OutputInv, OutputAt, OneWorker
<1> QED
  BY <1>1, <1>2, <1>3, <1>4, <1>5, <1>6, <1>7, <1>8, <1>10 DEF Next

(* The row of setEthernetOut or setEthernetOutOff says what is in force    *)
(* for the channel, unless the last request for it failed, lost a write,   *)
(* or was getEthernetOut or setIPTV: with one worker no request comes      *)
(* between the address registers and the one that puts them in force, and  *)
(* channels of two boards with numbers up to 8 differ.                     *)
THEOREM OutputsStayAsRecorded == ASSUME OneWorker PROVE Spec => []OutputsAsRecorded
<1>1. Init => OutputInv
  BY DEF Init, OutputInv, OutputAt, GroupsAt, OutputsAsRecorded, Outputs
<1>2. Whereabouts /\ Values /\ OutputInv /\ [Next]_vars => OutputInv'
  BY OutputStep
<1>3. OutputInv => OutputsAsRecorded
  BY DEF OutputInv
<1> QED
  BY <1>1, <1>2, <1>3, TypesAlways, PTL DEF Spec

-------------------------------------------------------------------------------
(* Tuners.                                                                 *)

TunerKey(r) == <<"tuner", r.b, r.c, r.d>>
ChipOf(r) == Bus(r.b - 1, r.c)
SetsTuner(r) == r.do \in {"setMxlTuner", "setDemodMxl"}

(* What is known while worker w's request is about a tuner.                *)
TunerAt(w) ==
    LET r == req[w] IN
    /\ SetsTuner(r) /\ pc[w] \in {"connect", "download", "supply", "reconnect", "tune", "row"}
          => TunerKey(r) \in doubt
    /\ pc[w] = "tune" => target = ChipOf(r) /\ ChipOf(r) \in Installed
    /\ pc[w] = "row" /\ w \notin lost =>
          ChipOf(r) \in Installed /\ tuned[ChipOf(r)][r.d] = r.to

TunerInv == TunersAsRecorded /\ \A w \in Workers : TunerAt(w)

(* A row's tuner is not touched by a request about another.                *)
LEMMA OthersTuners ==
    ASSUME Values, TunersAsRecorded, UNCHANGED <<tuner_details, doubt>>,
           NEW x \in Boards, NEW y \in Chips, NEW z \in Demods, <<"tuner", x, y, z>> \in doubt,
           NEW a, tuned' = [tuned EXCEPT ![Bus(x - 1, y)][z] = a]
    PROVE  TunersAsRecorded'
<1> SUFFICES ASSUME NEW b \in Boards, NEW c \in Chips, NEW d \in Demods,
                    tuner_details[<<"tuner", b, c, d>>] # None,
                    <<"tuner", b, c, d>> \notin doubt
             PROVE  /\ Bus(b - 1, c) \in Installed
                    /\ tuned'[Bus(b - 1, c)][d] \in {tuner_details[<<"tuner", b, c, d>>], Off}
  BY DEF TunersAsRecorded
<1>1. /\ Bus(b - 1, c) \in Installed
      /\ tuned[Bus(b - 1, c)][d] \in {tuner_details[<<"tuner", b, c, d>>], Off}
  BY DEF TunersAsRecorded
<1>2. ~(Bus(b - 1, c) = Bus(x - 1, y) /\ d = z)
  BY BusesApart
<1>3. tuned \in [Installed -> [Demods -> Settings \cup {Off}]]
  BY DEF Values
<1>4. tuned'[Bus(b - 1, c)][d] = tuned[Bus(b - 1, c)][d]
  BY <1>1, <1>2, <1>3
<1> QED
  BY <1>1, <1>4

LEMMA TunerStep ==
    ASSUME OneWorker, Whereabouts, Values, TunerInv, [Next]_vars
    PROVE  TunerInv'
<1> USE DEF At, Devices, Tables
<1> DEFINE Labels == {"connect", "download", "supply", "reconnect", "tune", "row"}
<1>0. ASSUME UNCHANGED <<tuned, tuner_details>>,
             \A b \in Boards, c \in Chips, d \in Demods :
                <<"tuner", b, c, d>> \in doubt => <<"tuner", b, c, d>> \in doubt'
      PROVE  TunersAsRecorded'
  BY <1>0 DEF TunerInv, TunersAsRecorded
<1>9. ASSUME NEW w \in Workers, TunersAsRecorded', pc'[w] \notin Labels PROVE TunerInv'
  BY <1>9 DEF TunerInv, TunerAt, OneWorker
<1>10. ASSUME NEW w \in Workers, pc[w] \in Labels, pc'[w] \in Labels \ {"tune", "row"},
              UNCHANGED doubt, TunersAsRecorded'
       PROVE  TunerInv'
  <2>1. req'[w] = req[w]
    BY <1>10, SameRequest
  <2>2. TunerAt(w)'
    BY <1>10, <2>1 DEF TunerInv, TunerAt
  <2> QED
    BY <1>10, <2>2 DEF TunerInv, OneWorker
<1>1. ASSUME NEW w \in Workers, Accept(w) PROVE TunerInv'
  <2>1. PICK r \in Requests : /\ req' = [req EXCEPT ![w] = r]
                              /\ pc' = [pc EXCEPT ![w] = Begins[r.do]]
                              /\ doubt' = doubt \cup Subject(r)
    BY <1>1 DEF Accept
  <2>2. req'[w] = r /\ pc'[w] = Begins[r.do] /\ \A v \in Workers : v = w
    BY <2>1 DEF Whereabouts, OneWorker
  <2>3. TunersAsRecorded'
    BY <1>0, <1>1, <2>1 DEF Accept
  <2>4. pc'[w] \notin {"tune", "row"}
    <3>1. CASE r \in SetMxlTuner \cup SetDemodMxl \cup SetConfAllegro \cup DownloadFirmware
      BY <2>2, <3>1, Fields DEF Begins
    <3>2. CASE r \in ConnectMxl \cup SetMxlTunerOff \cup AuthorizeRFout \cup Configure
      BY <2>2, <3>2, Fields DEF Begins
    <3>3. CASE r \in SetEthernetOut \cup SetEthernetOutOff \cup GetEthernetOut \cup SetIpdestination
      BY <2>2, <3>3, Fields DEF Begins
    <3>4. CASE r \in SetCenterFrequency \cup GetCenterFrequency \cup SetIPTV
      BY <2>2, <3>4, Fields DEF Begins
    <3> QED
      BY <3>1, <3>2, <3>3, <3>4 DEF Requests
  <2>5. SetsTuner(r) => TunerKey(r) \in doubt'
    BY <2>1 DEF SetsTuner, TunerKey, Subject
  <2>6. TunerAt(w)'
    BY <2>2, <2>4, <2>5 DEF TunerAt
  <2> QED
    BY <2>2, <2>3, <2>6 DEF TunerInv
<1>2. ASSUME NEW w \in Workers, ConnectFirst(w) \/ Download(w) \/ Supply(w) PROVE TunerInv'
  <2>1. UNCHANGED <<tuned, tuner_details, doubt>> /\ pc[w] \in Labels
    BY <1>2 DEF ConnectFirst, Download, Supply
  <2>2. TunersAsRecorded'
    BY <1>0, <2>1
  <2>3. pc'[w] \in {"idle", "download", "supply", "reconnect"}
    BY <1>2, Course
  <2> QED
    BY <1>9, <1>10, <2>1, <2>2, <2>3
<1>3. ASSUME NEW w \in Workers, Reconnect(w) PROVE TunerInv'
  <2>1. TunersAsRecorded'
    BY <1>0, <1>3 DEF Reconnect
  <2>2. CASE pc'[w] \in {"idle", "authorize"}
    BY <1>9, <2>1, <2>2
  <2>3. CASE pc'[w] = "tune"
    <3>1. req'[w] = req[w] /\ UNCHANGED doubt
      BY <1>3, <2>3, SameRequest DEF Reconnect
    <3>2. ~Leave(w)
      BY <2>3 DEF Leave, Goto, Answer, Whereabouts
    <3>3. target' = ChipOf(req[w]) /\ ChipOf(req[w]) \in Installed
      BY <1>3, <3>2 DEF Reconnect, Connect, Select, ChipOf
    <3>4. TunerKey(req[w]) \in doubt
      BY <1>3, Carried DEF Reconnect, TunerInv, TunerAt, SetsTuner
    <3>5. TunerAt(w)'
      BY <2>3, <3>1, <3>3, <3>4 DEF TunerAt
    <3> QED
      BY <2>1, <3>5 DEF TunerInv, OneWorker
  <2> QED
    BY <1>3, <2>2, <2>3, Course
<1>4. ASSUME NEW w \in Workers, Tune(w) PROVE TunerInv'
  <2> DEFINE r == req[w]
  <2>1. /\ r.b \in Boards /\ r.c \in Chips /\ r.d \in Demods /\ TunerKey(r) \in doubt
        /\ target = ChipOf(r) /\ ChipOf(r) \in Installed
        /\ UNCHANGED <<doubt, tuner_details>>
    BY <1>4, Carried DEF Tune, TunerInv, TunerAt, SetsTuner
  <2>2. \/ tuned' = [tuned EXCEPT ![ChipOf(r)][r.d] = r.to] /\ UNCHANGED lost
        \/ UNCHANGED tuned /\ w \in lost'
    BY <1>4, <2>1 DEF Tune
  <2>3. TunersAsRecorded'
    <3>1. CASE tuned' = [tuned EXCEPT ![ChipOf(r)][r.d] = r.to]
      BY <2>1, <3>1, OthersTuners DEF TunerKey, ChipOf, TunerInv
    <3>2. CASE UNCHANGED tuned
      BY <1>0, <2>1, <3>2
    <3> QED
      BY <2>2, <3>1, <3>2
  <2>4. CASE pc'[w] \in {"idle", "authorize"}
    BY <1>9, <2>3, <2>4
  <2>5. CASE pc'[w] = "row"
    <3>1. req'[w] = r
      BY <1>4, <2>5, SameRequest DEF Tune
    <3>2. tuned \in [Installed -> [Demods -> Settings \cup {Off}]]
      BY DEF Values
    <3>3. w \notin lost' => tuned'[ChipOf(r)][r.d] = r.to
      BY <2>1, <2>2, <3>2
    <3>4. TunerAt(w)'
      BY <2>1, <2>5, <3>1, <3>3 DEF TunerAt
    <3> QED
      BY <2>3, <3>4 DEF TunerInv, OneWorker
  <2> QED
    BY <1>4, <2>4, <2>5, Course
<1>5. ASSUME NEW w \in Workers, SaveTuner(w) PROVE TunerInv'
  <2> DEFINE r == req[w]
  <2>1. /\ TunerKey(r) \in doubt /\ TunerKey(r) \in Tuners
        /\ w \notin lost => ChipOf(r) \in Installed /\ tuned[ChipOf(r)][r.d] = r.to
    BY <1>5, Carried DEF SaveTuner, TunerInv, TunerAt, SetsTuner, TunerKey, Tuners
  <2>2. \A b \in Boards, c \in Chips, d \in Demods : <<"tuner", b, c, d>> \in Tuners
    BY DEF Tuners
  <2>3. /\ UNCHANGED tuned
        /\ tuner_details' = [tuner_details EXCEPT ![TunerKey(r)] = r.to]
        /\ doubt' = IF w \in lost THEN doubt ELSE doubt \ {TunerKey(r)}
    BY <1>5 DEF SaveTuner, TunerKey
  <2>4. TunersAsRecorded'
    <3> SUFFICES ASSUME NEW b \in Boards, NEW c \in Chips, NEW d \in Demods,
                        tuner_details'[<<"tuner", b, c, d>>] # None,
                        <<"tuner", b, c, d>> \notin doubt'
                 PROVE  /\ Bus(b - 1, c) \in Installed
                        /\ tuned'[Bus(b - 1, c)][d] \in
                              {tuner_details'[<<"tuner", b, c, d>>], Off}
      BY DEF TunersAsRecorded
    <3>1. CASE <<"tuner", b, c, d>> = TunerKey(r)
      <4>1. b = r.b /\ c = r.c /\ d = r.d
        BY <3>1 DEF TunerKey
      <4>2. w \notin lost
        BY <2>1, <2>3, <3>1
      <4>3. tuner_details'[<<"tuner", b, c, d>>] = r.to
        BY <2>1, <2>3, <3>1 DEF Values
      <4> QED
        BY <2>1, <2>3, <4>1, <4>2, <4>3 DEF ChipOf
    <3>2. CASE <<"tuner", b, c, d>> # TunerKey(r)
      BY <2>2, <2>3, <3>2 DEF TunerInv, TunersAsRecorded, Values
    <3> QED
      BY <3>1, <3>2
  <2> QED
    BY <1>9, <1>5, <2>4, Course
<1>6. ASSUME NEW w \in Workers, TuneOff(w) PROVE TunerInv'
  <2>1. UNCHANGED <<tuner_details, doubt>>
    BY <1>6 DEF TuneOff
  <2>2. \/ UNCHANGED tuned
        \/ target \in Installed /\ tuned' = [tuned EXCEPT ![target][req[w].d] = Off]
    BY <1>6 DEF TuneOff, Values
  <2>3. CASE UNCHANGED tuned
    BY <1>0, <1>9, <1>6, <2>1, <2>3, Course
  <2>4. CASE target \in Installed /\ tuned' = [tuned EXCEPT ![target][req[w].d] = Off]
    <3>1. tuned \in [Installed -> [Demods -> Settings \cup {Off}]]
      BY DEF Values
    <3>2. \A t \in Installed, d \in Demods : tuned'[t][d] \in {tuned[t][d], Off}
      BY <2>4, <3>1
    <3>3. TunersAsRecorded'
      BY <2>1, <3>2 DEF TunerInv, TunersAsRecorded
    <3> QED
      BY <1>9, <1>6, <3>3, Course
  <2> QED
    BY <2>2, <2>3, <2>4
<1>7. ASSUME NEW w \in Workers, \/ Authorize(w) \/ SelectBoard(w) \/ SelectFpga(w) \/ Stage(w)
                                \/ Validate(w) \/ SaveOutput(w) \/ SelectRF(w)
                                \/ SetFrequency(w) \/ SaveFrequency(w)
                                \/ SelectIPTV(w) \/ Preset(w) \/ PutInForce(w)
      PROVE  TunerInv'
  <2>1. pc'[w] \notin Labels
    BY <1>7, Course
  <2>2. UNCHANGED <<tuned, tuner_details>>
    BY <1>7 DEF Authorize, SelectBoard, SelectFpga, Stage, Validate, SaveOutput, SelectRF,
                SetFrequency, SaveFrequency, SelectIPTV, Preset, PutInForce
  <2>3. TunersAsRecorded'
    <3>1. CASE SaveOutput(w)
      BY <1>0, <2>2, <3>1, KeysApart DEF SaveOutput
    <3>2. CASE SaveFrequency(w)
      BY <1>0, <2>2, <3>2, KeysApart DEF SaveFrequency
    <3>3. CASE ~SaveOutput(w) /\ ~SaveFrequency(w)
      BY <1>0, <1>7, <2>2, <3>3
         DEF Authorize, SelectBoard, SelectFpga, Stage, Validate, SelectRF, SetFrequency,
             SelectIPTV, Preset, PutInForce
    <3> QED
      BY <3>1, <3>2, <3>3
  <2> QED
    BY <1>9, <2>1, <2>3
<1>8. CASE Restart
  <2>1. TunersAsRecorded'
    BY <1>0, <1>8 DEF Restart
  <2> QED
    BY <1>8, <2>1 DEF Restart, TunerInv, TunerAt
<1>11. CASE UNCHANGED vars
  BY <1>11 DEF vars, TunerInv, TunerAt, TunersAsRecorded
<1> QED
  BY <1>1, <1>2, <1>3, <1>4, <1>5, <1>6, <1>7, <1>8, <1>11 DEF Next

(* The row of a tuner says what the demodulator is tuned to or that it was *)
(* turned off since: setMxlTuner connects to the next board's chip before, *)
(* but tuneMxl connects again to the chip of the request, and no other     *)
(* chip has that bus.                                                      *)
THEOREM TunersStayAsRecorded == ASSUME OneWorker PROVE Spec => []TunersAsRecorded
<1>1. Init => TunerInv
  BY DEF Init, TunerInv, TunerAt, TunersAsRecorded, Tuners
<1>2. Whereabouts /\ Values /\ TunerInv /\ [Next]_vars => TunerInv'
  BY TunerStep
<1>3. TunerInv => TunersAsRecorded
  BY DEF TunerInv
<1> QED
  BY <1>1, <1>2, <1>3, TypesAlways, PTL DEF Spec

===============================================================================
