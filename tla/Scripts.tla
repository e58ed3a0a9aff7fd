------------------------------- MODULE Scripts -------------------------------
(***************************************************************************)
(* The handlers of the REST controller that make several exchanges in one  *)
(* request, or one over the register interface of the FPGA                 *)
(* (examples/rest_server.cc, src/common/udpipstack.cc), each as the        *)
(* sequence of its exchanges.  Module CompositeRequests runs them.         *)
(*                                                                         *)
(* An exchange is a datagram and the wait for one in return:               *)
(*   port    "fpga" (62000: write32bCPU and Udpipstack::callCommand) or    *)
(*           "board" (4660: Callcommand::callCommand)                      *)
(*   code    what it is sent with: command, or register of the core        *)
(*   scope   where it takes effect: "fpga"; the selected "board"; an       *)
(*           "output" of that board, which the message names; or the       *)
(*           "pair" selected there                                         *)
(*   what, arg   what it reads or writes there                             *)
(*   write   whether it writes                                             *)
(*   checks  what the handler looks at in the datagram it receives:        *)
(*           "code" (the reply is to this command and has its length),     *)
(*           "status" (byte 6 says done), "header" (any datagram of the    *)
(*           core) or "nothing"                                            *)
(*   group   the input it is about; 0 is the channel of the request        *)
(*   fails   when that check fails: "stop", "go" on without this part, or  *)
(*           "skip" what is left of its group                              *)
(***************************************************************************)
EXTENDS Naturals, Sequences, SequencesExt

CONSTANTS
    Programs,   \* the programs a board reports, a sequence
    Inputs      \* the inputs of a board, a sequence of positive numbers
                \* (one more than the code's)

Exchange(port, code, scope, what, arg) ==
    [port |-> port, code |-> code, scope |-> scope, what |-> what, arg |-> arg,
     write |-> FALSE, checks |-> "code", fails |-> "stop", group |-> 0]

Writing(e) == [e EXCEPT !.write = TRUE]
Checking(e, c) == [e EXCEPT !.checks = c]
GoingOn(e) == [e EXCEPT !.fails = "go"]

(* write32bCPU(0,0,target): any datagram in return will do.                *)
Board == Checking(Writing(Exchange("fpga", 0, "fpga", "target", 0)), "nothing")

(* callSetInputOutput: the board, then command 02.                         *)
Pair == Writing(Exchange("board", 2, "board", "pair", 0))
Channel == <<Board, Pair>>

Read(code, what) == Exchange("board", code, "pair", what, 0)
Ask(code, what, prog) == GoingOn(Exchange("board", code, "pair", what, prog))

(* A register of the DVB-CSA core of an output: callSetCore, callGetCore.  *)
Core(what, arg) == Exchange("board", 5, "output", what, arg)
KeyRegisters == <<Core("lsb", 1), Core("msb", 2), Core("key_id", 3)>>

(* A register of the IP stack: Udpipstack::callCommand.                    *)
Stack(code, what, arg) == Checking(Exchange("fpga", code, "fpga", what, arg), "header")

-------------------------------------------------------------------------------
(* tells: "parts" - the answer shows what could be read; "all" - an answer *)
(* that is not an error shows all of it.                                   *)
Handler(name, steps, tells) == [name |-> name, steps |-> steps, tells |-> tells]

(* One reading after the next; error is false when the last one succeeds.  *)
getTSDetails == Handler("getTSDetails",
    Channel \o <<GoingOn(Read(14, "ts_id")), GoingOn(Read(10, "nit_mode"))>>, "parts")
getTableDetails == Handler("getTableDetails",
    Channel \o <<GoingOn(Read(25, "versions")), GoingOn(Read(17, "intervals"))>>, "parts")
getChannelDetails == Handler("getChannelDetails",
    Channel \o <<Ask(61, "provider", 1), Ask(34, "info", 1), GoingOn(Read(36, "alarm")),
                 GoingOn(Read(31, "rates"))>>, "parts")

(* callGetProgActivation: the activated programs, the new service ids, and *)
(* two names for each program; -1 stands for what could not be read.       *)
getActivatedProgs == Handler("getActivatedProgs",
    Channel \o <<Read(40, "activated"), GoingOn(Read(24, "service_ids"))>>
            \o FlattenSeq([i \in DOMAIN Programs |->
                   <<Ask(60, "name", Programs[i]), Ask(19, "new_name", Programs[i])>>]),
    "parts")

(* For each input: select it, callGetProgramList, which selects it again,  *)
(* and three details of each program.  An input that fails is left out.    *)
OfInput(i) ==
    LET here(e) == [e EXCEPT !.group = i, !.fails = "skip"]
        detail(code, what, p) == [Ask(code, what, p) EXCEPT !.group = i]
    IN  [k \in 1 .. 5 |-> here((Channel \o Channel \o <<Read(32, "programs")>>)[k])]
        \o FlattenSeq([k \in DOMAIN Programs |->
               <<detail(60, "name", Programs[k]), detail(61, "provider", Programs[k]),
                 detail(34, "info", Programs[k])>>])
getAllInputServices == Handler("getAllInputServices",
    FlattenSeq([k \in DOMAIN Inputs |-> OfInput(Inputs[k])]), "parts")

setInputOutput == Handler("setInputOutput", Channel, "all")
getInputOutput == Handler("getInputOutput",
    <<Board, Exchange("board", 2, "board", "pair", 0)>>, "all")
getTsId == Handler("getTsId", <<Board, Read(14, "ts_id")>>, "all")
downloadTables == Handler("downloadTables",
    <<Board, Exchange("board", 85, "board", "tables", 0)>>, "all")
getAffectedOutputServices == Handler("getAffectedOutputServices",
    <<Board, Exchange("board", 29, "board", "affected", 0)>>, "all")
getFirmwareVersion == Handler("getFirmwareVersion",
    <<Board, Exchange("board", 0, "board", "firmware", 0)>>, "all")
(* The version of the hardware is taken from any reply that is long enough.*)
getHardwareVersion == Handler("getHardwareVersion",
    <<Board, Checking(Exchange("board", 1, "board", "hardware", 0), "nothing")>>, "all")
(* The POST routes have a board among their parameters and select none.    *)
getFirmwareVersions == Handler("getFirmwareVersions", Tail(getFirmwareVersion.steps), "all")
getHardwareVersions == Handler("getHardwareVersions", Tail(getHardwareVersion.steps), "all")

(* A key is in three registers.  They are read to the end and any failure  *)
(* is an error; they are written up to the first failure.                  *)
getDVBCSAKey == Handler("getDVBCSAKey",
    <<Board>> \o [i \in 1 .. 3 |-> GoingOn(KeyRegisters[i])], "all")
(* A mutation: the registers are written whatever the one before answered. *)
setDVBCSAKey_GoesOn == Handler("setDVBCSAKey",
    <<Board>> \o [i \in 1 .. 3 |-> GoingOn(Writing(KeyRegisters[i]))], "parts")
setDVBCSAKey == Handler("setDVBCSAKey",
    <<Board>> \o [i \in 1 .. 3 |-> Writing(KeyRegisters[i])], "all")

(* One register of a core, by its number: here those of the keys.          *)
setCore(k) == Handler("setCore", <<Board, Writing(KeyRegisters[k])>>, "all")

-------------------------------------------------------------------------------
(* The IP stack of the FPGA.                                               *)
MacRegisters == <<Stack(12, "mac_lsb", 1), Stack(16, "mac_msb", 2)>>
getFpgaMACAddress == Handler("getFpgaMACAddress", MacRegisters, "all")
setFpgaMACAddress == Handler("setFpgaMACAddress",
    [i \in 1 .. 2 |-> Writing(MacRegisters[i])], "all")

StackReader(name, code, what) == Handler(name, <<Stack(code, what, 1)>>, "all")
AddressWriter(name, code, what) == Handler(name, <<Writing(Stack(code, what, 1))>>, "all")
NumberWriter(name, code, what) ==
    Handler(name, <<Checking(Writing(Stack(code, what, 1)), "status")>>, "all")

getVersionofcore == StackReader("getVersionofcore", 8, "version")
getIpdestination == StackReader("getIpdestination", 24, "destination")
getSubnetmask == StackReader("getSubnetmask", 60, "mask")
getIpgateway == StackReader("getIpgateway", 38, "gateway")
getDhcpIpgateway == StackReader("getDhcpIpgateway", 40, "dhcp_gateway")
(* Decimal 44 where the command is 0x44: it reads the destination port.    *)
getDhcpSubnetmask == StackReader("getDhcpSubnetmask", 44, "destination_port")
getIpmulticast == StackReader("getIpmulticast", 29, "multicast")
getFpgaIp == StackReader("getFpgaIp", 14, "ip")
getFpgaipDhcp == StackReader("getFpgaipDhcp", 18, "dhcp_ip")
getUDPportSource == StackReader("getUDPportSource", 28, "source_port")
getUDPportDestination == StackReader("getUDPportDestination", 44, "destination_port")
getUDPChannelNumber == StackReader("getUDPChannelNumber", 48, "udp_channel")
getIGMPChannelNumber == StackReader("getIGMPChannelNumber", 32, "igmp_channel")

setSubnetmask == AddressWriter("setSubnetmask", 60, "mask")
setIpgateway == AddressWriter("setIpgateway", 38, "gateway")
setIpmulticast == AddressWriter("setIpmulticast", 29, "multicast")
setFpgaipDhcp == AddressWriter("setFpgaipDhcp", 18, "dhcp_ip")
setUDPportSource == NumberWriter("setUDPportSource", 28, "source_port")
setUDPportDestination == NumberWriter("setUDPportDestination", 44, "destination_port")
setUDPChannelNumber == NumberWriter("setUDPChannelNumber", 48, "udp_channel")
setIGMPChannelNumber == NumberWriter("setIGMPChannelNumber", 32, "igmp_channel")

Catalogue ==
    {getTSDetails, getTableDetails, getChannelDetails, getActivatedProgs,
     getAllInputServices, setInputOutput, getInputOutput, getTsId, downloadTables,
     getAffectedOutputServices, getFirmwareVersion, getFirmwareVersions,
     getHardwareVersion, getHardwareVersions, getDVBCSAKey, setDVBCSAKey,
     setCore(1), setCore(2), setCore(3),
     getFpgaMACAddress, setFpgaMACAddress, getVersionofcore, getIpdestination,
     getSubnetmask, getIpgateway, getDhcpIpgateway, getDhcpSubnetmask, getIpmulticast,
     getFpgaIp, getFpgaipDhcp, getUDPportSource, getUDPportDestination,
     getUDPChannelNumber, getIGMPChannelNumber, setSubnetmask, setIpgateway,
     setIpmulticast, setFpgaipDhcp, setUDPportSource, setUDPportDestination,
     setUDPChannelNumber, setIGMPChannelNumber}
===============================================================================
