----------------------------- MODULE RmxHandlers -----------------------------
(***************************************************************************)
(* The catalogue of the configuration handlers of the REST controller      *)
(* (examples/rest_server.cc).  All of them run the same conversation with  *)
(* the FPGA, which module RmxControl specifies: select a board with        *)
(* write32bCPU, possibly select an input/output pair with command 02, send *)
(* one command, check its reply; a writer then saves a row with a          *)
(* dbHandler::addX call, a reader answers what the reply says.             *)
(* A handler is the record of the choices its code makes:                  *)
(*                                                                         *)
(*   cmd     the command code passed to Callcommand::callCommand           *)
(*   select  "channel"  callSetInputOutput (board and input/output pair)   *)
(*           "board"    write32bCPU only                                   *)
(*           "none"     nothing is selected                                *)
(*   scope   what the command changes or reads on the board:               *)
(*           "in"   the setting of the input that is selected there        *)
(*           "out"  the setting of the output that is selected there       *)
(*           "pair" what belongs to the pair that is selected there        *)
(*           "arg"  the setting its own arguments name (a board-wide       *)
(*                  setting, a register, a table, a program number)        *)
(*   saves   whether a success is saved with a dbHandler::addX call        *)
(*   reads   whether the command only reads                                *)
(***************************************************************************)
EXTENDS Naturals

Writer(name, cmd, select, scope) ==
    [name |-> name, cmd |-> cmd, select |-> select, scope |-> scope,
     saves |-> TRUE, reads |-> FALSE]

Reader(name, cmd, select, scope) ==
    [name |-> name, cmd |-> cmd, select |-> select, scope |-> scope,
     saves |-> FALSE, reads |-> TRUE]

(* Inputs: callSetInputOutput(input,"0",rmx_no), then the command.          *)
setInputMode == Writer("setInputMode", 4, "channel", "in")

(* Outputs: callSetInputOutput("0",output,rmx_no), then the command.        *)
setNITmode == Writer("setNITmode", 10, "channel", "out")
setTsId == Writer("setTsId", 14, "channel", "out")
setPsiSiInterval == Writer("setPsiSiInterval", 17, "channel", "out")
setNetworkName == Writer("setNetworkName", 18, "channel", "out")
setTablesVersion == Writer("setTablesVersion", 25, "channel", "out")

(* The message of command 16 carries rate, falling and mode but no output: *)
(* the board applies it to the output selected by an earlier request, and  *)
(* the row is saved under the output of this one.                          *)
setDvbSpiOutputMode == Writer("setDvbSpiOutputMode", 16, "board", "out")

(* Board-wide settings and settings addressed by the command itself.       *)
setLcnProvider == Writer("setLcnProvider", 27, "board", "arg")
setCreateAlarmFlags == Writer("setCreateAlarmFlags", 15, "board", "arg")
setTableTimeout == Writer("setTableTimeout", 13, "board", "arg")
setCore == Writer("setCore", 5, "board", "arg")

(* Registers of the cores: callSetCore with the chip select of the output, *)
(* an address and packed fields.                                           *)
setQAM == Writer("setQAM", 5, "board", "arg")
setSPIConfigReg == Writer("setSPIConfigReg", 5, "board", "arg")
setStatusReg == Writer("setStatusReg", 5, "board", "arg")
setFSymbolRate == Writer("setFSymbolRate", 5, "board", "arg")
setFDAC == Writer("setFDAC", 5, "board", "arg")
confGain == Writer("confGain", 5, "board", "arg")
setDVBCSACoreControlReg == Writer("setDVBCSACoreControlReg", 5, "board", "arg")

(* Program names and numbers: the pair is selected, the program number in  *)
(* the message says what is renamed, and the row has no input column.      *)
setServiceID == Writer("setServiceID", 24, "channel", "arg")
setServiceName == Writer("setServiceName", 19, "channel", "arg")
setNewProvName == Writer("setNewProvName", 26, "channel", "arg")

(* The only writer that selects nothing: it has no rmx_no parameter, and   *)
(* its command goes to whichever board the last request selected.          *)
setListofServiceID ==
    [Writer("setListofServiceID", 24, "none", "arg") EXCEPT !.saves = FALSE]

(* Readers of the pair they select (the POST routes).                      *)
getInputModes == Reader("getInputModes", 4, "channel", "pair")
getLcn == Reader("getLcn", 11, "channel", "pair")
getDvbSpiOutputModes == Reader("getDvbSpiOutputModes", 16, "channel", "pair")
getNetworkname == Reader("getNetworkname", 18, "channel", "pair")
getServicename == Reader("getServicename", 19, "channel", "pair")
getDynamicStateWinsize == Reader("getDynamicStateWinsize", 21, "channel", "pair")
getFilterCAS == Reader("getFilterCAS", 23, "channel", "pair")
getServiceIDs == Reader("getServiceIDs", 24, "channel", "pair")
getSmoothFilterinfo == Reader("getSmoothFilterinfo", 30, "channel", "pair")
getDataFlowRates == Reader("getDataFlowRates", 31, "channel", "pair")
getCryptedPrograms == Reader("getCryptedPrograms", 33, "channel", "pair")
getProgramInfo == Reader("getProgramInfo", 34, "channel", "pair")
getAllReferencedPidInfo == Reader("getAllReferencedPidInfo", 35, "channel", "pair")
getEraseCAmod == Reader("getEraseCAmod", 37, "channel", "pair")
getLockedPids == Reader("getLockedPids", 41, "channel", "pair")
getHighPriorityService == Reader("getHighPriorityService", 42, "channel", "pair")
getPSISIDecodingStatus == Reader("getPSISIDecodingStatus", 53, "channel", "pair")
getTsFeatures == Reader("getTsFeatures", 54, "channel", "pair")
getProgramOriginalProvidername == Reader("getProgramOriginalProvidername", 61, "channel", "pair")

(* Readers of an input, and of an output.                                  *)
getPMTAlarm == Reader("getPMTAlarm", 36, "channel", "in")
getNewProviderName == Reader("getNewProviderName", 26, "channel", "in")
getProgramOriginalname == Reader("getProgramOriginalname", 60, "channel", "in")
getProgramOriginalNetworkname == Reader("getProgramOriginalNetworkname", 62, "channel", "in")

getNITmodes == Reader("getNITmodes", 10, "channel", "out")
getPsiSiIntervals == Reader("getPsiSiIntervals", 17, "channel", "out")
getTablesVersions == Reader("getTablesVersions", 25, "channel", "out")

(* Readers that select the board only: board-wide values, then registers.  *)
getCore == Reader("getCore", 5, "board", "arg")
getGPIO == Reader("getGPIO", 6, "board", "arg")
getLcnProvider == Reader("getLcnProvider", 27, "board", "arg")

getQAM == Reader("getQAM", 5, "board", "arg")
getDVBCCoreVersion == Reader("getDVBCCoreVersion", 5, "board", "arg")
getSPIStatusReg == Reader("getSPIStatusReg", 5, "board", "arg")
getSPIConfigReg == Reader("getSPIConfigReg", 5, "board", "arg")
getUpsamplerCoreVersion == Reader("getUpsamplerCoreVersion", 5, "board", "arg")
getStatusReg == Reader("getStatusReg", 5, "board", "arg")
getFSymbolRate == Reader("getFSymbolRate", 5, "board", "arg")
getFDAC == Reader("getFDAC", 5, "board", "arg")
getGain == Reader("getGain", 5, "board", "arg")
getDVBCSAVersion == Reader("getDVBCSAVersion", 5, "board", "arg")
getDVBCSACoreControlReg == Reader("getDVBCSACoreControlReg", 5, "board", "arg")

(* The POST route has an rmx_no, but its selection is commented out.       *)
getLcnProviders == Reader("getLcnProviders", 27, "none", "arg")

(* The GET routes: rmx_no is all they have.  They select the board and     *)
(* read the input, output or pair that some earlier request selected.      *)
getInputMode == Reader("getInputMode", 4, "board", "pair")
getNITmode == Reader("getNITmode", 10, "board", "out")
getLCN == Reader("getLCN", 11, "board", "pair")
getHostNIT == Reader("getHostNIT", 12, "board", "pair")
getTsId == Reader("getTsId", 14, "board", "pair")
getDvbSpiOutputMode == Reader("getDvbSpiOutputMode", 16, "board", "pair")
getPsiSiInterval == Reader("getPsiSiInterval", 17, "board", "out")
getNetworkName == Reader("getNetworkName", 18, "board", "pair")
getServiceName == Reader("getServiceName", 19, "board", "pair")
getDynamicStateWinSize == Reader("getDynamicStateWinSize", 21, "board", "pair")
getFilterCA == Reader("getFilterCA", 23, "board", "pair")
getServiceID == Reader("getServiceID", 24, "board", "pair")
getTablesVersion == Reader("getTablesVersion", 25, "board", "out")
getSmoothFilterInfo == Reader("getSmoothFilterInfo", 30, "board", "pair")
getDataflowRates == Reader("getDataflowRates", 31, "board", "pair")
getCryptedProg == Reader("getCryptedProg", 33, "board", "pair")
getPrograminfo == Reader("getPrograminfo", 34, "board", "pair")
getAllReferencedPIDInfo == Reader("getAllReferencedPIDInfo", 35, "board", "pair")
getPmtAlarm == Reader("getPmtAlarm", 36, "board", "in")
getEraseCAMod == Reader("getEraseCAMod", 37, "board", "pair")
getStatPID == Reader("getStatPID", 39, "board", "pair")
getLockedPIDs == Reader("getLockedPIDs", 41, "board", "pair")
getHighPriorityServices == Reader("getHighPriorityServices", 42, "board", "pair")
getPsiSiDecodingStatus == Reader("getPsiSiDecodingStatus", 53, "board", "pair")
getTSFeatures == Reader("getTSFeatures", 54, "board", "pair")
getProgramOriginalName == Reader("getProgramOriginalName", 60, "board", "in")
getProgramOriginalProviderName == Reader("getProgramOriginalProviderName", 61, "board", "pair")
getProgramOriginalNetworkName == Reader("getProgramOriginalNetworkName", 62, "board", "in")
getNewProvName == Reader("getNewProvName", 26, "board", "in")

Writers ==
    {setInputMode, setNITmode, setTsId, setPsiSiInterval,
     setNetworkName, setTablesVersion, setDvbSpiOutputMode,
     setLcnProvider, setCreateAlarmFlags, setTableTimeout, setCore,
     setQAM, setSPIConfigReg, setStatusReg, setFSymbolRate, setFDAC,
     confGain, setDVBCSACoreControlReg, setServiceID, setServiceName,
     setNewProvName, setListofServiceID}

Readers ==
    {getInputModes, getLcn, getDvbSpiOutputModes, getNetworkname,
     getServicename, getDynamicStateWinsize, getFilterCAS,
     getServiceIDs, getSmoothFilterinfo, getDataFlowRates,
     getCryptedPrograms, getProgramInfo, getAllReferencedPidInfo,
     getEraseCAmod, getLockedPids, getHighPriorityService,
     getPSISIDecodingStatus, getTsFeatures,
     getProgramOriginalProvidername, getPMTAlarm, getNewProviderName,
     getProgramOriginalname, getProgramOriginalNetworkname,
     getNITmodes, getPsiSiIntervals, getTablesVersions, getCore,
     getGPIO, getLcnProvider, getQAM, getDVBCCoreVersion,
     getSPIStatusReg, getSPIConfigReg, getUpsamplerCoreVersion,
     getStatusReg, getFSymbolRate, getFDAC, getGain, getDVBCSAVersion,
     getDVBCSACoreControlReg, getLcnProviders}

Monitors ==
    {getInputMode, getNITmode, getLCN, getHostNIT, getTsId,
     getDvbSpiOutputMode, getPsiSiInterval, getNetworkName,
     getServiceName, getDynamicStateWinSize, getFilterCA, getServiceID,
     getTablesVersion, getSmoothFilterInfo, getDataflowRates,
     getCryptedProg, getPrograminfo, getAllReferencedPIDInfo,
     getPmtAlarm, getEraseCAMod, getStatPID, getLockedPIDs,
     getHighPriorityServices, getPsiSiDecodingStatus, getTSFeatures,
     getProgramOriginalName, getProgramOriginalProviderName,
     getProgramOriginalNetworkName, getNewProvName}

Catalogue == Writers \cup Readers \cup Monitors

(* The handlers whose command can only touch the setting it is meant for:  *)
(* what the board's selection decides has been selected by the request.    *)
SelectsWhatItSets(h) ==
    /\ h.select # "none"
    /\ h.scope \in {"in", "out", "pair"} => h.select = "channel"
==============================================================================
