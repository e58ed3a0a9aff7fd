------------------------- MODULE MCCompositeRequests -------------------------
(* Instances of CompositeRequests for TLC.                                 *)
EXTENDS CompositeRequests

OneProgram == <<1>>
TwoInputs == <<1, 2>>
(* One handler of each shape: the others differ from one of these in the   *)
(* register.                                                               *)
EachShape == Catalogue \
    {getTableDetails, getVersionofcore, getIpdestination, getIpgateway, getDhcpIpgateway,
     getIpmulticast, getFpgaIp, getFpgaipDhcp, getUDPportSource, getIGMPChannelNumber,
     setIpgateway, setIpmulticast, setFpgaipDhcp, setUDPportSource, setIGMPChannelNumber,
     setCore(2), setCore(3), downloadTables, getFirmwareVersion}

(* The second has a first number that no row (RowMax stands for 2^31 - 1)  *)
(* and no port can hold.                                                   *)
TwoSettings == {<<5, 3, 1>>, <<65541, 4, 2>>}

(* The readers of the catalogue; the setters are in order by SettersInOrder*)
(* of CompositeRequests_proofs.                                            *)
ASSUME ReadersInOrder == \A h \in Catalogue : PartsWritten(h) = {} => InOrder(h)
==============================================================================
