---------------------------- MODULE MCRmxControl ----------------------------
(* Instances of RmxControl for TLC.                                        *)
EXTENDS RmxControl

CONSTANTS b1, b2

MCBoards == {b1, b2}
MCPorts == {0, 1}
ScopedHandlers == {setInputMode, setTsId, setLcnProvider, getInputModes}
TwoCommands == {setLcnProvider, setTsId}
OneHandler == {setInputMode}
=============================================================================
