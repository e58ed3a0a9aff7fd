-------------------------- MODULE MCDeviceControl --------------------------
(* Instances of DeviceControl for TLC.                                     *)
EXTENDS DeviceControl

(* Chip 1 of the boards 1 and 2; board code 2 has none.                    *)
TwoChips == {Bus(0, 1), Bus(1, 1)}
=============================================================================
