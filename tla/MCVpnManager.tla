---------------------------- MODULE MCVpnManager ----------------------------
(* Model checking of VpnManager: a profile that is saved or replaced by     *)
(* "disabled", and another one that is only tested.                         *)
EXTENDS VpnManager

MCProfiles == {"home", "work"}
MCSavable == {"home", NoVpn}
MCTestable == {"work"}
=============================================================================
