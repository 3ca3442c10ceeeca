-------------------------- MODULE MCChannelSwitch --------------------------
(* Bounds for ChannelSwitch.tla: two channels with two tracks each.        *)
EXTENDS ChannelSwitch, TLC

AnySetup == {"ACTIVE", "MP2ENABLE"}
=============================================================================
