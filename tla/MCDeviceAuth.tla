---------------------------- MODULE MCDeviceAuth ----------------------------
(* DeviceAuth on a small instance: requests of a kind are interchangeable. *)
EXTENDS DeviceAuth, TLC

Symm == Permutations(Polls) \cup Permutations(Refreshes) \cup Permutations(Pages)
=============================================================================
