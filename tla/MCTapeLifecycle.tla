-------------------------- MODULE MCTapeLifecycle ---------------------------
(***************************************************************************)
(* Instances of TapeLifecycle for TLC: configurations that are invalid in  *)
(* every way, that fill the ring's last byte, and that overflow.           *)
(***************************************************************************)
EXTENDS TapeLifecycle

SmallConfigs ==
  [payload_size : {0, 1, 3, SizeMax}, capacity : {0, 1, 2, 7, 8}, alignment : {1, 2, 3, 4}]
=============================================================================
