---------------------------- MODULE MCSoloMining ----------------------------
(* The instance of SoloMining: no two blocks have successive timestamps. *)
EXTENDS SoloMining

MCTime(b) == 10 * b
=============================================================================
