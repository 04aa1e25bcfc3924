---------------------------- MODULE MCTracedRng ----------------------------
(* TracedRng with two-valued bytes: u32 and u64 keep their 4 and 8 bytes,  *)
(* so a wrong byte order or a wrong data_idx step changes what is read.    *)
EXTENDS TracedRng

=============================================================================
