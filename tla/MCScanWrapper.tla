---------------------------- MODULE MCScanWrapper ----------------------------
(* One quarter, one half and one whole of the values' period per thread, as *)
(* 64, 128 and 256 entries are of the 256 values in the code: the slices of *)
(* a thread differ from rerun to rerun in the first, and blocks match in    *)
(* full, in part and not at all.                                            *)
EXTENDS ScanWrapper

MCEntries == {4, 8, 16}
MCHighs == {0, 2, 5, 11, 15}

(* --join without pre-allocation, on one NUMA node and on two; scans into   *)
(* pre-allocated vectors without --join; and the enclave, preloaded and     *)
(* not, where --join does nothing.                                          *)
MCConfigs ==
  [enclave : {FALSE}, mode : {"noIndex", "dict"}, pre_alloc : {FALSE},
   include_join : {TRUE}, NUMA : BOOLEAN]
  \cup [enclave : {FALSE}, mode : {"noIndex", "scalar", "bitvector"}, pre_alloc : {TRUE},
        include_join : {FALSE}, NUMA : {FALSE}]
  \cup [enclave : {TRUE}, mode : {"noIndex", "dict"}, pre_alloc : BOOLEAN,
        include_join : {TRUE}, NUMA : {FALSE}]
=============================================================================
