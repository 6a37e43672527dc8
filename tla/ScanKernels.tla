----------------------------- MODULE ScanKernels -----------------------------
(***************************************************************************)
(* The kernels of SIMD512.cpp that the scan benchmark calls, and the       *)
(* scalar scan of ScalarScan.hpp.  A kernel works block by block: it       *)
(* compares a register of bytes at once, which gives a mask, and then      *)
(* writes what the mask selects, a few lanes at a time.                    *)
(***************************************************************************)
EXTENDS Integers, Sequences, FiniteSets, SequencesExt

CONSTANTS
  Block,    (* bytes in a register: 64                                     *)
  Lanes,    (* 64-bit results in a register: 8                             *)
  Period    (* values of a byte: 256, also the size of the dictionary      *)

KernelAssumption ==
  /\ {Block, Lanes, Period} \subseteq Nat \ {0}
  /\ Block % Lanes = 0

First(n) == [k \in 1 .. n |-> k - 1]
Blocks(input) == First(Len(input) \div Block)
Byte(input, i, k) == input[i * Block + k + 1]

(* The bits of the mask for block i. *)
Mask(input, i, low, high) == {k \in 0 .. Block - 1 : Byte(input, i, k) \in low .. high}

(* Compress: what the selected lanes hold, next to each other. *)
Compressed(lanes) ==
  LET selected == SelectSeq(First(Block), LAMBDA k : k \in DOMAIN lanes)
  IN [n \in DOMAIN selected |-> lanes[selected[n]]]

count(input, low, high) ==
  FoldLeft(LAMBDA matches, i : matches + Cardinality(Mask(input, i, low, high)), 0, Blocks(input))

bitvector_scan(input, low, high) ==
  [i \in 1 .. Len(input) \div Block |-> Mask(input, i - 1, low, high)]

scalar_implicit_index_scan(input, low, high) ==
  SelectSeq(First(Len(input)), LAMBDA i : input[i + 1] \in low .. high)

(* A block may fill a register with every result.  The vector has room for  *)
(* one more block, or it grows.                                             *)
Grown(size, results) == IF Len(results) + Block > size THEN (Block + size) * 3 ELSE size

(* Part j of the mask, with the row numbers off, off + 1, ... in the lanes. *)
IndexPart(scan, mask, j) ==
  [off |-> scan.off + Lanes, size |-> scan.size,
   results |-> scan.results \o
     Compressed([k \in {l \in 0 .. Lanes - 1 : j * Lanes + l \in mask} |-> scan.off + k])]

IndexBlock(scan, mask) ==
  LET grown == [scan EXCEPT !.size = Grown(@, scan.results)] IN
  IF mask = {} THEN [grown EXCEPT !.off = @ + Block]
  ELSE FoldLeft(LAMBDA s, j : IndexPart(s, mask, j), grown, First(Block \div Lanes))

(* The results, and the size of the vector before it is cut. *)
implicit_index_scan_self_alloc(input, low, high, size) ==
  FoldLeft(LAMBDA scan, i : IndexBlock(scan, Mask(input, i, low, high)),
           [off |-> 0, size |-> size, results |-> << >>], Blocks(input))

(* find_if in the dictionary. *)
FindFrom(from, hits) ==
  CHOOSE p \in from .. Period : p \in hits \cup {Period} /\ \A q \in from .. p - 1 : q \notin hits

(* The predicate as positions in the sorted dictionary, in 8 bits.          *)
low_pointer(dict, low) == FindFrom(0, {p \in DOMAIN dict : dict[p] >= low})
high_pointer(dict, low, high) ==
  FindFrom(low_pointer(dict, low), {p \in DOMAIN dict : dict[p] > high}) - 1

(* The values of the selected bytes in the dictionary. *)
dict_scan_8bit_64bit_scalar_gather_scatter(input, dict, low, high, size) ==
  LET from == low_pointer(dict, low) % Period
      upto == high_pointer(dict, low, high) % Period
      DictBlock(scan, i) ==
        [size |-> Grown(scan.size, scan.results),
         results |-> scan.results \o
           Compressed([k \in Mask(input, i, from, upto) |-> dict[Byte(input, i, k)]])]
  IN FoldLeft(DictBlock, [size |-> size, results |-> << >>], Blocks(input))

(* The same with the loop over the selected bytes unrolled by eight. *)
dict_scan_8bit_64bit_scalar_unroll(input, dict, low, high, size) ==
  dict_scan_8bit_64bit_scalar_gather_scatter(input, dict, low, high, size)
=============================================================================
