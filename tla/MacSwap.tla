------------------------------ MODULE MacSwap ------------------------------
(***************************************************************************)
(* The in-place Ethernet header rewrite that every packet handler of the   *)
(* DPA programs performs (process_packet in flexio/*/device).  The first   *)
(* 14 bytes of a frame are seven 2-byte units: 1..3 the destination MAC,   *)
(* 4..6 the source MAC, 7 the ethertype.  The code moves them with two     *)
(* overlapping 8-byte loads and two overlapping 8-byte stores.             *)
(***************************************************************************)
EXTENDS Integers

CONSTANTS Unit,   \* values of a 2-byte unit
          IPv4    \* bytes 08 00, the ethertype the code writes

ASSUME IPv4Assumption == IPv4 \in Unit

HdrLen == 7
Hdr == [1..HdrLen -> Unit]

\* *(size_t *)(p + 2*off)
Load8(h, off) == [i \in 1..4 |-> h[off + i]]

\* *(size_t *)(p + 2*off) = v
Store8(h, off, v) ==
  [i \in 1..HdrLen |-> IF i \in (off + 1)..(off + 4) THEN v[i - off] ELSE h[i]]

\* (src_mac & 0x0000FFFFFFFFFFFF) | (0x0008ll << 48), little endian
WithEthertype(v) == [v EXCEPT ![4] = IPv4]

BugSwapMac(h) ==
  LET h1 == Store8(h, 0, Load8(h, 3))
  IN  Store8(h1, 3, WithEthertype(Load8(h1, 0)))
\* Both loads come first, then the stores at offset 0 and at offset 6 bytes.
SwapMac(h) ==
  LET src_mac == Load8(h, 0)
      dst_mac == Load8(h, 3)
  IN  Store8(Store8(h, 0, dst_mac), 3, WithEthertype(src_mac))

\* What the rewrite is for: the frame goes back to its sender, as IPv4.
Reflected(h) ==
  [i \in 1..HdrLen |-> CASE i \in 1..3 -> h[i + 3]
                         [] i \in 4..6 -> h[i - 3]
                         [] i = 7      -> IPv4]
============================================================================
