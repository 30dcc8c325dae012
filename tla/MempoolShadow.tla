---------------------------- MODULE MempoolShadow ----------------------------
(***************************************************************************)
(* dpdk_mempool_shadow: one DOCA mapping for each memory chunk of a DPDK   *)
(* pool, or of external memory, and the search for the mapping that holds  *)
(* a packet.  Addresses and sizes are counted modulo AddrMod.              *)
(***************************************************************************)
EXTENDS Integers, Sequences, Functions

CONSTANTS AddrMod,       \* 2^64: addresses and sizes are size_t
          Chunks         \* sequences of <<begin, length>> a pool may consist of
ASSUME AddrModAssumption == AddrMod \in Nat
ASSUME ChunksAssumption ==
  \A cs \in Chunks : /\ cs \in Seq((0..AddrMod) \X (0..AddrMod))
                     /\ \A i \in DOMAIN cs : cs[i][1] + cs[i][2] < AddrMod

VARIABLES
  shadow     \* chunks, ext (external memory), next chunk, mmap_arr, live (mappings that
             \* exist), ret ("no", "shadow" or "NULL")
svars == <<shadow>>

ShInit ==
  \E cs \in Chunks, e \in BOOLEAN :
    shadow = [chunks |-> cs, ext |-> e, next |-> 1, mmap_arr |-> <<>>, live |-> {}, ret |-> "no"]

\* create, set_memrange, add_dev, start: the mapping is destroyed when one fails.
Mapped(s) == [s EXCEPT !.mmap_arr = Append(@, s.next), !.live = @ \cup {s.next}, !.next = @ + 1]
dpdk_mempool_shadow_destroy(s) == [s EXCEPT !.live = @ \ Range(s.mmap_arr), !.ret = "NULL"]

\* rte_mempool_mem_iter goes on after a chunk that failed.
dpdk_chunk_to_mmap_cb ==
  /\ ~shadow.ext /\ shadow.ret = "no" /\ shadow.next <= Len(shadow.chunks)
  /\ shadow' \in {Mapped(shadow), [shadow EXCEPT !.next = @ + 1]}
dpdk_ext_chunk_to_mmap ==
  /\ shadow.ext /\ shadow.ret = "no" /\ shadow.next <= Len(shadow.chunks)
  /\ shadow' \in {Mapped(shadow), dpdk_mempool_shadow_destroy(shadow)}

\* zmalloc of the shadow or of the array fails
NoMemory ==
  /\ shadow.ret = "no" /\ shadow.next = 1
  /\ shadow' = [shadow EXCEPT !.ret = "NULL"]
dpdk_mempool_shadow_create ==
  /\ shadow.ret = "no" /\ shadow.next > Len(shadow.chunks) /\ ~shadow.ext
  /\ shadow' = IF Len(shadow.mmap_arr) # Len(shadow.chunks) THEN dpdk_mempool_shadow_destroy(shadow)
               ELSE [shadow EXCEPT !.ret = "shadow"]
dpdk_mempool_shadow_create_extbuf ==
  /\ shadow.ret = "no" /\ shadow.next > Len(shadow.chunks) /\ shadow.ext
  /\ shadow' = [shadow EXCEPT !.ret = "shadow"]
ShDestroy ==
  /\ shadow.ret = "shadow"
  /\ shadow' = dpdk_mempool_shadow_destroy(shadow)
ShNext ==
  \/ dpdk_chunk_to_mmap_cb \/ dpdk_ext_chunk_to_mmap \/ NoMemory
  \/ dpdk_mempool_shadow_create \/ dpdk_mempool_shadow_create_extbuf \/ ShDestroy
ShSpec == ShInit /\ [][ShNext]_svars

\* Arithmetic is modulo AddrMod.
BugInMmap(c, start, size) ==
  c[1] <= start /\ (start + size) % AddrMod <= (c[1] + c[2]) % AddrMod
InMmap(c, start, size) ==
  LET stop == (c[1] + c[2]) % AddrMod IN
    c[1] <= start /\ start < stop /\ size <= (stop - start) % AddrMod
\* The index of the mapping, 0 for DOCA_ERROR_NOT_FOUND
dpdk_mempool_shadow_find_buf_by_data(s, start, size) ==
  LET hits == {i \in DOMAIN s.mmap_arr : InMmap(s.chunks[s.mmap_arr[i]], start, size)} IN
    IF hits = {} THEN 0 ELSE CHOOSE i \in hits : \A j \in hits : i <= j
----------------------------------------------------------------------------
\* A shadow that is returned maps the whole pool, and a range is found in it
\* exactly when one chunk holds all its bytes, whatever its size, though sums
\* of address and size may overflow.
FoundExactly ==
  shadow.ret = "shadow" =>
    \A start, size \in 0..(AddrMod - 1) :
      (dpdk_mempool_shadow_find_buf_by_data(shadow, start, size) # 0) =
      (\E i \in DOMAIN shadow.chunks :
         LET c == shadow.chunks[i] IN c[1] <= start /\ start < c[1] + c[2] /\ start + size <= c[1] + c[2])

\* When NULL is returned no mapping is left over, whichever chunk failed.
NoMappingLeft == shadow.ret = "NULL" => shadow.live = {}
=============================================================================
