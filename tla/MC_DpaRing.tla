---------------------------- MODULE MC_DpaRing ----------------------------
(* DpaRing on rings of two entries whose 16-bit counters wrap at 4. *)
EXTENDS DpaRing

Arp == "arp"
MCUnit == {"a", "b", "ip", Arp}
MCFrames ==
  {[hdr |-> <<"a", "a", "b", "b", "b", "a", "ip">>, len |-> 1],
   [hdr |-> <<"a", "a", "b", "b", "a", "b", Arp>>, len |-> 2]}
===========================================================================
