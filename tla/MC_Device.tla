----------------------------- MODULE MC_Device -----------------------------
(***************************************************************************)
(* The DPA applications, each with its placements and thread numbers.      *)
(***************************************************************************)
EXTENDS DpaApp

MCKeys == {"k1", "k2"}
\* Two threads where there can be several, and once a first thread other than 0.
MCThreads(a) == CASE a = "kv" -> {<<0, 2>>, <<1, 2>>}
                  [] a \in Threaded -> {<<0, 2>>}
                  [] OTHER -> {<<0, 1>>}
MCConfigs == [a \in Apps |-> {s \in Settings(a) :
  \/ <<s.begin, s.num>> \in MCThreads(a) /\ (a = "send_mt" => s.place.tx = "host")
  \/ a = "send_mt" /\ <<s.begin, s.num>> = <<0, 1>>}]
=============================================================================
