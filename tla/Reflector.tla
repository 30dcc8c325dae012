----------------------------- MODULE Reflector -----------------------------
(***************************************************************************)
(* What an L2 reflector promises, with no rings, owner bits or doorbells:  *)
(* frames wait in one FIFO queue and leave it, in order and exactly once,  *)
(* addressed back to their sender.                                         *)
(***************************************************************************)
EXTENDS MacSwap, Sequences

CONSTANTS Frames, Capacity, NoFrame

VARIABLES queue,  \* frames received and not yet sent back
          out     \* the frame last put on the wire

Init == queue = <<>> /\ out = NoFrame

Receive(f) ==
  /\ Len(queue) < Capacity
  /\ queue' = Append(queue, f)
  /\ UNCHANGED out

Reply(f) == [hdr |-> Reflected(f.hdr), len |-> f.len]

Send ==
  /\ queue # <<>>
  /\ out' = Reply(Head(queue))
  /\ queue' = Tail(queue)

Next == (\E f \in Frames : Receive(f)) \/ Send

vars == <<queue, out>>
Spec == Init /\ [][Next]_vars
============================================================================
