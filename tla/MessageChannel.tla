--------------------------- MODULE MessageChannel ---------------------------
(***************************************************************************)
(* What a WebSocket promises to the program that reads it, whatever frames *)
(* and segments carry the messages: they arrive one by one, whole and in   *)
(* the order in which they were sent; those that did not arrive before the *)
(* connection ended are lost.                                              *)
(***************************************************************************)
EXTENDS Naturals, Sequences

VARIABLES promised,   \* the messages that were sent over this connection
          received    \* those that were handed to the program

Init == promised = << >> /\ received = << >>

Promise ==
    /\ Len(promised') = Len(promised) + 1
    /\ SubSeq(promised', 1, Len(promised)) = promised
    /\ UNCHANGED received

Deliver ==
    /\ Len(received) < Len(promised)
    /\ received' = Append(received, promised[Len(received) + 1])
    /\ UNCHANGED promised

Reconnect == promised' = << >> /\ received' = << >>

Next == Promise \/ Deliver \/ Reconnect

Spec == Init /\ [][Next]_<<promised, received>>
=============================================================================
