---------------------------- MODULE BlockExport ----------------------------
(***************************************************************************)
(* What an NBD export promises, whatever protocol carries it: requests are *)
(* asked, a store of cells changes only by the payload of those that       *)
(* write, and each answer belongs to a request.  A request need not be     *)
(* answered, but the answers are in the order of the requests.  A write is *)
(* not atomic: its cells may reach the store in any number of steps, but   *)
(* all of them have when it is answered, and a read returns what its range *)
(* holds at one moment.                                                    *)
(***************************************************************************)
EXTENDS Integers, Sequences

CONSTANTS FileCells, Menu   \* the requests that may be asked

VARIABLES requests, \* those asked so far; a handle is an index
          store,    \* the cells; <<h, i>> is cell i of the payload of write h
          answers   \* those given, as [id, vals]; a write's carries nothing

Cells == 0 .. FileCells - 1

Init ==
    /\ requests = << >>
    /\ store = [c \in Cells |-> <<0, c>>]
    /\ answers = {}

Ask(r) ==
    /\ requests' = Append(requests, r)
    /\ UNCHANGED <<store, answers>>

(* A request that may still be served: it fits the export, and neither it  *)
(* nor a later one has been answered.                                      *)
Serves(h, cmd) ==
    /\ requests[h].cmd = cmd
    /\ requests[h].len > 0
    /\ requests[h].from + requests[h].len <= FileCells
    /\ \A a \in answers : a.id < h
    /\ UNCHANGED requests

Answer(h, vals) == answers' = answers \cup {[id |-> h, vals |-> vals]}

Read(h) ==
    /\ Serves(h, "READ")
    /\ Answer(h, [i \in 1 .. requests[h].len |-> store[requests[h].from + i - 1]])
    /\ UNCHANGED store

(* The cells of the range of h, and the payload of h there.                *)
Target(h) == requests[h].from .. requests[h].from + requests[h].len - 1
Written(h, c) == <<h, c - requests[h].from>>

Write(h) ==
    /\ Serves(h, "WRITE")
    /\ \E part \in SUBSET Target(h) :
          store' = [c \in Cells |-> IF c \in part THEN Written(h, c) ELSE store[c]]
    /\ UNCHANGED answers

(* All of the payload, with what Write has put there before.               *)
FinishWrite(h) ==
    /\ Serves(h, "WRITE")
    /\ store' = [c \in Cells |-> IF c \in Target(h) THEN Written(h, c) ELSE store[c]]
    /\ Answer(h, << >>)

Next ==
    \/ \E r \in Menu : Ask(r)
    \/ \E h \in DOMAIN requests : Read(h) \/ Write(h) \/ FinishWrite(h)

Spec == Init /\ [][Next]_<<requests, store, answers>>
=============================================================================
