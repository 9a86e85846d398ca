---------------------------- MODULE MCSvfPlayer ----------------------------
(* A small instance of SvfPlayer for TLC.                                  *)
EXTENDS SvfPlayer

Xxr(op, len, tdo, mask) == [op |-> op, len |-> len, tdo |-> tdo, mask |-> mask]

SmallMenu ==
    { Xxr("SDR", 3, TRUE, << >>), Xxr("SDR", 3, TRUE, <<1, 0, 1>>),
      Xxr("SDR", 2, FALSE, << >>), Xxr("SDR", 5, TRUE, << >>),
      Xxr("HDR", 1, FALSE, << >>),
      Xxr("SIR", 2, TRUE, << >>), Xxr("TIR", 1, TRUE, << >>),
      [op |-> "LOOP", n |-> 3], [op |-> "ENDLOOP"], [op |-> "PIO"],
      [op |-> "ENDDR", state |-> "DRPAUSE"], [op |-> "ENDIR", state |-> "IRSHIFT"],
      [op |-> "STATE", state |-> "RESET"],
      [op |-> "RUNTEST", run |-> "IDLE", end |-> "none"],
      [op |-> "TRST", mode |-> "ABSENT"], [op |-> "FREQUENCY"] }

SmallDeviations == { {}, {1}, {3} }
=============================================================================
