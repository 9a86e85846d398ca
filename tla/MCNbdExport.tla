---------------------------- MODULE MCNbdExport ----------------------------
(* Small instances of NbdExport.                                           *)
EXTENDS NbdExport

R(cmd, from, len) == [cmd |-> cmd, from |-> from, len |-> len]
O(code, parts) == [code |-> code, parts |-> parts]

\* Every branch of check_length and handle_request: writes of one and of two
\* sectors that overlap, a read of two blocks, an odd and an empty length, a
\* range that ends behind the image and one that wraps around.
MCEngineRequests ==
    {R("WRITE", 0, 4), R("WRITE", 2, 2), R("READ", 0, 4), R("DISC", 0, 0),
     R("TRIM", 0, 2), R("WRITE", 1, 0), R("WRITE", 4, 2), R("WRITE", 10, 4)}

MCPlainOptions == {O("EXPORT_NAME", 0)}

MCEngineOptions == {O("EXPORT_NAME", 0), O("UNKNOWN", 2)}

MCOptions == {O("EXPORT_NAME", 0), O("EXPORT_NAME", 2), O("UNKNOWN", 2),
              O("ABORT", 0)}

\* A write of one sector, one that is out of range, a read that fits the
\* buffer, one that does not, and commands without data.
MCFewRequests ==
    {R("WRITE", 0, 2), R("WRITE", 4, 2), R("READ", 0, 2), R("READ", 0, 4),
     R("DISC", 0, 0), R("TRIM", 0, 2)}

\* What a kernel client sends: reads and writes within the export.
MCGoodRequests ==
    {R("WRITE", 0, 6), R("WRITE", 2, 2), R("READ", 0, 6), R("READ", 2, 2),
     R("DISC", 0, 0)}

MCLongRead == {R("READ", 0, 4)}
=============================================================================
