----------------------------- MODULE MCWsSocket -----------------------------
(* Small instances of WsSocket.                                            *)
EXTENDS WsSocket

K(op, fin, ok, n, masked) ==
    [op |-> op, fin |-> fin, ok |-> ok, n |-> n, masked |-> masked]

\* Messages of one and of more fragments, short and long, masked and empty,
\* control frames, and two that are not valid.  A long payload is one of more
\* than one byte here.
MCFrames ==
    {K("text", TRUE, TRUE, 1, FALSE), K("binary", FALSE, TRUE, 2, FALSE),
     K("cont", FALSE, TRUE, 0, TRUE), K("cont", TRUE, TRUE, 1, FALSE),
     K("ping", TRUE, TRUE, 0, FALSE), K("close", TRUE, TRUE, 0, FALSE),
     K("close", FALSE, FALSE, 0, FALSE)}

MCFewFrames ==
    {K("binary", TRUE, TRUE, 1, FALSE), K("text", FALSE, TRUE, 0, FALSE),
     K("cont", TRUE, TRUE, 1, FALSE), K("ping", TRUE, TRUE, 0, FALSE),
     K("pong", TRUE, FALSE, 0, FALSE), K("close", TRUE, TRUE, 0, FALSE)}

\* A message, a fragment, and a close frame that is not valid.
MCMisreadings ==
    {K("text", TRUE, TRUE, 0, FALSE), K("cont", FALSE, TRUE, 1, FALSE),
     K("close", FALSE, FALSE, 1, FALSE)}

MCAnswers == {"accept", "bad status", "bad fields"}
=============================================================================
