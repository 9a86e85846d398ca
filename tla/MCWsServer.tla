----------------------------- MODULE MCWsServer -----------------------------
(* A small instance of WsServer for TLC.                                   *)
EXTENDS WsServer

SomeRequests == {
    <<"get", "host", "upgrade", "connection", "version", "key", "end">>,
    <<"get", "keys", "host", "upgrade", "connection", "end", "half", "half">>,
    <<"get", "host", "x", "upgrade", "connection", "version", "key", "end">>,
    <<"get", "upgrade", "version", "end">>,
    <<"get", "bad", "long">>,
    <<"other", "end">>,
    <<"get">> }
=============================================================================
