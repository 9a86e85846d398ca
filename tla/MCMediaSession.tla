--------------------------- MODULE MCMediaSession ---------------------------
(* A small instance of MediaSession for TLC.                               *)
EXTENDS MediaSession

AllBuilds == {"linux", "windows", "windows26"}
=============================================================================
