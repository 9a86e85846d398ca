---------------------------- MODULE MCNbdWindows ----------------------------
(* Small instances of both programs, with the menus of MCNbdExport.        *)
EXTENDS MCNbdExport, NbdWindows
=============================================================================
