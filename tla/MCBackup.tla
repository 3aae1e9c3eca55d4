------------------------------ MODULE MCBackup ------------------------------
(***************************************************************************)
(* A small instance of Backup: databases of three pages, copied one or two *)
(* pages at a time, or at once.                                            *)
(***************************************************************************)
EXTENDS Backup

AllAtOnce == -1
Sizes == {1, 2, AllAtOnce}
=============================================================================
