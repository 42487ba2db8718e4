------------------------------ MODULE MCFileRead ------------------------------
(***************************************************************************)
(* FileRead for TLC: pieces of three bytes; a directory, and files of no   *)
(* piece, exactly one, and several; a short read of three bytes before an  *)
(* error of four.                                                          *)
(***************************************************************************)
EXTENDS FileRead

MCSizes == {-1, 0, 3, 7}
MCErrors == {4}

=============================================================================
