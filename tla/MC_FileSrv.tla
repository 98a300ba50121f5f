----------------------------- MODULE MC_FileSrv -----------------------------
(* FileSrv with buffers of two bytes and files of none, one full and one     *)
(* started buffer, so that the last chunk of a file is full, short or empty. *)
(* Damaged bytes become the low bytes of commands, the checksum of the path, *)
(* which acknowledges it, or none of these.                                  *)
EXTENDS FileSrv

MCPath     == <<102>>
MCContents == {<<>>, <<65, 66, 67>>}
MCNoise    == {FSERV_READ, FSERV_EXIT, 102, 255}
=============================================================================
