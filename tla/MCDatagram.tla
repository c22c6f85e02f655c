----------------------------- MODULE MCDatagram -----------------------------
(* Small instances of Datagram: a window of three numbers.                  *)
EXTENDS Datagram
=============================================================================
