------------------------ MODULE MCConnectionMachine ------------------------
(* Instance of ConnectionMachine for TLC: a ladder of four attempts whose  *)
(* delays 1, 2, 4, 5 reach the cap; windows 1 and 2 and sleeps 0..3 give   *)
(* sleeps shorter than, equal to and longer than each window.              *)
EXTENDS ConnectionMachine
=============================================================================
