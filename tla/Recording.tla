----------------------------- MODULE Recording ------------------------------
(***************************************************************************)
(* How a payload is recorded: Datagram finds it in a frame, and StocksDb   *)
(* takes it to the disk.  The two meet in one number, the length that      *)
(* my_callback hands to fwrite: the header checks read nothing of the      *)
(* stream, and the stream nothing of the frame.  Each is therefore run on  *)
(* its own, Datagram for every length a frame gives, and StocksDb for      *)
(* every sequence of lengths.                                              *)
(***************************************************************************)
EXTENDS Datagram, StocksDb

RecordingInit == DatagramInit /\ DbInit

(* The callback works on its frames, and the stream is not looked at.      *)
Callback ==
  /\ run = 0
  /\ DatagramNext
  /\ UNCHANGED dbvars

(* The process writes its file, whatever frames the payloads came from.    *)
File ==
  /\ lens = << >>
  /\ DbNext
  /\ UNCHANGED datagramvars

RecordingNext == Callback \/ File

RecordingSpec == RecordingInit /\ [][RecordingNext]_<<datagramvars, dbvars>>
=============================================================================
