------------------------------ MODULE StocksDb ------------------------------
(***************************************************************************)
(* stocks.db on its way to the disk, over several runs of the server.      *)
(*                                                                         *)
(* my_callback hands each payload to fwrite; the C library keeps the bytes *)
(* in a buffer and writes it out when it is full and at fclose.  main only *)
(* reaches fclose when pcapServer returns: after a computation the process *)
(* ends in abort(), and a capture that waits for packets is ended by a     *)
(* signal.  No result of fopen, fwrite or fclose is looked at.             *)
(***************************************************************************)
EXTENDS Integers, Sequences, SequencesExt

CONSTANTS
  PAYLOAD,   \* bytes of the longest payload
  BUFFER,    \* bytes of the stdio buffer
  WRITTEN,   \* bound: bytes given to fwrite before the last call of a run
  RUNS       \* bound: starts of the server

ASSUME StocksDbAssumption ==
  /\ PAYLOAD \in Nat \ {0}
  /\ BUFFER \in Nat \ {0}

VARIABLES
  run,      \* starts so far
  process,  \* what the server does
  g_pFile,  \* the stream: "null" if fopen failed, or after fclose
  written,  \* bytes given to fwrite in this run
  buffer,   \* the stdio buffer
  disk,     \* the contents of stocks.db
  failed    \* a write to the disk failed in this run

dbvars == <<run, process, g_pFile, written, buffer, disk, failed>>

Running == process \in {"capturing", "writing"}

Byte(k) == <<run, k>>
Stream == [k \in 1 .. written |-> Byte(k)]

DbInit ==
  /\ run = 0
  /\ process = "stopped"
  /\ g_pFile = "null"
  /\ written = 0
  /\ buffer = << >>
  /\ disk = << >>
  /\ failed = FALSE

(* Mutant: the file is opened for appending.                               *)
MainAppends ==
  /\ ~Running
  /\ run < RUNS
  /\ run' = run + 1
  /\ process' = "capturing"
  /\ \/ g_pFile' = "open" /\ UNCHANGED disk
     \/ g_pFile' = "null" /\ UNCHANGED disk
  /\ written' = 0
  /\ buffer' = << >>
  /\ failed' = FALSE

(* main: fopen("stocks.db", "wb") empties the file of the last run, before *)
(* it is known whether the capture can be opened.                          *)
Main ==
  /\ ~Running
  /\ run < RUNS
  /\ run' = run + 1
  /\ process' = "capturing"
  /\ \/ g_pFile' = "open" /\ disk' = << >>
     \/ g_pFile' = "null" /\ UNCHANGED disk
  /\ written' = 0
  /\ buffer' = << >>
  /\ failed' = FALSE

-----------------------------------------------------------------------------
(* Mutant: the payload of a repeated packet is written once more.          *)
FwriteAgain ==
  /\ process = "capturing"
  /\ g_pFile = "open"
  /\ written < WRITTEN
  /\ \E n \in 1 .. PAYLOAD :
       /\ written' = written + n
       /\ buffer' = buffer \o [k \in 1 .. 2 * n |->
                                 Byte(written + 1 + ((k - 1) % n))]
  /\ process' = "writing"
  /\ UNCHANGED <<run, g_pFile, disk, failed>>

(* my_callback writes a payload, of capture_len - size bytes: none, or as  *)
(* many as the longest frame has.  The bytes are in the buffer, or waiting *)
(* to go there, until the library has made room.                           *)
Fwrite ==
  /\ process = "capturing"
  /\ g_pFile = "open"
  /\ written < WRITTEN
  /\ \E n \in 0 .. PAYLOAD :
       /\ written' = written + n
       /\ buffer' = buffer \o [k \in 1 .. n |-> Byte(written + k)]
  /\ process' = "writing"
  /\ UNCHANGED <<run, g_pFile, disk, failed>>

FwriteReturns ==
  /\ process = "writing"
  /\ Len(buffer) <= BUFFER
  /\ process' = "capturing"
  /\ UNCHANGED <<run, g_pFile, written, buffer, disk, failed>>

(* Without a stream, the first packet ends the process.                    *)
FwriteNull ==
  /\ process = "capturing"
  /\ g_pFile = "null"
  /\ process' = "killed"
  /\ UNCHANGED <<run, g_pFile, written, buffer, disk, failed>>

(* The library (external): a write takes some bytes from the front of the  *)
(* buffer, only while there are more than fit.  When the disk refuses them *)
(* the library drops the buffer and sets an error flag nobody reads.       *)
Flush ==
  /\ process = "writing"
  /\ Len(buffer) > BUFFER
  /\ \E n \in 1 .. Len(buffer) :
       /\ disk' = disk \o SubSeq(buffer, 1, n)
       /\ buffer' = SubSeq(buffer, n + 1, Len(buffer))
  /\ UNCHANGED <<run, process, g_pFile, written, failed>>

FlushFails ==
  /\ process = "writing"
  /\ Len(buffer) > BUFFER
  /\ \E n \in 0 .. Len(buffer) - 1 : disk' = disk \o SubSeq(buffer, 1, n)
  /\ buffer' = << >>
  /\ failed' = TRUE
  /\ UNCHANGED <<run, process, g_pFile, written>>

-----------------------------------------------------------------------------
(* Mutant: main returns without fclose, and the buffer is forgotten.       *)
FinishUnclosed ==
  /\ process = "capturing"
  /\ process' = IF g_pFile = "open" THEN "ended" ELSE "killed"
  /\ buffer' = << >>
  /\ \/ UNCHANGED <<disk, failed>>
     \/ UNCHANGED disk /\ failed' = TRUE
  /\ g_pFile' = "null"
  /\ UNCHANGED <<run, written>>

(* pcapServer returns, with its packets or because it could not open the   *)
(* capture, and main calls fclose, which writes what is left.  fclose of   *)
(* no stream ends the process.                                             *)
Finish ==
  /\ process = "capturing"
  /\ process' = IF g_pFile = "open" THEN "ended" ELSE "killed"
  /\ buffer' = << >>
  /\ \/ disk' = disk \o buffer /\ UNCHANGED failed
     \/ buffer # << >> /\ UNCHANGED disk /\ failed' = TRUE
  /\ g_pFile' = "null"
  /\ UNCHANGED <<run, written>>

(* listAllDevice calls exit(1) before the capture is opened: nothing was   *)
(* written, but the file has been emptied.                                 *)
ListFails ==
  /\ process = "capturing" /\ written = 0
  /\ process' = "exited"
  /\ UNCHANGED <<run, g_pFile, written, buffer, disk, failed>>

(* coefficient calls abort(), inside the callback: whether open streams    *)
(* are written out depends on the C library.                               *)
Abort ==
  /\ process = "capturing"
  /\ g_pFile = "open" /\ written > 0
  /\ process' = "aborted"
  /\ disk' \in {disk, disk \o buffer}
  /\ buffer' = << >>
  /\ UNCHANGED <<run, g_pFile, written, failed>>

(* A signal ends the process, also in the middle of a write.               *)
Kill ==
  /\ Running
  /\ process' = "killed"
  /\ buffer' = << >>
  /\ UNCHANGED <<run, g_pFile, written, disk, failed>>

DbNext ==
  \/ Main \/ Fwrite \/ FwriteReturns \/ FwriteNull \/ Flush \/ FlushFails
  \/ Finish \/ ListFails \/ Abort \/ Kill

DbSpec == DbInit /\ [][DbNext]_dbvars

-----------------------------------------------------------------------------
Earlier(a, b) == a[1] = b[1] /\ a[2] < b[2]

(* The file holds bytes of one run only, in the order they were written    *)
(* and none twice, through crashes, restarts and failed writes.  A failed  *)
(* write leaves a hole that a reader cannot see.                           *)
DiskInOrder ==
  \A a, b \in 1 .. Len(disk) : a < b => Earlier(disk[a], disk[b])

(* As long as no write failed, the file is what was written up to some     *)
(* byte, not always the end of a payload, and a crash or abort() loses no  *)
(* more than the buffer and the payload in hand.                           *)
CrashLosesTail ==
  ~failed /\ g_pFile = "open" =>
    /\ IsPrefix(disk, Stream)
    /\ written - Len(disk) <=
         BUFFER + (IF process \in {"writing", "killed"} THEN PAYLOAD ELSE 0)

(* If main returns normally, and no write failed, the file is complete.    *)
CleanEndComplete == process = "ended" /\ ~failed => disk = Stream
=============================================================================
