--------------------------- MODULE StocksDbProofs ---------------------------
(***************************************************************************)
(* What reaches stocks.db, for every payload size, every size of the stdio *)
(* buffer and any number of runs.                                          *)
(*                                                                         *)
(* The three properties follow from one picture of the stream.  The bytes  *)
(* given to fwrite in this run are numbered; the last ones are in the      *)
(* buffer, in order, and the file holds earlier ones.  While no write has  *)
(* failed it holds all of the earlier ones, so that what a crash loses is  *)
(* exactly the buffer, whose size is what bounds the loss.                 *)
(***************************************************************************)
EXTENDS StocksDb, SequenceTheorems, TLAPS

ProcessStates ==
  {"stopped", "capturing", "writing", "killed", "ended", "exited", "aborted"}

(* A byte: its run, and its number in it.                                  *)
ByteNo == Nat \X Nat

TypeInv ==
  /\ run \in Nat
  /\ process \in ProcessStates
  /\ g_pFile \in {"open", "null"}
  /\ written \in Nat
  /\ buffer \in Seq(ByteNo)
  /\ disk \in Seq(ByteNo)
  /\ failed \in BOOLEAN

(* The byte that is the first of the buffer has this number, less one.     *)
Given == written - Len(buffer)

BufferIsTail ==
  /\ Len(buffer) <= written
  /\ \A k \in 1 .. Len(buffer) : buffer[k] = <<run, Given + k>>

(* What a call of fwrite may leave in the buffer, and have in hand.        *)
Room ==
  /\ process = "capturing" => Len(buffer) <= BUFFER
  /\ process = "writing" => Len(buffer) <= BUFFER + PAYLOAD
  /\ process = "writing" => g_pFile = "open"
  /\ Running \/ buffer = << >>
  /\ g_pFile = "null" => buffer = << >>

(* The bytes of this run in the file came before those of the buffer.      *)
DiskBefore ==
  g_pFile = "open" =>
    \A k \in 1 .. Len(disk) : disk[k][1] = run /\ disk[k][2] <= Given

(* While no write has failed the file is the bytes before the buffer.      *)
DiskComplete ==
  ~failed /\ g_pFile = "open" =>
    /\ \A k \in 1 .. Len(disk) : disk[k] = <<run, k>>
    /\ Running => Len(disk) = Given
    /\ Len(disk) <= written
    /\ process = "killed" => written - Len(disk) <= BUFFER + PAYLOAD
    /\ process \in {"exited", "aborted"} => written - Len(disk) <= BUFFER
    /\ process \notin {"stopped", "ended"}

IInv ==
  /\ TypeInv
  /\ BufferIsTail
  /\ Room
  /\ DiskBefore
  /\ DiskInOrder
  /\ DiskComplete
  /\ CleanEndComplete

-----------------------------------------------------------------------------
(* The file after the first n bytes of the buffer were written out.        *)
Out(n) == disk \o SubSeq(buffer, 1, n)

(* Writing out the first n bytes of the buffer, as the C library does when *)
(* fwrite finds no room and in fclose, appends them to the file: it stays  *)
(* in order, and if it was everything before the buffer it now is          *)
(* everything before the byte Given + n + 1.                               *)
LEMMA WriteOut ==
  ASSUME IInv, StocksDbAssumption, g_pFile = "open",
         NEW n \in 0 .. Len(buffer), NEW d, d = Out(n)
  PROVE  /\ d \in Seq(ByteNo)
         /\ Len(d) = Len(disk) + n
         /\ \A k \in 1 .. Len(d) : d[k][1] = run /\ d[k][2] <= Given + n
         /\ \A a, b \in 1 .. Len(d) : a < b => Earlier(d[a], d[b])
         /\ ~failed /\ Running =>
              /\ Len(d) = Given + n
              /\ \A k \in 1 .. Len(d) : d[k] = <<run, k>>
<1> DEFINE front == SubSeq(buffer, 1, n)
<1>1. TypeInv /\ BufferIsTail /\ DiskBefore /\ DiskInOrder /\ DiskComplete
  BY DEF IInv
<1>2. /\ Len(buffer) \in Nat /\ Len(disk) \in Nat /\ n \in Nat
      /\ n <= Len(buffer) /\ written \in Nat /\ Given \in Nat /\ run \in Nat
  BY <1>1 DEF TypeInv, BufferIsTail, Given
<1>t. buffer \in Seq(ByteNo) /\ disk \in Seq(ByteNo)
  BY <1>1 DEF TypeInv
<1>3. /\ front \in Seq(ByteNo)
      /\ Len(front) = n
      /\ \A k \in 1 .. n : front[k] = <<run, Given + k>>
  <2>1. front \in Seq(ByteNo) /\ Len(front) = n
    BY <1>2, <1>t
  <2>2. \A k \in 1 .. n : front[k] = buffer[k]
    BY <1>2, <1>t
  <2>3. \A k \in 1 .. n : buffer[k] = <<run, Given + k>>
    BY <1>1, <1>2 DEF BufferIsTail
  <2> HIDE DEF front
  <2> QED
    BY <2>1, <2>2, <2>3, ConcatProperties
<1> HIDE DEF front
<1>s. d \in Seq(ByteNo)
  BY <1>2, <1>t, <1>3 DEF front, Out
<1>4. Len(d) \in Nat /\ Len(d) = Len(disk) + n
  BY <1>2, <1>t, <1>3 DEF front, Out
<1>5. \A k \in 1 .. Len(d) :
        d[k] = IF k <= Len(disk) THEN disk[k] ELSE front[k - Len(disk)]
  BY <1>2, <1>t, <1>3 DEF front, Out
<1>6. \A k \in 1 .. Len(d) :
        k > Len(disk) => d[k] = <<run, Given + (k - Len(disk))>>
  BY <1>2, <1>3, <1>4, <1>5
<1>7. \A k \in 1 .. Len(disk) :
        /\ disk[k][1] = run /\ disk[k][2] <= Given
        /\ disk[k][1] \in Nat /\ disk[k][2] \in Nat
  BY <1>1, <1>2, <1>t DEF DiskBefore, ByteNo
<1>8. \A k \in 1 .. Len(d) : d[k][1] = run /\ d[k][2] <= Given + n
  BY <1>2, <1>4, <1>5, <1>6, <1>7
<1>9. ASSUME NEW a \in 1 .. Len(d), NEW b \in 1 .. Len(d), a < b
      PROVE  Earlier(d[a], d[b])
  <2>1. CASE b <= Len(disk)
    <3>1. d[a] = disk[a] /\ d[b] = disk[b]
      BY <2>1, <1>2, <1>4, <1>5, <1>9
    <3> QED
      BY <3>1, <2>1, <1>1, <1>2, <1>4, <1>9 DEF DiskInOrder
  <2>2. CASE a <= Len(disk) /\ b > Len(disk)
    <3>1. d[a] = disk[a] /\ d[b] = <<run, Given + (b - Len(disk))>>
      BY <2>2, <1>2, <1>4, <1>5, <1>6, <1>9
    <3>2. disk[a][1] = run /\ disk[a][2] \in Nat /\ disk[a][2] <= Given
      BY <2>2, <1>2, <1>4, <1>7, <1>9
    <3> QED
      BY <3>1, <3>2, <2>2, <1>2, <1>4, <1>9 DEF Earlier
  <2>3. CASE a > Len(disk)
    <3>1. /\ d[a] = <<run, Given + (a - Len(disk))>>
          /\ d[b] = <<run, Given + (b - Len(disk))>>
      BY <2>3, <1>2, <1>4, <1>6, <1>9
    <3> QED
      BY <3>1, <2>3, <1>2, <1>4, <1>9 DEF Earlier
  <2> QED
    BY <2>1, <2>2, <2>3, <1>2, <1>4, <1>9
<1>10. ASSUME ~failed, Running
       PROVE  /\ Len(d) = Given + n
              /\ \A k \in 1 .. Len(d) : d[k] = <<run, k>>
  <2>1. /\ Len(disk) = Given
        /\ \A k \in 1 .. Len(disk) : disk[k] = <<run, k>>
    BY <1>1, <1>2, <1>10 DEF DiskComplete
  <2>2. Len(d) = Given + n
    BY <2>1, <1>2, <1>4
  <2>3. ASSUME NEW k \in 1 .. Len(d)  PROVE d[k] = <<run, k>>
    <3>1. CASE k <= Len(disk)
      BY <3>1, <2>1, <1>2, <1>4, <1>5
    <3>2. CASE k > Len(disk)
      <4>1. d[k] = <<run, Given + (k - Len(disk))>>
        BY <3>2, <1>4, <1>6
      <4>2. Given + (k - Len(disk)) = k
        BY <2>1, <1>2, <1>4
      <4> QED
        BY <4>1, <4>2
    <3> QED
      BY <3>1, <3>2, <1>2, <1>4
  <2> QED
    BY <2>2, <2>3
<1> QED
  BY <1>s, <1>4, <1>8, <1>9, <1>10

-----------------------------------------------------------------------------
(* fopen with "wb": the file is empty, or, if fopen failed, as before.     *)
LEMMA MainKeeps == IInv /\ StocksDbAssumption /\ Main => IInv'
<1> SUFFICES ASSUME IInv, StocksDbAssumption, Main  PROVE IInv'
  OBVIOUS
<1> USE DEF IInv
<1>1. /\ run' = run + 1 /\ process' = "capturing" /\ written' = 0
      /\ buffer' = << >> /\ failed' = FALSE
      /\ \/ g_pFile' = "open" /\ disk' = << >>
         \/ g_pFile' = "null" /\ disk' = disk
  BY DEF Main
<1>2. Len(<< >>) = 0 /\ \A k \in 1 .. 0 : FALSE
  OBVIOUS
<1>3. TypeInv'
  <2>1. << >> \in Seq(ByteNo)
    OBVIOUS
  <2>2. /\ disk \in Seq(ByteNo) /\ disk' \in Seq(ByteNo)
        /\ buffer' \in Seq(ByteNo)
    BY <2>1, <1>1 DEF TypeInv
  <2>3. run' \in Nat /\ written' \in Nat
    BY <1>1 DEF TypeInv
  <2> QED
    BY <2>2, <2>3, <1>1 DEF TypeInv, ProcessStates
<1>4. BufferIsTail'
  BY <1>1, <1>2 DEF BufferIsTail, Given
<1>5. Room'
  BY <1>1, <1>2 DEF Room, Running, StocksDbAssumption
<1>6. DiskBefore' /\ DiskInOrder'
  BY <1>1, <1>2 DEF DiskBefore, DiskInOrder
<1>7. DiskComplete'
  BY <1>1, <1>2 DEF DiskComplete, Given, Running
<1>8. CleanEndComplete'
  BY <1>1 DEF CleanEndComplete
<1> QED
  BY <1>3, <1>4, <1>5, <1>6, <1>7, <1>8

(* my_callback gives a payload to fwrite: the buffer grows at its end by   *)
(* the next bytes of the run, and the file is left alone.                  *)
LEMMA FwriteKeeps == IInv /\ StocksDbAssumption /\ Fwrite => IInv'
<1> SUFFICES ASSUME IInv, StocksDbAssumption, Fwrite  PROVE IInv'
  OBVIOUS
<1>0. PICK n \in 0 .. PAYLOAD :
        /\ written' = written + n
        /\ buffer' = buffer \o [k \in 1 .. n |-> Byte(written + k)]
  BY DEF Fwrite
<1> DEFINE payload == [k \in 1 .. n |-> Byte(written + k)]
<1>1. /\ process = "capturing" /\ process' = "writing"
      /\ g_pFile = "open" /\ g_pFile' = "open"
      /\ written' = written + n /\ buffer' = buffer \o payload
      /\ run' = run /\ disk' = disk /\ failed' = failed
  BY <1>0 DEF Fwrite
<1>2. /\ PAYLOAD \in Nat /\ n \in Nat /\ n <= PAYLOAD
      /\ BUFFER \in Nat /\ written \in Nat /\ run \in Nat
      /\ Len(buffer) \in Nat /\ Len(buffer) <= written /\ Given \in Nat
      /\ Len(buffer) <= BUFFER /\ Len(disk) \in Nat
      /\ Given = written - Len(buffer)
  BY <1>1 DEF IInv, TypeInv, StocksDbAssumption, BufferIsTail, Given, Room
<1>3. /\ payload \in Seq(ByteNo) /\ Len(payload) = n
      /\ \A k \in 1 .. n : payload[k] = <<run, written + k>>
  <2>1. \A k \in 1 .. n : Byte(written + k) \in ByteNo
    BY <1>2 DEF Byte, ByteNo
  <2>2. payload \in Seq(ByteNo)
    BY <2>1, <1>2
  <2>3. Len(payload) = n
    BY <2>1, <1>2
  <2>4. \A k \in 1 .. n : payload[k] = <<run, written + k>>
    BY <1>2 DEF Byte
  <2> QED
    BY <2>2, <2>3, <2>4
<1> HIDE DEF payload
<1>4. buffer' \in Seq(ByteNo) /\ Len(buffer') = Len(buffer) + n
  <2>1. buffer \in Seq(ByteNo)
    BY DEF IInv, TypeInv
  <2>2. payload \in Seq(ByteNo) /\ Len(payload) = n
    BY <1>3
  <2>3. buffer' = buffer \o payload
    BY <1>1
  <2> QED
    BY <2>1, <2>2, <2>3, ConcatProperties
<1>5. \A k \in 1 .. Len(buffer') :
        buffer'[k] = IF k <= Len(buffer) THEN buffer[k]
                     ELSE payload[k - Len(buffer)]
  BY <1>1, <1>2, <1>3 DEF IInv, TypeInv
<1>6. Given' = Given
  BY <1>1, <1>2, <1>4 DEF Given
<1>7. TypeInv'
  BY <1>1, <1>2, <1>4 DEF IInv, TypeInv, ProcessStates
<1>8. BufferIsTail'
  <2>1. ASSUME NEW k \in 1 .. Len(buffer')
        PROVE  buffer'[k] = <<run, Given + k>>
    <3>1. CASE k <= Len(buffer)
      <4>1. buffer'[k] = buffer[k]
        BY <3>1, <1>5
      <4>2. buffer[k] = <<run, Given + k>>
        BY <3>1, <1>2, <1>4 DEF IInv, BufferIsTail
      <4> QED
        BY <4>1, <4>2
    <3>2. CASE k > Len(buffer)
      <4>1. k - Len(buffer) \in 1 .. n
        BY <3>2, <1>2, <1>4
      <4>2. buffer'[k] = <<run, written + (k - Len(buffer))>>
        BY <4>1, <3>2, <1>2, <1>3, <1>5
      <4>3. written + (k - Len(buffer)) = Given + k
        BY <4>1, <1>2, <1>4
      <4> QED
        BY <4>2, <4>3
    <3> QED
      BY <3>1, <3>2, <1>2, <1>4
  <2>2. Len(buffer') <= written'
    BY <1>1, <1>2, <1>4
  <2> QED
    BY <2>1, <2>2, <1>1, <1>6 DEF BufferIsTail
<1>9. Room'
  BY <1>1, <1>2, <1>4 DEF Room, Running
<1>10. DiskBefore'
  BY <1>1, <1>6 DEF IInv, DiskBefore
<1>11. DiskInOrder' /\ CleanEndComplete'
  BY <1>1 DEF IInv, DiskInOrder, CleanEndComplete
<1>12. DiskComplete'
  BY <1>1, <1>2, <1>6 DEF IInv, DiskComplete, Running
<1> QED
  BY <1>7, <1>8, <1>9, <1>10, <1>11, <1>12 DEF IInv

(* The steps that only end a call or the process, without touching file or *)
(* buffer: fwrite returns, a write without a stream, exit(1).              *)
LEMMA QuietKeeps ==
  IInv /\ StocksDbAssumption /\ (FwriteReturns \/ FwriteNull \/ ListFails)
    => IInv'
<1> SUFFICES ASSUME IInv, StocksDbAssumption,
                    FwriteReturns \/ FwriteNull \/ ListFails
             PROVE  IInv'
  OBVIOUS
<1>1. /\ run' = run /\ g_pFile' = g_pFile /\ written' = written
      /\ buffer' = buffer /\ disk' = disk /\ failed' = failed
  BY DEF FwriteReturns, FwriteNull, ListFails
<1>2. \/ process = "writing" /\ process' = "capturing" /\ Len(buffer) <= BUFFER
      \/ process = "capturing" /\ process' = "killed" /\ g_pFile = "null"
      \/ process = "capturing" /\ process' = "exited" /\ written = 0
  BY DEF FwriteReturns, FwriteNull, ListFails
<1>3. /\ PAYLOAD \in Nat /\ BUFFER \in Nat /\ written \in Nat
      /\ Len(buffer) \in Nat /\ Len(buffer) <= written /\ Len(disk) \in Nat
      /\ Given = written - Len(buffer) /\ buffer \in Seq(ByteNo)
  BY DEF IInv, TypeInv, StocksDbAssumption, BufferIsTail, Given
<1>4. Given' = Given
  BY <1>1 DEF Given
<1>5. TypeInv'
  BY <1>1, <1>2 DEF IInv, TypeInv, ProcessStates
<1>6. BufferIsTail' /\ DiskInOrder'
  BY <1>1, <1>4 DEF IInv, BufferIsTail, DiskInOrder
<1>7. Room'
  <2>1. written = 0 => buffer = << >>
    BY <1>3, EmptySeq
  <2> QED
    BY <2>1, <1>1, <1>2 DEF IInv, Room, Running
<1>8. DiskBefore'
  BY <1>1, <1>4 DEF IInv, DiskBefore
<1>9. DiskComplete'
  <2>1. SUFFICES ASSUME ~failed, g_pFile = "open"
                 PROVE  DiskComplete'
    BY <1>1 DEF DiskComplete
  <2>2. /\ Len(disk) = Given
        /\ \A k \in 1 .. Len(disk) : disk[k] = <<run, k>>
        /\ Len(disk) <= written
    BY <2>1, <1>2 DEF IInv, DiskComplete, Running
  <2>3. process' \in {"capturing", "exited"}
    BY <2>1, <1>2
  <2>4. process' = "exited" => written - Len(disk) <= BUFFER
    BY <1>2, <1>3
  <2> QED
    BY <2>2, <2>3, <2>4, <1>1, <1>4 DEF DiskComplete
<1>10. CleanEndComplete'
  BY <1>2 DEF CleanEndComplete
<1> QED
  BY <1>5, <1>6, <1>7, <1>8, <1>9, <1>10 DEF IInv

(* The library makes room: what goes to the file leaves the front of the   *)
(* buffer.                                                                 *)
LEMMA FlushKeeps == IInv /\ StocksDbAssumption /\ Flush => IInv'
<1> SUFFICES ASSUME IInv, StocksDbAssumption, Flush  PROVE IInv'
  OBVIOUS
<1>1. /\ run' = run /\ g_pFile' = g_pFile /\ written' = written
      /\ process' = process /\ process = "writing" /\ failed' = failed
      /\ g_pFile = "open" /\ Running
  BY DEF Flush, IInv, Room, Running
<1>2. PICK n \in 1 .. Len(buffer) :
        /\ disk' = Out(n)
        /\ buffer' = SubSeq(buffer, n + 1, Len(buffer))
  BY DEF Flush, Out
<1>3. /\ PAYLOAD \in Nat /\ BUFFER \in Nat /\ written \in Nat /\ run \in Nat
      /\ Len(buffer) \in Nat /\ Len(buffer) <= written /\ Len(disk) \in Nat
      /\ Given = written - Len(buffer) /\ Given \in Nat
      /\ Len(buffer) <= BUFFER + PAYLOAD /\ n \in Nat /\ n <= Len(buffer)
  BY <1>1 DEF IInv, TypeInv, StocksDbAssumption, BufferIsTail, Given, Room
<1>4. /\ disk' \in Seq(ByteNo)
      /\ \A k \in 1 .. Len(disk') : disk'[k][1] = run /\ disk'[k][2] <= Given + n
      /\ \A a, b \in 1 .. Len(disk') : a < b => Earlier(disk'[a], disk'[b])
      /\ ~failed => /\ Len(disk') = Given + n
                    /\ \A k \in 1 .. Len(disk') : disk'[k] = <<run, k>>
  <2>1. n \in 0 .. Len(buffer)
    BY <1>3
  <2>2. disk' = Out(n)
    BY <1>2
  <2> QED
    BY <2>1, <2>2, <1>1, WriteOut, Zenon
<1>5. /\ buffer' \in Seq(ByteNo)
      /\ Len(buffer') = Len(buffer) - n
      /\ \A k \in 1 .. Len(buffer') : buffer'[k] = buffer[n + k]
  <2>1. buffer \in Seq(ByteNo)
    BY DEF IInv, TypeInv
  <2> QED
    BY <2>1, <1>2, <1>3
<1>6. Given' = Given + n
  BY <1>1, <1>3, <1>5 DEF Given
<1>7. TypeInv'
  BY <1>1, <1>4, <1>5 DEF IInv, TypeInv
<1>8. BufferIsTail'
  <2>1. ASSUME NEW k \in 1 .. Len(buffer')
        PROVE  buffer'[k] = <<run, (Given + n) + k>>
    <3>1. n + k \in 1 .. Len(buffer)
      BY <1>3, <1>5
    <3>2. buffer'[k] = <<run, Given + (n + k)>>
      BY <3>1, <1>5 DEF IInv, BufferIsTail
    <3>3. Given + (n + k) = (Given + n) + k
      BY <1>3
    <3> QED
      BY <3>2, <3>3
  <2>2. Len(buffer') <= written'
    BY <1>1, <1>3, <1>5
  <2> QED
    BY <2>1, <2>2, <1>1, <1>6 DEF BufferIsTail
<1>9. Room'
  BY <1>1, <1>3, <1>5 DEF Room, Running
<1>10. DiskBefore' /\ DiskInOrder' /\ CleanEndComplete'
  BY <1>1, <1>4, <1>6 DEF DiskBefore, DiskInOrder, CleanEndComplete
<1>11. DiskComplete'
  BY <1>1, <1>3, <1>4, <1>6 DEF DiskComplete, Running
<1> QED
  BY <1>7, <1>8, <1>9, <1>10, <1>11 DEF IInv

(* A refused write leaves a part of the buffer in the file and drops the   *)
(* rest: from then on only the order is claimed.                           *)
LEMMA FlushFailsKeeps == IInv /\ StocksDbAssumption /\ FlushFails => IInv'
<1> SUFFICES ASSUME IInv, StocksDbAssumption, FlushFails  PROVE IInv'
  OBVIOUS
<1>1. /\ run' = run /\ g_pFile' = g_pFile /\ written' = written
      /\ process' = process /\ process = "writing" /\ failed' = TRUE
      /\ g_pFile = "open" /\ Running /\ buffer' = << >>
  BY DEF FlushFails, IInv, Room, Running
<1>2. PICK n \in 0 .. Len(buffer) - 1 : disk' = Out(n)
  BY DEF FlushFails, Out
<1>3. /\ PAYLOAD \in Nat /\ BUFFER \in Nat /\ written \in Nat
      /\ Len(buffer) \in Nat /\ Len(buffer) <= written
      /\ Given = written - Len(buffer) /\ Given \in Nat
      /\ n \in 0 .. Len(buffer) /\ n \in Nat
  BY <1>1 DEF IInv, TypeInv, StocksDbAssumption, BufferIsTail, Given, Room
<1>4. /\ disk' \in Seq(ByteNo)
      /\ \A k \in 1 .. Len(disk') : disk'[k][1] = run /\ disk'[k][2] <= Given + n
      /\ \A a, b \in 1 .. Len(disk') : a < b => Earlier(disk'[a], disk'[b])
  BY <1>1, <1>2, <1>3, WriteOut, Zenon
<1>6. TypeInv'
  BY <1>1, <1>4, EmptySeq DEF IInv, TypeInv
<1>7. BufferIsTail' /\ Room'
  BY <1>1, <1>3, EmptySeq DEF BufferIsTail, Room, Running, Given
<1>8. DiskBefore'
  <2>1. ASSUME NEW k \in 1 .. Len(disk')
        PROVE  disk'[k][1] = run /\ disk'[k][2] <= written
    <3>1. disk'[k] \in ByteNo /\ disk'[k][2] <= Given + n
      BY <1>4, ElementOfSeq
    <3>2. disk'[k][2] \in Nat
      BY <3>1 DEF ByteNo
    <3> QED
      BY <3>1, <3>2, <1>3, <1>4
  <2> QED
    BY <2>1, <1>1, <1>3, EmptySeq DEF DiskBefore, Given
<1>9. DiskInOrder'
  BY <1>4 DEF DiskInOrder
<1>10. DiskComplete' /\ CleanEndComplete'
  BY <1>1 DEF DiskComplete, CleanEndComplete
<1> QED
  BY <1>6, <1>7, <1>8, <1>9, <1>10 DEF IInv

(* The whole buffer written out.                                           *)
LEMMA WriteAll ==
  ASSUME IInv
  PROVE  disk \o buffer = Out(Len(buffer))
<1>1. buffer \in Seq(ByteNo)
  BY DEF IInv, TypeInv
<1>2. SubSeq(buffer, 1, Len(buffer)) = buffer
  BY <1>1
<1> QED
  BY <1>2 DEF Out

(* When the process is gone there is no buffer, and all that is left to    *)
(* see is what the end did to the file.                                    *)
LEMMA EndKeeps ==
  ASSUME IInv, StocksDbAssumption, buffer' = << >>, run' = run,
         written' = written, disk' \in {disk, disk \o buffer},
         g_pFile' \in {g_pFile, "null"}, failed' \in BOOLEAN, Running,
         process' \in {"killed", "ended", "aborted"}
  PROVE  /\ TypeInv' /\ BufferIsTail' /\ Room' /\ DiskBefore' /\ DiskInOrder'
         /\ g_pFile = "open" /\ ~failed =>
              /\ \A k \in 1 .. Len(disk') : disk'[k] = <<run, k>>
              /\ Len(disk') <= written /\ Given <= Len(disk')
              /\ disk' = disk \o buffer => Len(disk') = written
<1>1. /\ written \in Nat /\ Len(buffer) \in Nat /\ Len(buffer) <= written
      /\ Given = written - Len(buffer) /\ Given \in Nat /\ Len(disk) \in Nat
  BY DEF IInv, TypeInv, BufferIsTail, Given
<1>2. disk \in Seq(ByteNo) /\ Len(<< >>) = 0 /\ << >> \in Seq(ByteNo)
  BY DEF IInv, TypeInv
<1>3. g_pFile \in {"open", "null"}
  BY DEF IInv, TypeInv
<1>4. BufferIsTail' /\ Room'
  BY <1>1, <1>2 DEF BufferIsTail, Room, Given, Running
<1>5. CASE g_pFile = "null"
  <2>1. disk' = disk
    <3>1. disk \o buffer = disk
      BY <1>2, <1>5 DEF IInv, Room
    <3> QED
      BY <3>1
  <2>2. DiskBefore'
    BY <1>3, <1>5 DEF DiskBefore
  <2>3. DiskInOrder'
    BY <2>1 DEF IInv, DiskInOrder
  <2>4. TypeInv'
    BY <2>1, <1>2, <1>3 DEF IInv, TypeInv, ProcessStates
  <2> QED
    BY <2>2, <2>3, <2>4, <1>4, <1>5
<1>6. CASE g_pFile = "open"
  <2>1. PICK n \in {0, Len(buffer)} : /\ disk' = Out(n)
                                      /\ disk' = disk \o buffer => n = Len(buffer)
    <3>1. CASE disk' = disk \o buffer
      BY <3>1, WriteAll
    <3>2. CASE disk' # disk \o buffer
      <4>1. disk' = disk
        BY <3>2
      <4>2. Out(0) = disk
        <5>1. SubSeq(buffer, 1, 0) = << >>
          BY DEF IInv, TypeInv
        <5> QED
          BY <5>1, <1>2 DEF Out
      <4> QED
        BY <4>1, <4>2, <3>2
    <3> QED
      BY <3>1, <3>2
  <2>2. n \in 0 .. Len(buffer) /\ n \in Nat
    BY <2>1, <1>1
  <2>3. /\ disk' \in Seq(ByteNo)
        /\ \A k \in 1 .. Len(disk') : disk'[k][1] = run /\ disk'[k][2] <= Given + n
        /\ \A a, b \in 1 .. Len(disk') : a < b => Earlier(disk'[a], disk'[b])
        /\ ~failed => /\ Len(disk') = Given + n
                      /\ \A k \in 1 .. Len(disk') : disk'[k] = <<run, k>>
    BY <2>1, <2>2, <1>6, WriteOut, Zenon
  <2>4. DiskBefore'
    <3>1. ASSUME NEW k \in 1 .. Len(disk')
          PROVE  disk'[k][1] = run /\ disk'[k][2] <= written
      <4>1. disk'[k] \in ByteNo /\ disk'[k][2] <= Given + n
        BY <2>3, ElementOfSeq
      <4>2. disk'[k][2] \in Nat
        BY <4>1 DEF ByteNo
      <4> QED
        BY <4>1, <4>2, <2>2, <2>3, <1>1
    <3>2. Given' = written
      BY <1>1, <1>2 DEF Given
    <3> QED
      BY <3>1, <3>2 DEF DiskBefore
  <2>5. DiskInOrder'
    BY <2>3 DEF DiskInOrder
  <2>6. TypeInv'
    BY <2>3, <1>2, <1>3 DEF IInv, TypeInv, ProcessStates
  <2>7. ASSUME ~failed
        PROVE  /\ \A k \in 1 .. Len(disk') : disk'[k] = <<run, k>>
               /\ Len(disk') <= written /\ Given <= Len(disk')
               /\ disk' = disk \o buffer => Len(disk') = written
    <3>1. Len(disk') = Given + n
      BY <2>3, <2>7
    <3>2. disk' = disk \o buffer => n = Len(buffer)
      BY <2>1
    <3>3. /\ Len(disk') <= written /\ Given <= Len(disk')
          /\ n = Len(buffer) => Len(disk') = written
      BY <3>1, <2>1, <1>1
    <3> QED
      BY <3>2, <3>3, <2>3, <2>7, Zenon
  <2> QED
    BY <2>4, <2>5, <2>6, <2>7, <1>4
<1> QED
  BY <1>3, <1>5, <1>6

(* fclose writes what is left, and if it does the file is complete.        *)
LEMMA FinishKeeps == IInv /\ StocksDbAssumption /\ Finish => IInv'
<1> SUFFICES ASSUME IInv, StocksDbAssumption, Finish  PROVE IInv'
  OBVIOUS
<1>1. /\ buffer' = << >> /\ run' = run /\ written' = written /\ Running
      /\ g_pFile' = "null" /\ disk' \in {disk, disk \o buffer}
      /\ process' \in {"killed", "ended"} /\ failed' \in BOOLEAN
      /\ process' = "ended" => g_pFile = "open"
      /\ ~failed' => disk' = disk \o buffer /\ ~failed
  BY DEF Finish, Running, IInv, TypeInv
<1>2. /\ TypeInv' /\ BufferIsTail' /\ Room' /\ DiskBefore' /\ DiskInOrder'
      /\ g_pFile = "open" /\ ~failed =>
           /\ \A k \in 1 .. Len(disk') : disk'[k] = <<run, k>>
           /\ disk' = disk \o buffer => Len(disk') = written
  BY <1>1, EndKeeps, Zenon
<1>3. DiskComplete'
  BY <1>1 DEF DiskComplete
<1>4. CleanEndComplete'
  <2>1. SUFFICES ASSUME process' = "ended", ~failed'  PROVE disk' = Stream'
    BY DEF CleanEndComplete
  <2>2. /\ Len(disk') = written
        /\ \A k \in 1 .. Len(disk') : disk'[k] = <<run, k>>
    BY <2>1, <1>1, <1>2
  <2>3. disk' = [k \in 1 .. Len(disk') |-> disk'[k]]
    BY <1>2, LenProperties DEF TypeInv
  <2>4. Stream' = [k \in 1 .. written |-> <<run, k>>]
    BY <1>1 DEF Stream, Byte
  <2> QED
    BY <2>2, <2>3, <2>4
<1> QED
  BY <1>2, <1>3, <1>4 DEF IInv

(* abort() and a signal lose what is in the buffer, and nothing else.      *)
LEMMA CrashKeeps == IInv /\ StocksDbAssumption /\ (Abort \/ Kill) => IInv'
<1> SUFFICES ASSUME IInv, StocksDbAssumption, Abort \/ Kill  PROVE IInv'
  OBVIOUS
<1>1. /\ buffer' = << >> /\ run' = run /\ written' = written /\ Running
      /\ g_pFile' = g_pFile /\ disk' \in {disk, disk \o buffer}
      /\ failed' = failed /\ failed' \in BOOLEAN
      /\ \/ process = "capturing" /\ process' = "aborted"
         \/ process' = "killed"
  BY DEF Abort, Kill, Running, IInv, TypeInv
<1>2. /\ TypeInv' /\ BufferIsTail' /\ Room' /\ DiskBefore' /\ DiskInOrder'
      /\ g_pFile = "open" /\ ~failed =>
           /\ \A k \in 1 .. Len(disk') : disk'[k] = <<run, k>>
           /\ Len(disk') <= written /\ Given <= Len(disk')
  BY <1>1, EndKeeps, Zenon
<1>3. /\ PAYLOAD \in Nat /\ BUFFER \in Nat /\ written \in Nat
      /\ Len(buffer) \in Nat /\ Len(disk') \in Nat
      /\ Given = written - Len(buffer)
      /\ Len(buffer) <= BUFFER + PAYLOAD
      /\ process = "capturing" => Len(buffer) <= BUFFER
  BY <1>1, <1>2 DEF IInv, TypeInv, StocksDbAssumption, Given, Room, Running
<1>4. DiskComplete'
  <2>1. SUFFICES ASSUME ~failed, g_pFile = "open"
                 PROVE  DiskComplete'
    BY <1>1 DEF DiskComplete
  <2>2. /\ \A k \in 1 .. Len(disk') : disk'[k] = <<run, k>>
        /\ Len(disk') <= written
    BY <2>1, <1>2
  <2>3. /\ process' = "killed" => written - Len(disk') <= BUFFER + PAYLOAD
        /\ process' = "aborted" => written - Len(disk') <= BUFFER
        /\ process' \in {"killed", "aborted"}
    BY <2>1, <1>1, <1>2, <1>3
  <2> QED
    BY <2>2, <2>3, <1>1 DEF DiskComplete, Running
<1>5. CleanEndComplete'
  BY <1>1 DEF CleanEndComplete
<1> QED
  BY <1>2, <1>4, <1>5 DEF IInv

-----------------------------------------------------------------------------
(* The invariant holds at the first start of the server.                   *)
LEMMA InitIInv == DbInit => IInv
<1> SUFFICES ASSUME DbInit  PROVE IInv
  OBVIOUS
<1>1. Len(<< >>) = 0 /\ << >> \in Seq(ByteNo)
  OBVIOUS
<1>2. TypeInv
  BY <1>1 DEF DbInit, TypeInv, ProcessStates
<1>3. BufferIsTail /\ Room /\ DiskBefore /\ DiskInOrder
  BY <1>1 DEF DbInit, BufferIsTail, Room, Running, DiskBefore, DiskInOrder, Given
<1>4. DiskComplete /\ CleanEndComplete
  BY DEF DbInit, DiskComplete, CleanEndComplete
<1> QED
  BY <1>2, <1>3, <1>4 DEF IInv

(* What is in the buffer and what is on the disk, at every moment of every *)
(* run: no step of my_callback, main or the C library disturbs it.         *)
THEOREM StreamInvariant == DbSpec => []IInv
<1>1. IInv /\ UNCHANGED dbvars => IInv'
  <2> SUFFICES ASSUME IInv, UNCHANGED dbvars  PROVE IInv'
    OBVIOUS
  <2>1. /\ run' = run /\ process' = process /\ g_pFile' = g_pFile
        /\ written' = written /\ buffer' = buffer /\ disk' = disk
        /\ failed' = failed
    BY DEF dbvars
  <2>2. TypeInv' /\ BufferIsTail' /\ Room'
    BY <2>1 DEF IInv, TypeInv, BufferIsTail, Room, Given, Running
  <2>3. DiskBefore' /\ DiskInOrder'
    BY <2>1 DEF IInv, DiskBefore, DiskInOrder, Given
  <2>4. DiskComplete'
    BY <2>1 DEF IInv, DiskComplete, Given, Running
  <2>5. CleanEndComplete'
    BY <2>1 DEF IInv, CleanEndComplete, Stream, Byte
  <2> QED
    BY <2>2, <2>3, <2>4, <2>5 DEF IInv
<1>2. IInv /\ DbNext => IInv'
  BY StocksDbAssumption, MainKeeps, FwriteKeeps, QuietKeeps, FlushKeeps,
     FlushFailsKeeps, FinishKeeps, CrashKeeps DEF DbNext
<1> QED
  BY <1>1, <1>2, InitIInv, PTL DEF DbSpec

(* stocks.db never mixes runs, and holds no byte twice or out of order,    *)
(* through crashes, restarts and failed writes, for any payload and buffer *)
(* size: main truncates the file, and only the front of the buffer is ever *)
(* written to it.                                                          *)
THEOREM FileNeverMixed == DbSpec => []DiskInOrder
<1>1. IInv => DiskInOrder
  BY DEF IInv
<1> QED
  BY <1>1, StreamInvariant, PTL

(* What a signal or abort() loses, if no write failed before, is at most   *)
(* what fits in the stdio buffer, and the payload my_callback was handing  *)
(* to fwrite when a signal ended it; the file is cut off there.            *)
THEOREM LossIsBuffer == DbSpec => []CrashLosesTail
<1>1. IInv /\ StocksDbAssumption => CrashLosesTail
  <2> SUFFICES ASSUME IInv, StocksDbAssumption, ~failed, g_pFile = "open"
               PROVE  /\ IsPrefix(disk, Stream)
                      /\ written - Len(disk) <=
                           BUFFER + (IF process \in {"writing", "killed"}
                                     THEN PAYLOAD ELSE 0)
    BY DEF CrashLosesTail
  <2>1. /\ \A k \in 1 .. Len(disk) : disk[k] = <<run, k>>
        /\ Running => Len(disk) = Given
        /\ Len(disk) <= written
        /\ process = "killed" => written - Len(disk) <= BUFFER + PAYLOAD
        /\ process \in {"exited", "aborted"} => written - Len(disk) <= BUFFER
        /\ process \notin {"stopped", "ended"}
    BY DEF IInv, DiskComplete
  <2>2. /\ PAYLOAD \in Nat /\ BUFFER \in Nat /\ written \in Nat /\ run \in Nat
        /\ Len(disk) \in Nat /\ Len(buffer) \in Nat
        /\ Given = written - Len(buffer)
        /\ process \in ProcessStates
    BY DEF IInv, TypeInv, StocksDbAssumption, Given
  <2>3. written - Len(disk) <=
          BUFFER + (IF process \in {"writing", "killed"} THEN PAYLOAD ELSE 0)
    <3>1. CASE Running
      <4>1. written - Len(disk) = Len(buffer)
        BY <3>1, <2>1, <2>2
      <4> QED
        BY <4>1, <3>1, <2>2 DEF IInv, Room, Running
    <3>2. CASE ~Running
      BY <3>2, <2>1, <2>2 DEF Running, ProcessStates
    <3> QED
      BY <3>1, <3>2
  <2>4. IsPrefix(disk, Stream)
    <3>1. \A k \in 1 .. written : Byte(k) \in ByteNo
      BY <2>2 DEF Byte, ByteNo
    <3>2. Stream \in Seq(ByteNo) /\ Len(Stream) = written
      BY <3>1, <2>2 DEF Stream
    <3>3. disk \in Seq(ByteNo)
      BY DEF IInv, TypeInv
    <3>4. \A k \in 1 .. Len(disk) : Stream[k] = disk[k]
      <4>1. \A k \in 1 .. written : Stream[k] = <<run, k>>
        BY DEF Stream, Byte
      <4>2. \A k \in 1 .. Len(disk) : k \in 1 .. written
        BY <2>1, <2>2
      <4> QED
        BY <4>1, <4>2, <2>1, Zenon
    <3>5. SubSeq(disk, 1, Len(disk)) = SubSeq(Stream, 1, Len(disk))
      BY <3>2, <3>3, <3>4, <2>1, <2>2
    <3> QED
      BY <3>2, <3>5, <2>1 DEF IsPrefix
  <2> QED
    BY <2>3, <2>4
<1> QED
  BY <1>1, StocksDbAssumption, StreamInvariant, PTL

(* If main returns after pcapServer, and no write failed, stocks.db holds  *)
(* every byte that my_callback wrote.                                      *)
THEOREM FileComplete == DbSpec => []CleanEndComplete
<1>1. IInv => CleanEndComplete
  BY DEF IInv
<1> QED
  BY <1>1, StreamInvariant, PTL
=============================================================================
