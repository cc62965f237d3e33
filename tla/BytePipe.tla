------------------------------ MODULE BytePipe ------------------------------
(***************************************************************************)
(* What a pipe promises: the bytes written come out once each and in order, *)
(* at most Capacity of them wait, a read takes some as soon as there are    *)
(* any and says "end of file" only when there are none and nobody can write.*)
(***************************************************************************)
EXTENDS Naturals, Sequences

CONSTANTS Bytes, Capacity

VARIABLES
  queue,      \* the bytes in the pipe
  readEnd,    \* somebody can still read
  writeEnd,   \* somebody can still write
  got         \* what the last read() from the pipe returned

byteVars == <<queue, readEnd, writeEnd, got>>

ByteInit == queue = <<>> /\ ~readEnd /\ ~writeEnd /\ got = <<>>

\* pipe() makes a new one when the last is gone.
ByteMake ==
  /\ ~readEnd /\ ~writeEnd
  /\ readEnd' = TRUE /\ writeEnd' = TRUE /\ queue' = <<>>
  /\ UNCHANGED got

\* A write appends what there is room for; the rest waits for a reader.
BytePut(s) ==
  /\ writeEnd /\ Len(queue) + Len(s) <= Capacity
  /\ queue' = queue \o s
  /\ UNCHANGED <<readEnd, writeEnd, got>>

ByteGet(k) ==
  /\ readEnd /\ k \in 1 .. Len(queue)
  /\ got' = SubSeq(queue, 1, k)
  /\ queue' = SubSeq(queue, k + 1, Len(queue))
  /\ UNCHANGED <<readEnd, writeEnd>>

ByteEof ==
  /\ readEnd /\ ~writeEnd /\ queue = <<>>
  /\ got' = <<>>
  /\ UNCHANGED <<queue, readEnd, writeEnd>>

\* The last writer closes: what is in the pipe can still be read, if there is a reader.
ByteCloseWrite ==
  /\ writeEnd /\ writeEnd' = FALSE
  /\ IF readEnd THEN UNCHANGED <<queue, got>> ELSE queue' = <<>> /\ got' = <<>>
  /\ UNCHANGED readEnd

\* The last reader closes.
ByteCloseRead ==
  /\ readEnd /\ readEnd' = FALSE
  /\ IF writeEnd THEN UNCHANGED <<queue, got>> ELSE queue' = <<>> /\ got' = <<>>
  /\ UNCHANGED writeEnd

ByteNext ==
  \/ ByteMake \/ ByteEof \/ ByteCloseWrite \/ ByteCloseRead
  \/ \E n \in 1 .. Capacity : \E s \in [1 .. n -> Bytes] : BytePut(s)
  \/ \E k \in 1 .. Capacity : ByteGet(k)

ByteSpec == ByteInit /\ [][ByteNext]_byteVars
=============================================================================
