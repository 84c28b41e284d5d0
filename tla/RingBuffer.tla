----------------------------- MODULE RingBuffer ------------------------------
(***************************************************************************)
(* RingBufferBase (inc/vhwd/collection/ring_buffer.h, collection.cpp), "one *)
(* thread read/one thread write", and the operations that let the system   *)
(* read and write it in place (MyOverLappedRb, src/vhwd/net/overlapped.cpp). *)
(*                                                                         *)
(* A byte is its number in the stream.  The writer sends in packets whose  *)
(* first unit is their size; it stands for the two bytes of the code.  A   *)
(* step is one access to the position of the other side, one copy, or the  *)
(* store of a position.                                                    *)
(***************************************************************************)
EXTENDS Integers, Sequences

CONSTANTS Size,      \* bytes of the ring, a power of two
          MaxPacket, \* bytes of the longest packet
          MaxBytes   \* bytes that are written in all

VARIABLES buf, rd_pos, wr_pos,  \* the ring
          size,                 \* the size that the header at a byte holds
          written,              \* bytes put into the ring
          taken,                \* bytes taken out of it
          pc, call,             \* a side: where it is, its operation
          seen, count           \* the position it read, the bytes it moves

ASSUME RingAssumption == Size \in Nat \ {0} /\ MaxPacket \in Nat /\ MaxBytes \in Nat

ring == <<buf, rd_pos, wr_pos>>
ringVars == <<ring, size, written, taken, pc, call, seen, count>>

Sides == {"reader", "writer"}
Lesser(a, b) == IF a < b THEN a ELSE b

\* reset(s).
RingInit ==
  /\ buf = [i \in 0..Size - 1 |-> 0] /\ rd_pos = 0 /\ wr_pos = 0
  /\ size = <<>> /\ written = 0 /\ taken = <<>>
  /\ pc = [s \in Sides |-> "idle"] /\ call = [s \in Sides |-> "none"]
  /\ seen = [s \in Sides |-> 0] /\ count = [s \in Sides |-> 0]

Goto(s, l) == pc' = [pc EXCEPT ![s] = l]

\* rd_free: bytes to be read.
ReadFree(rd, wr) == (wr - rd) % Size

\* Mutant: no place is kept empty.
WriteFreeAll(rd, wr) == Size - ReadFree(rd, wr)

\* wr_free: bytes to be written, one place being kept empty.
WriteFree(rd, wr) == (rd - wr - 1) % Size

-----------------------------------------------------------------------------
(* The writer: send(p,n), or init_recv, the system's write and done_recv.  *)

\* A packet of n bytes, or as many bytes as the system will give.
StartWrite ==
  /\ pc["writer"] = "idle" /\ written < MaxBytes
  /\ \E c \in {"send", "overlapped"}, n \in 1..MaxPacket :
       /\ c = "send" => written + n <= MaxBytes
       /\ call' = [call EXCEPT !["writer"] = c] /\ count' = [count EXCEPT !["writer"] = n]
  /\ seen' = [seen EXCEPT !["writer"] = rd_pos]
  /\ Goto("writer", "room")
  /\ UNCHANGED <<ring, size, written, taken>>

\* send: all or nothing; init_recv: what there is room for, and nothing without any; the system
\* then gives some of it.
Room ==
  /\ pc["writer"] = "room"
  /\ LET kp == WriteFree(seen["writer"], wr_pos) IN
     \/ /\ call["writer"] = "send"
        /\ Goto("writer", IF kp >= count["writer"] THEN "fill" ELSE "idle") /\ UNCHANGED count
     \/ /\ call["writer"] = "overlapped" /\ kp = 0
        /\ Goto("writer", "idle") /\ UNCHANGED count
     \/ /\ call["writer"] = "overlapped" /\ kp > 0
        /\ \E n \in 0..Lesser(kp, MaxBytes - written) : count' = [count EXCEPT !["writer"] = n]
        /\ Goto("writer", "fill")
  /\ UNCHANGED <<ring, size, written, taken, call, seen>>

\* The bytes that go to the front of the ring when n of them begin at a position.
Wrapped(at, n) == LET kn == at + n - Size IN IF kn > 0 THEN kn ELSE 0

\* One memcpy, or two around the end; the bytes of the system arrive as one packet.
Fill ==
  /\ pc["writer"] = "fill"
  /\ LET n == count["writer"]
         front == Wrapped(wr_pos, n)
     IN /\ buf' = [i \in 0..Size - 1 |->
                    IF i \in wr_pos..wr_pos + n - front - 1 THEN written + 1 + i - wr_pos
                    ELSE IF i < front THEN written + 1 + n - front + i ELSE buf[i]]
        /\ size' = size \o [k \in 1..n |-> n]
        /\ written' = written + n
  /\ Goto("writer", "publish")
  /\ UNCHANGED <<rd_pos, wr_pos, taken, call, seen, count>>

\* The new position; wr_flip(size) of done_recv comes to the same.
Publish ==
  /\ pc["writer"] = "publish"
  /\ wr_pos' = (wr_pos + count["writer"]) % Size
  /\ Goto("writer", "idle")
  /\ UNCHANGED <<buf, rd_pos, size, written, taken, call, seen, count>>

Writer == StartWrite \/ Room \/ Fill \/ Publish

-----------------------------------------------------------------------------
(* The reader: recv, peek, packet, or init_send and done_send.             *)

StartRead ==
  /\ pc["reader"] = "idle"
  /\ \E c \in {"recv", "peek", "packet", "overlapped"}, n \in 1..MaxPacket :
       call' = [call EXCEPT !["reader"] = c] /\ count' = [count EXCEPT !["reader"] = n]
  /\ seen' = [seen EXCEPT !["reader"] = wr_pos]
  /\ Goto("reader", "left")
  /\ UNCHANGED <<ring, size, written, taken>>

\* packet(p,n) wants the size of the packet, the packet, and n bytes for it; its two calls read the
\* position of the writer anew.  The system sends some of what there is.
BytesLeft ==
  /\ pc["reader"] = "left"
  /\ LET kp == ReadFree(rd_pos, seen["reader"])
         n == count["reader"]
         all == size[buf[rd_pos]]
     IN \/ /\ kp = 0 /\ Goto("reader", "idle") /\ UNCHANGED count
        \/ /\ kp > 0 /\ call["reader"] \in {"recv", "peek"}
           /\ count' = [count EXCEPT !["reader"] = Lesser(kp, n)] /\ Goto("reader", "copy")
        \/ /\ kp > 0 /\ call["reader"] = "packet"
           /\ LET now == ReadFree(rd_pos, wr_pos) IN
              IF all <= now /\ all <= n
              THEN count' = [count EXCEPT !["reader"] = all] /\ Goto("reader", "copy")
              ELSE Goto("reader", "idle") /\ UNCHANGED count
        \/ /\ kp > 0 /\ call["reader"] = "overlapped"
           /\ \E k \in 0..kp : count' = [count EXCEPT !["reader"] = k]
           /\ Goto("reader", "copy")
  /\ UNCHANGED <<ring, size, written, taken, call, seen>>

\* One memcpy, or two around the end; peek leaves the position alone.
Copy ==
  /\ pc["reader"] = "copy"
  /\ taken' = IF call["reader"] = "peek" THEN taken
              ELSE taken \o [k \in 1..count["reader"] |-> buf[(rd_pos + k - 1) % Size]]
  /\ Goto("reader", IF call["reader"] = "peek" THEN "idle" ELSE "release")
  /\ UNCHANGED <<ring, size, written, call, seen, count>>

\* The new position; rd_flip(size) of done_send comes to the same.
Release ==
  /\ pc["reader"] = "release"
  /\ rd_pos' = (rd_pos + count["reader"]) % Size
  /\ Goto("reader", "idle")
  /\ UNCHANGED <<buf, wr_pos, size, written, taken, call, seen, count>>

Reader == StartRead \/ BytesLeft \/ Copy \/ Release

RingNext == Writer \/ Reader

RingSpec == RingInit /\ [][RingNext]_ringVars

-----------------------------------------------------------------------------
(* Properties. *)

\* The bytes come out as they went in, none twice and none lost, whichever of its calls each side
\* uses (send, recv, packet, init_send, init_recv).
BytesInOrder == taken = [k \in 1..Len(taken) |-> k]
=============================================================================
