------------------------------- MODULE Q2Packet ------------------------------
(***************************************************************************)
(* Q2Packet (inc/vhwd/net/q2packet.h): a stream of bytes, which arrives in *)
(* pieces of any length, is cut into packets that carry their size in      *)
(* their header.                                                           *)
(*                                                                         *)
(* A byte is its number in the stream.  The buffer holds 2*MAX_PACKET_SIZE *)
(* bytes, and every packet in it begins at a multiple of Align, so that    *)
(* many small packets can overrun it: that is undefined, and the behaviour *)
(* ends there.  A step of update is one copy, with the tests before it.    *)
(***************************************************************************)
EXTENDS Integers, Sequences

CONSTANTS MIN_PACKET_SIZE, MAX_PACKET_SIZE,
          Align,      \* sizeof(void*)
          Sizes,      \* the sizes that headers hold, the header included
          MaxPackets  \* bound: packets of the stream

VARIABLES ends,       \* the i-th packet that the peer sends is the bytes ends[i]+1 .. ends[i+1]
          received,   \* bytes received so far
          rest,       \* p2 - p1: bytes of the piece that update has not copied yet
          pk, q1, q2, \* the buffer and its two positions
          ap,         \* the packets that are kept, by their first position
          delivered,  \* packets that size() and operator[] have shown
          stage       \* where update is; "idle": the client has what it returned

packetVars == <<ends, received, rest, pk, q1, q2, ap, delivered, stage>>

ASSUME PacketAssumption ==
  /\ MIN_PACKET_SIZE \in Nat \ {0} /\ MAX_PACKET_SIZE \in Nat /\ MIN_PACKET_SIZE <= MAX_PACKET_SIZE
  /\ Align \in Nat \ {0} /\ MaxPackets \in Nat
  /\ Sizes \subseteq Nat /\ \A s \in Sizes : MIN_PACKET_SIZE <= s

BufferSize == 2 * MAX_PACKET_SIZE

Sent == ends[Len(ends)]
SizeOf(i) == ends[i + 1] - ends[i]

\* What the header at a byte says; a byte in the middle of a packet is no header.
SizeAt(b) == IF \E i \in 1..Len(ends) - 1 : ends[i] + 1 = b
             THEN SizeOf(CHOOSE i \in 1..Len(ends) - 1 : ends[i] + 1 = b) ELSE 0

PacketInit ==
  /\ ends = <<0>> /\ received = 0 /\ rest = 0
  /\ pk = [i \in 0..BufferSize - 1 |-> 0] /\ q1 = 0 /\ q2 = 0 /\ ap = <<>>
  /\ delivered = <<>> /\ stage = "idle"

\* The peer sends another packet.
Send ==
  /\ Len(ends) <= MaxPackets
  /\ \E s \in Sizes : ends' = Append(ends, Sent + s)
  /\ UNCHANGED <<received, rest, pk, q1, q2, ap, delivered, stage>>

-----------------------------------------------------------------------------
(* update(p,n) *)

\* Mutant: the bytes of an unfinished packet stay where they are.
UnfinishedStays ==
  IF q1 = 0 THEN UNCHANGED <<pk, q1, q2, ap>>
  ELSE ap' = <<>> /\ q1' = 0 /\ q2' = q2 - q1 /\ pk' = pk

\* done(): the packets go, an unfinished one moves to the front.
Done ==
  IF q1 = 0 THEN UNCHANGED <<pk, q1, q2, ap>>
  ELSE /\ ap' = <<>> /\ q1' = 0 /\ q2' = q2 - q1
       /\ pk' = [i \in DOMAIN pk |-> IF i < q2 - q1 THEN pk[q1 + i] ELSE pk[i]]

\* The next piece of the stream; an empty or a larger one is answered at once.
Update ==
  /\ stage = "idle"
  /\ \E n \in 1..MAX_PACKET_SIZE :
       received + n <= Sent /\ received' = received + n /\ rest' = n
  /\ Done /\ stage' = "header"
  /\ UNCHANGED <<ends, delivered>>

\* memcpy(pk+q2,p1,n); p1+=n; q2+=n;
Take(n, then) ==
  IF q2 + n > BufferSize THEN stage' = "overrun" /\ UNCHANGED <<rest, pk, q2>>
  ELSE /\ pk' = [i \in DOMAIN pk |-> IF i \in q2..q2 + n - 1 THEN received - rest + 1 + i - q2 ELSE pk[i]]
       /\ q2' = q2 + n /\ rest' = rest - n /\ stage' = then

GoOn(then) == stage' = then /\ UNCHANGED <<rest, pk, q2>>

\* The header of the first packet is completed, or waits.
Header ==
  /\ stage = "header"
  /\ LET nl == MIN_PACKET_SIZE - q2 IN
     \/ nl <= 0 /\ GoOn("cut")
     \/ nl > 0 /\ rest < nl /\ Take(rest, "return")
     \/ nl > 0 /\ rest >= nl /\ Take(nl, "cut")
  /\ UNCHANGED <<ends, received, q1, ap, delivered>>

\* The loop: the packet at q1 is refused, is there, waits, or is completed.
Cut ==
  /\ stage = "cut"
  /\ LET sz_real == SizeAt(pk[q1])
         sz_more == sz_real - (q2 - q1)
     IN \/ sz_more <= 0 /\ GoOn("whole")
        \/ sz_more > 0 /\ sz_real > MAX_PACKET_SIZE /\ GoOn("refused")
        \/ sz_more > 0 /\ sz_real <= MAX_PACKET_SIZE /\ sz_more > rest /\ Take(rest, "return")
        \/ sz_more > 0 /\ sz_real <= MAX_PACKET_SIZE /\ sz_more <= rest /\ Take(sz_more, "whole")
  /\ UNCHANGED <<ends, received, q1, ap, delivered>>

\* The next position that is a multiple of Align.
Adjust(n) == ((n + Align - 1) \div Align) * Align

Keep ==
  /\ stage = "whole" /\ stage' = "next"
  /\ ap' = Append(ap, q1) /\ q1' = Adjust(q2) /\ q2' = Adjust(q2)
  /\ UNCHANGED <<ends, received, rest, pk, delivered>>

\* The header of the next packet, or what there is of it.
NextHeader ==
  /\ stage = "next"
  /\ IF rest >= MIN_PACKET_SIZE THEN Take(MIN_PACKET_SIZE, "cut") ELSE Take(rest, "return")
  /\ UNCHANGED <<ends, received, q1, ap, delivered>>

\* The packet that begins at a position of the buffer.
PacketAt(q) == [k \in 1..SizeAt(pk[q]) |-> pk[q + k - 1]]

\* The client looks at the packets that update has completed.
Show ==
  /\ stage = "return" /\ stage' = "idle"
  /\ delivered' = delivered \o [i \in DOMAIN ap |-> PacketAt(ap[i])]
  /\ UNCHANGED <<ends, received, rest, pk, q1, q2, ap>>

PacketNext == Send \/ Update \/ Header \/ Cut \/ Keep \/ NextHeader \/ Show

PacketSpec == PacketInit /\ [][PacketNext]_packetVars

-----------------------------------------------------------------------------
(* Properties. *)

\* The packets that were delivered are those of the stream, whole and in order, however the stream
\* was cut on its way, and what is kept is the beginning of the next one; only a size above the
\* maximum is refused (update, done).
PacketsAreTheStream ==
  /\ \A i \in DOMAIN delivered :
       i < Len(ends) /\ delivered[i] = [k \in 1..SizeOf(i) |-> ends[i] + k]
  /\ stage = "idle" =>
       /\ \A k \in q1..q2 - 1 : pk[k] = ends[Len(delivered) + 1] + k - q1 + 1
       /\ received = ends[Len(delivered) + 1] + q2 - q1
  /\ stage = "refused" => SizeOf(Len(delivered) + Len(ap) + 1) > MAX_PACKET_SIZE
=============================================================================
