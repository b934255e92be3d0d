----------------------------- MODULE RingLayout -----------------------------
(***************************************************************************)
(* create_ring: the sizes of frames and blocks, the request that is made   *)
(* smaller while the kernel is short of memory, and the ring of pointers   *)
(* to the frames in the mapping.                                           *)
(***************************************************************************)
EXTENDS Integers, Sequences

CONSTANTS
  SNAPSHOTS,    \* snapshot lengths
  MTUS,         \* MTUs of the device
  BUFFER_SIZE,  \* opt.buffer_size
  PAGE          \* getpagesize()

TPACKET_ALIGNMENT == 16
TPACKET_ALIGN(n) == ((n + TPACKET_ALIGNMENT - 1) \div TPACKET_ALIGNMENT)
                      * TPACKET_ALIGNMENT
TP_HDRLEN == 32            \* sizeof(struct tpacket2_hdr)
SOCKADDR_LL == 20          \* sizeof(struct sockaddr_ll)
MAX_LINKHEADER_SIZE == 256
TP_RESERVE == 4            \* VLAN_TAG_LEN

VARIABLES
  pc,
  frame_size,   \* bytes of a packet to make room for
  tp_frame_size, tp_frame_nr, tp_block_size, tp_block_nr,
  buffer,       \* the pointers filled in so far, in order
  cc,           \* entries allocated for them
  i, j, base    \* the loops that fill them

req == <<tp_frame_size, tp_frame_nr, tp_block_size, tp_block_nr>>
fill == <<buffer, cc, i, j, base>>
vars == <<pc, frame_size, tp_frame_size, tp_frame_nr, tp_block_size,
          tp_block_nr, buffer, cc, i, j, base>>

(* The offset of the link-layer header in a slot.                          *)
macoff ==
  LET tp_hdrlen == TPACKET_ALIGN(TP_HDRLEN) + SOCKADDR_LL
      netoff    == TPACKET_ALIGN(tp_hdrlen + MAX_LINKHEADER_SIZE) + TP_RESERVE
  IN  netoff - MAX_LINKHEADER_SIZE

Init ==
  /\ pc = "idle"
  /\ frame_size = 0
  /\ tp_frame_size = 0 /\ tp_frame_nr = 0 /\ tp_block_size = 0 /\ tp_block_nr = 0
  /\ buffer = << >> /\ cc = 0
  /\ i = 0 /\ j = 0 /\ base = 0

(* No more than the largest packet of the device, if it does not merge     *)
(* packets (iface_get_offload).                                            *)
Enter ==
  /\ pc = "idle"
  /\ pc' = "block"
  /\ \E snapshot \in SNAPSHOTS, offload \in BOOLEAN, mtu \in MTUS :
       frame_size' = IF ~offload /\ snapshot > mtu + 18
                     THEN mtu + 18 ELSE snapshot
  /\ tp_frame_size' = TPACKET_ALIGN(macoff + frame_size')
  /\ tp_frame_nr' = BUFFER_SIZE \div tp_frame_size'
  /\ tp_block_size' = PAGE
  /\ UNCHANGED tp_block_nr
  /\ UNCHANGED fill

(* The block is doubled until a frame fits.                                *)
DoubleBlock ==
  /\ pc = "block"
  /\ tp_block_size < tp_frame_size
  /\ tp_block_size' = 2 * tp_block_size
  /\ UNCHANGED <<pc, frame_size, tp_frame_size, tp_frame_nr, tp_block_nr>>
  /\ UNCHANGED fill

frames_per_block == tp_block_size \div tp_frame_size

(* retry: whole blocks only.                                               *)
MatchBlocks ==
  /\ tp_block_nr' = tp_frame_nr \div frames_per_block
  /\ tp_frame_nr' = tp_block_nr' * frames_per_block

Retry ==
  /\ \/ pc = "block" /\ tp_block_size >= tp_frame_size
     \/ pc = "retry"
  /\ MatchBlocks
  /\ pc' = "request"
  /\ UNCHANGED <<frame_size, tp_frame_size, tp_block_size>>
  /\ UNCHANGED fill

(* PACKET_RX_RING, mmap and malloc succeed.                                *)
RingCreated ==
  /\ pc = "request"
  /\ pc' = "fill"
  /\ cc' = tp_frame_nr
  /\ UNCHANGED <<frame_size, buffer, i, j, base>>
  /\ UNCHANGED req

(* Mutant: five percent, also of fewer than twenty frames.                 *)
LessByPercent == tp_frame_nr - (tp_frame_nr \div 20)

Less ==
  IF tp_frame_nr < 20 THEN tp_frame_nr - 1
                      ELSE tp_frame_nr - (tp_frame_nr \div 20)

(* ENOMEM, and there is more than one block to give up.                    *)
NoMemory ==
  /\ pc = "request"
  /\ tp_block_nr > 1
  /\ tp_frame_nr' = Less
  /\ pc' = "retry"
  /\ UNCHANGED <<frame_size, tp_frame_size, tp_block_size, tp_block_nr>>
  /\ UNCHANGED fill

RingFails ==
  /\ pc = "request"
  /\ pc' = "failed"
  /\ UNCHANGED <<frame_size>>
  /\ UNCHANGED <<req, fill>>

-----------------------------------------------------------------------------
FillFrame ==
  /\ pc = "fill"
  /\ i < tp_block_nr /\ j < frames_per_block
  /\ buffer' = Append(buffer, base)
  /\ base' = base + tp_frame_size
  /\ j' = j + 1
  /\ UNCHANGED <<pc, frame_size, cc, i>>
  /\ UNCHANGED req

(* Mutant: the next block starts where the last frame ended.               *)
FillBlockDense ==
  /\ pc = "fill"
  /\ i < tp_block_nr /\ j >= frames_per_block
  /\ i' = i + 1 /\ j' = 0
  /\ UNCHANGED <<pc, frame_size, buffer, cc, base>>
  /\ UNCHANGED req

FillBlock ==
  /\ pc = "fill"
  /\ i < tp_block_nr /\ j >= frames_per_block
  /\ i' = i + 1 /\ j' = 0
  /\ base' = (i + 1) * tp_block_size
  /\ UNCHANGED <<pc, frame_size, buffer, cc>>
  /\ UNCHANGED req

Filled ==
  /\ pc = "fill"
  /\ i >= tp_block_nr
  /\ pc' = "ready"
  /\ UNCHANGED <<frame_size>>
  /\ UNCHANGED <<req, fill>>

(* create_ring returns; nothing changes the ring any more.                 *)
Leave ==
  /\ pc \in {"ready", "failed"}
  /\ pc' = "idle"
  /\ frame_size' = 0
  /\ tp_frame_size' = 0 /\ tp_frame_nr' = 0
  /\ tp_block_size' = 0 /\ tp_block_nr' = 0
  /\ buffer' = << >> /\ cc' = 0
  /\ i' = 0 /\ j' = 0 /\ base' = 0

-----------------------------------------------------------------------------
(* The pointers fill what was allocated for them, exactly, and each slot   *)
(* lies in the mapping, in one block, behind the slots before it.          *)
SlotsDisjoint ==
  /\ Len(buffer) <= cc
  /\ pc = "ready" => Len(buffer) = cc
  /\ \A k \in 1 .. Len(buffer) :
       /\ buffer[k] + tp_frame_size <= tp_block_nr * tp_block_size
       /\ buffer[k] \div tp_block_size =
            (buffer[k] + tp_frame_size - 1) \div tp_block_size
       /\ k > 1 => buffer[k] >= buffer[k - 1] + tp_frame_size
=============================================================================
