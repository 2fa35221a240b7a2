----------------------------- MODULE SkyProtocol -----------------------------
(***************************************************************************)
(* shared/sky_protocol.h: the reports of the portal that the two boards    *)
(* look into.  A report is the sequence of its bytes, r[1] being byte 0.   *)
(* The builders of reports stand for the portal, which is no part of the   *)
(* code, and follow the comments the parsers carry.                        *)
(***************************************************************************)
EXTENDS Integers, Sequences

SKY_CMD_STATUS == 83
SKY_CMD_QUERY == 81
SKY_BLOCK_TOY_ID == 1
SKY_MAX_SLOTS == 16

Slots == 0..(SKY_MAX_SLOTS - 1)
Byte == 0..255
ToyIds == 0..65535

\* Bit n of the little-endian number in bytes 1 to 4 (line 77; TLC's integers
\* are too narrow for the number itself).
StatusBit(r, n) == (r[2 + n \div 8] \div 2^(n % 8)) % 2

sky_slot_present(r, i) == StatusBit(r, 2 * i) = 1

sky_present_mask(r) == {i \in Slots : sky_slot_present(r, i)}

sky_query_ok(r) == r[2] # 1
sky_query_block(r) == r[3]
ToyId(r) == r[4] + 256 * r[5]

-----------------------------------------------------------------------------
\* The four slots of a state byte, two bits each: present and changed.
StateByte(present, changed, n) ==
  LET Two(k) == (IF 4 * n + k \in present THEN 1 ELSE 0)
                + (IF 4 * n + k \in changed THEN 2 ELSE 0)
  IN  Two(0) + 4 * Two(1) + 16 * Two(2) + 64 * Two(3)

StatusReport(present, changed) ==
  <<SKY_CMD_STATUS>> \o [n \in 1..4 |-> StateByte(present, changed, n - 1)]

QueryAnswer(slot, block, toy) ==
  <<SKY_CMD_QUERY, 16 + slot, block, toy % 256, toy \div 256>>

QueryError(slot, block) == <<SKY_CMD_QUERY, 1, block, 0, 0>>

=============================================================================
