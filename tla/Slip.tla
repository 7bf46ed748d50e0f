-------------------------------- MODULE Slip --------------------------------
(***************************************************************************)
(* Framing of IP packets on the SLIP UART (platform/common/slip.cpp).      *)
(* Packets from the host are escaped byte by byte into the receive FIFO    *)
(* (handle_input); bytes the guest transmits are collected and unescaped   *)
(* in place until an END byte sends the packet (write_data, send_packet).  *)
(* The guest's driver escapes as RFC 1055 says, which is what handle_input *)
(* does in the other direction.                                            *)
(***************************************************************************)
EXTENDS Sequences, Integers, SequencesExt

CONSTANTS SlipMaxPacket      \* bound on the length of a packet

ASSUME SlipAssumption == SlipMaxPacket \in Nat

\* The four bytes with a meaning, and any other.
SlipBytes == {"END", "ESC", "ESC_END", "ESC_ESC", "data"}

SlipPackets == UNION {[1 .. n -> SlipBytes] : n \in 1 .. SlipMaxPacket}

VARIABLES
  slipPacket,      \* the packet the guest sends
  slipPos,         \* bytes of it framed so far, one more with the final END
  slipWire,        \* framed bytes still to be transmitted
  sndbuf,          \* bytes collected, sndsiz of them
  slipSent         \* packets written to the tunnel device

slipVars == <<slipPacket, slipPos, slipWire, sndbuf, slipSent>>

SlipEscape(b) ==
  CASE b = "END" -> <<"ESC", "ESC_END">>
    [] b = "ESC" -> <<"ESC", "ESC_ESC">>
    [] OTHER -> <<b>>

SlipInit ==
  /\ slipPacket \in SlipPackets
  /\ slipPos = 0
  /\ slipWire = <<>>
  /\ sndbuf = <<>>
  /\ slipSent = <<>>

\* handle_input: every byte escaped, then END.
SlipFrameByte ==
  /\ slipWire = <<>> /\ slipPos <= Len(slipPacket)
  /\ slipPos' = slipPos + 1
  /\ slipWire' = IF slipPos < Len(slipPacket) THEN SlipEscape(slipPacket[slipPos + 1])
                                             ELSE <<"END">>
  /\ UNCHANGED <<slipPacket, sndbuf, slipSent>>

\* An escaped END is kept as the code it was sent as.
SlipCollectKeepsCode(buf, b) ==
  IF buf # <<>> /\ Last(buf) = "ESC" /\ b \in {"ESC_END", "ESC_ESC"}
  THEN Append(Front(buf), IF b = "ESC_END" THEN b ELSE "ESC")
  ELSE Append(buf, b)

\* What write_data leaves in the buffer for a byte other than END: an escape
\* code replaces the ESC in front of it.
SlipCollect(buf, b) ==
  IF buf # <<>> /\ Last(buf) = "ESC" /\ b \in {"ESC_END", "ESC_ESC"}
  THEN Append(Front(buf), IF b = "ESC_END" THEN "END" ELSE "ESC")
  ELSE Append(buf, b)

SlipWriteData ==
  /\ slipWire # <<>>
  /\ slipWire' = Tail(slipWire)
  /\ IF Head(slipWire) = "END"
     THEN /\ slipSent' = IF sndbuf # <<>> THEN Append(slipSent, sndbuf) ELSE slipSent
          /\ sndbuf' = <<>>
     ELSE /\ sndbuf' = SlipCollect(sndbuf, Head(slipWire))
          /\ UNCHANGED slipSent
  /\ UNCHANGED <<slipPacket, slipPos>>

SlipStep == SlipFrameByte \/ SlipWriteData

SlipSpec == SlipInit /\ [][SlipStep]_slipVars

\* ESC followed by the value of an escape code: the ESC that write_data has
\* just unescaped is taken for the start of a new escape.
SlipConfused(p) ==
  \E i \in 1 .. Len(p) - 1 : p[i] = "ESC" /\ p[i + 1] \in {"ESC_END", "ESC_ESC"}

\* write_data undoes the framing that handle_input does: the packet that reaches
\* the tunnel is the one the guest framed, END and ESC bytes included, unless
\* the packet is one of those write_data confuses, and then it never is.
SlipDelivers ==
  slipPos > Len(slipPacket) /\ slipWire = <<>>
    => (slipSent = <<slipPacket>> <=> ~ SlipConfused(slipPacket))
=============================================================================
