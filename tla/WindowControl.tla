--------------------------- MODULE WindowControl ----------------------------
(***************************************************************************)
(* How a Channel sizes its sending window (impl.cpp, Channel::UpdateTimers *)
(* and the counters it looks at).  ReliableChannel lets the window change  *)
(* at will; here is the rule.  One step of the timers is one second.       *)
(***************************************************************************)
EXTENDS Naturals, Integers

CONSTANTS
  MinWindow, MaxWindow, StartWindow,  \* MIN_, MAX_, START_RELIABLE_WINDOW_SIZE
  PacketSize,      \* bytes of a packet
  Acked, Lost      \* packets acknowledged and packets resent in a second

VARIABLES
  m_window_size,
  current_packet_successful, current_packet_loss, current_packet_too_late,
  current_bytes_transfered,
  bpm_counter,     \* seconds since current_bytes_transfered was reset
  silent           \* seconds since the last acknowledgement

counters == <<current_packet_successful, current_packet_loss,
              current_packet_too_late>>
vars == <<m_window_size, counters, current_bytes_transfered, bpm_counter, silent>>

Init ==
  /\ m_window_size = StartWindow
  /\ current_packet_successful = 0 /\ current_packet_loss = 0
  /\ current_packet_too_late = 0 /\ current_bytes_transfered = 0
  /\ bpm_counter = 0 /\ silent = 0

\* Channel::setWindowSize
Clamp(size) == IF size < MinWindow THEN MinWindow
               ELSE IF size > MaxWindow THEN MaxWindow ELSE size

\* No window is so large that more bytes would make a difference.
EnoughBytes == (MaxWindow * 512) \div 2 + 1

\* What came in within the second: acknowledgements of packets that were still
\* waiting (UpdateBytesSent), of others (UpdatePacketTooLateCounter), and
\* packets that had to be sent again (UpdatePacketLossCounter).
Count(acked, late, lost) ==
  /\ counters = <<0, 0, 0>> /\ <<acked, late, lost>> # <<0, 0, 0>>
  /\ current_packet_successful' = acked
  /\ current_packet_too_late' = late
  /\ current_packet_loss' = lost
  /\ current_bytes_transfered' =
       LET bytes == current_bytes_transfered + acked * PacketSize
       IN IF bytes > EnoughBytes THEN EnoughBytes ELSE bytes
  /\ silent' = IF acked > 0 THEN 0 ELSE silent
  /\ UNCHANGED <<m_window_size, bpm_counter>>

Losses == LET all == current_packet_loss + current_packet_too_late
          IN IF all < current_packet_successful THEN all
             ELSE current_packet_successful

\* successful_to_lost_ratio in thousandths: a quotient of integers.
Ratio ==
  IF current_packet_successful = 0 THEN 0
  ELSE 1000 * (Losses \div current_packet_successful)

\* has half the window even been used?
Reasonable == current_bytes_transfered > (m_window_size * 512) \div 2

NewWindow ==
  Clamp(m_window_size +
    CASE current_packet_successful = 0 /\ Losses > 0 -> -10
      [] Ratio < 10 /\ Reasonable -> 100
      [] Ratio \in 10 .. 49 /\ Reasonable -> 50
      [] Ratio > 150 -> -100
      [] Ratio \in 101 .. 150 -> -50
      [] OTHER -> 0)

\* Seeded fault: the bytes are never forgotten.
ResetBytesNever == FALSE

\* if (bpm_counter > 10.0f)
ResetBytes == bpm_counter + 1 > 10

\* Channel::UpdateTimers, a second later.
UpdateTimers ==
  /\ m_window_size' = NewWindow
  /\ current_packet_successful' = 0 /\ current_packet_loss' = 0
  /\ current_packet_too_late' = 0
  /\ bpm_counter' = IF bpm_counter + 1 > 10 THEN 0 ELSE bpm_counter + 1
  /\ current_bytes_transfered' =
       IF ResetBytes THEN 0 ELSE current_bytes_transfered
  /\ silent' = IF silent > 11 THEN silent ELSE silent + 1

Next ==
  \/ \E acked \in Acked, late, lost \in Lost : Count(acked, late, lost)
  \/ UpdateTimers

Spec == Init /\ [][Next]_vars

-----------------------------------------------------------------------------
\* Types; the window stays within its limits.
TypeOK ==
  /\ m_window_size \in MinWindow .. MaxWindow
  /\ current_packet_successful \in Nat /\ current_packet_loss \in Nat
  /\ current_packet_too_late \in Nat /\ current_bytes_transfered \in Nat
  /\ bpm_counter \in 0 .. 10 /\ silent \in 0 .. 12

\* When nothing is acknowledged any more, the window may still grow on the
\* strength of the bytes that came through earlier, but only until these are
\* forgotten, after eleven seconds at most (bpm_counter).
SilenceStopsGrowth ==
  [][m_window_size' > m_window_size =>
       silent < 11 /\ m_window_size' <= MaxWindow]_vars

\* What UpdateTimers does not keep to.  Packets lost and late acknowledgements
\* are "a signal of congestion", and from 15 per cent of the successes on the
\* window is to shrink, down to its minimum.  But packet_loss/packets_successful
\* is a quotient of integers, which is 0 until as much was lost as came through:
\* with a fifth lost the window stays, or grows by 100.  (Where nothing came
\* through the losses are even cut to nothing before they are looked at.)
CongestionShrinks ==
  [][LET lost == current_packet_loss + current_packet_too_late
     IN UpdateTimers /\ current_packet_successful > 0
        /\ 100 * lost > 15 * current_packet_successful
          => m_window_size' < m_window_size \/ m_window_size = MinWindow]_vars

=============================================================================
