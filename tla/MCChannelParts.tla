--------------------------- MODULE MCChannelParts ---------------------------
(***************************************************************************)
(* A channel over a network; the buffer that it orders packets in, the     *)
(* rule that sets its window, and the split packets that it carries, which *)
(* are checked further than the channel takes them.  They share no state   *)
(* here: a behaviour picks one part, which runs while the others stand     *)
(* still.  The modules about which theorems are proved are extended.       *)
(***************************************************************************)
EXTENDS MCReliableChannel, ReliableBuffer, SplitBuffer

MCSizes == {18, 19}

VARIABLES
  running,   \* the part that runs
  \* WindowControl
  m_window_size, current_packet_successful, current_packet_loss,
  current_packet_too_late, current_bytes_transfered, bpm_counter, silent

Control == INSTANCE WindowControl WITH
  MinWindow <- 32, MaxWindow <- 2048, StartWindow <- 64, PacketSize <- 512,
  Acked <- {0, 1200}, Lost <- {0, 240, 1200}

windowVars == <<m_window_size, current_packet_successful, current_packet_loss,
  current_packet_too_late, current_bytes_transfered, bpm_counter, silent>>

InitParts ==
  /\ running \in {"channel", "buffer", "window", "split"}
  /\ Init /\ BufferInit /\ Control!Init /\ SplitInit

ChannelRuns == running = "channel" /\ Next
BufferRuns == running = "buffer" /\ BufferNext
WindowRuns == running = "window" /\ Control!Next
SplitRuns == running = "split" /\ SplitNext

NextParts ==
  /\ UNCHANGED running
  /\ \/ ChannelRuns /\ UNCHANGED <<bufferVars, windowVars, splitVars>>
     \/ BufferRuns /\ UNCHANGED <<vars, windowVars, splitVars>>
     \/ WindowRuns /\ UNCHANGED <<vars, bufferVars, splitVars>>
     \/ SplitRuns /\ UNCHANGED <<vars, bufferVars, windowVars>>

PartsSpec ==
  InitParts /\ [][NextParts]_<<running, vars, bufferVars, windowVars, splitVars>>

-----------------------------------------------------------------------------
\* Channel::UpdateTimers: the window stops growing when nothing comes through.
SilenceStopsGrowth == Control!SilenceStopsGrowth

=============================================================================
