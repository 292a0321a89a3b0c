-------------------------- MODULE RecoveryHandshake --------------------------
(***************************************************************************)
(* What the decoder-recovery handshake promises, without queue, threads or *)
(* decoder: a reset opens generation after generation; the decoder flushes *)
(* for the generation that is open; and only a decoder that has flushed    *)
(* for exactly that generation can close it.                               *)
(***************************************************************************)
EXTENDS Naturals

VARIABLES gen,     \* generations opened so far
          phase    \* of the newest: "closed", "unflushed" or "flushed"

handshakeVars == <<gen, phase>>

HInit == gen = 0 /\ phase = "closed"

Open  == gen' = gen + 1 /\ phase' = "unflushed"
Flush == phase = "unflushed" /\ phase' = "flushed" /\ UNCHANGED gen
Ack   == phase = "flushed" /\ phase' = "closed" /\ UNCHANGED gen

HNext == Open \/ Flush \/ Ack

HSpec == HInit /\ [][HNext]_handshakeVars
==============================================================================
