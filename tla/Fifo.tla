-------------------------------- MODULE Fifo --------------------------------
(***************************************************************************)
(* What a service's message queue promises to the threads that use it: an  *)
(* unbounded first-in first-out sequence.  A push never blocks and never   *)
(* loses a message; a pop hands out the oldest message, or reports that    *)
(* there is none.                                                          *)
(***************************************************************************)
EXTENDS Sequences

CONSTANTS Msg,      \* the messages
          NoMsg     \* what a pop of an empty queue returns

VARIABLES fifo,     \* the messages accepted and not yet handed out
          popped    \* the result of the latest pop

fifoVars == <<fifo, popped>>

FifoInit == fifo = << >> /\ popped = NoMsg

FifoPush(m) == fifo' = Append(fifo, m) /\ UNCHANGED popped

FifoPop == /\ fifo # << >>
           /\ popped' = Head(fifo)
           /\ fifo' = Tail(fifo)

FifoPopEmpty == fifo = << >> /\ popped' = NoMsg /\ UNCHANGED fifo

FifoNext == (\E m \in Msg : FifoPush(m)) \/ FifoPop \/ FifoPopEmpty

FifoSpec == FifoInit /\ [][FifoNext]_fifoVars
=============================================================================
