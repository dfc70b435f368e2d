---------------------------- MODULE SerialInput ----------------------------
(***************************************************************************)
(* The input of the serial console (devices/src/legacy/serial.rs): bytes of  *)
(* stdin are moved to the FIFO of the UART by events of two descriptors, and *)
(* stdin is unregistered while the FIFO is full.  The UART itself            *)
(* (vm-superio) is modelled by its FIFO and its callback.                    *)
(***************************************************************************)
EXTENDS Naturals, Sequences, SequencesExt

CONSTANTS FifoSize, MaxBytes

VARIABLES
  stdin,          \* bytes to read
  eof,            \* the peer has closed stdin
  fifo,
  input_reg,      \* stdin is registered with the event manager
  ready_reg,      \* the buffer-ready eventfd is registered
  buffer_ready,   \* and is readable
  typed, got,     \* numbers of bytes written to stdin and read by the guest
  failed          \* history: a read of stdin or the UART has failed
sivars == <<stdin, eof, fifo, input_reg, ready_reg, buffer_ready, typed, got, failed>>

Type ==
    /\ ~eof /\ typed < MaxBytes /\ typed' = typed + 1 /\ stdin' = Append(stdin, typed')
    /\ UNCHANGED <<eof, fifo, input_reg, ready_reg, buffer_ready, got, failed>>

Close == ~eof /\ eof' = TRUE /\ UNCHANGED <<stdin, fifo, input_reg, ready_reg, buffer_ready, typed, got, failed>>

\* A read of the data register: the UART calls in_buffer_empty when the FIFO is
\* empty after it.
GuestRead ==
    /\ got' = IF fifo = <<>> THEN got ELSE Head(fifo)
    /\ fifo' = IF fifo = <<>> THEN <<>> ELSE Tail(fifo)
    /\ buffer_ready' = (buffer_ready \/ fifo' = <<>>)
    /\ UNCHANGED <<stdin, eof, input_reg, ready_reg, typed, failed>>

\* Mutant: stdin stays unregistered once it has no more to give.
register_never == FALSE
register_again == TRUE

keep_ready == TRUE

Detach == input_reg' = FALSE /\ ready_reg' = FALSE

avail_cap == FifoSize - Len(fifo)

\* What recv_bytes reads: as much as there is room for.
count == IF Len(stdin) < avail_cap THEN Len(stdin) ELSE avail_cap

\* recv_bytes and the answer of process to what it returns; at most one of the
\* calls fails.
recv_bytes(from) ==
    \/ /\ avail_cap = 0                                       \* ENOBUFS
       /\ input_reg' = FALSE /\ ready_reg' = (ready_reg /\ keep_ready)
       /\ buffer_ready' = (buffer_ready /\ from # "ready")
       /\ UNCHANGED <<stdin, fifo, failed>>
    \/ /\ avail_cap > 0 /\ stdin # <<>>
       /\ fifo' = fifo \o SubSeq(stdin, 1, count) /\ stdin' = SubSeq(stdin, count + 1, Len(stdin))
       /\ buffer_ready' = (buffer_ready /\ from # "ready")
       /\ UNCHANGED <<input_reg, ready_reg, failed>>
    \/ /\ avail_cap > 0 /\ stdin # <<>> /\ ~failed             \* raw_input fails: ENOBUFS
       /\ stdin' = SubSeq(stdin, count + 1, Len(stdin))
       /\ input_reg' = FALSE /\ failed' = TRUE
       /\ buffer_ready' = (buffer_ready /\ from # "ready")
       /\ UNCHANGED <<fifo, ready_reg>>
    \/ /\ avail_cap > 0 /\ ~failed                             \* another error of read
       /\ Detach /\ failed' = TRUE
       /\ buffer_ready' = (buffer_ready /\ from # "ready")
       /\ UNCHANGED <<stdin, fifo>>
    \/ /\ avail_cap > 0 /\ stdin = <<>> /\ eof
       /\ IF from = "input" THEN Detach ELSE UNCHANGED <<input_reg, ready_reg>>
       /\ buffer_ready' = (buffer_ready /\ from # "ready")
       /\ UNCHANGED <<stdin, fifo, failed>>
    \/ /\ avail_cap > 0 /\ stdin = <<>> /\ ~eof                \* EWOULDBLOCK
       /\ input_reg' = (input_reg \/ register_again)
       /\ buffer_ready' = ((buffer_ready /\ from # "ready") \/ (~input_reg /\ register_again))
       /\ UNCHANGED <<stdin, fifo, ready_reg, failed>>

ProcessInput ==
    /\ input_reg /\ (stdin # <<>> \/ eof)
    /\ recv_bytes("input")
    /\ UNCHANGED <<eof, typed, got>>

ProcessReady ==
    /\ ready_reg /\ buffer_ready
    /\ recv_bytes("ready")
    /\ UNCHANGED <<eof, typed, got>>

SerialInit ==
    /\ stdin = <<>> /\ eof = FALSE /\ fifo = <<>> /\ input_reg = TRUE /\ ready_reg = TRUE
    /\ buffer_ready = FALSE /\ typed = 0 /\ got = 0 /\ failed = FALSE

SerialNext == Type \/ Close \/ GuestRead \/ ProcessInput \/ ProcessReady

SerialSpec == SerialInit /\ [][SerialNext]_sivars

\* The event loop serves both descriptors and the guest's driver reads what it
\* has been told of.
SerialFairness == WF_sivars(ProcessInput) /\ WF_sivars(ProcessReady) /\ WF_sivars(fifo # <<>> /\ GuestRead)
SerialLiveSpec == SerialSpec /\ SerialFairness

-----------------------------------------------------------------------------
(* Properties.                                                             *)

\* Types of the serial buffer and the input source.
SerialTypeOK ==
    /\ Len(fifo) <= FifoSize /\ typed \in 0..MaxBytes /\ got \in 0..MaxBytes
    /\ {eof, input_reg, ready_reg, buffer_ready, failed} \subseteq BOOLEAN

\* What is typed is read by the guest, also when the FIFO was full and stdin
\* unregistered, unless stdin or the UART fails: the code then gives up the input
\* ("Detached the serial input due to peer close/error").
TypedIsRead == typed > 0 ~> (got = typed \/ failed)
=============================================================================
