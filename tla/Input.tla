------------------------------- MODULE Input -------------------------------
(***************************************************************************)
(* Bytes from the keyboard and from the serial port: the interrupt         *)
(* handlers that store them (device/ps2.rs, device/serial.rs), and the     *)
(* threads that wait for a key in the terminal's read_byte()               *)
(* (device/lfb_terminal.rs).                                               *)
(*                                                                         *)
(* The queues are lock-free, of the crate nolock (external).  A queue has  *)
(* Capacity slots: a byte needs a free one to be enqueued, and dequeuing   *)
(* takes the oldest byte and gives its slot back in a second step.  A      *)
(* reader may be interrupted between the two; a handler, which also        *)
(* dequeues when it finds no free slot, is not interrupted.                *)
(* Bytes are numbered as they are received.                                *)
(* A definition named Bug_... is a plausible mistake in the one after it;  *)
(* only the mutation runs use it.                                          *)
(***************************************************************************)
EXTENDS Integers, Sequences

CONSTANTS
  Capacity,  \* KEYBOARD_BUFFER_CAPACITY, and the capacity given to init()
  Readers,   \* the threads that call sys_read()
  Nobody,    \* the decoder's lock is free
  Fifo,      \* bytes the serial port itself holds
  MaxBytes   \* bound: bytes ever received by each port

\* One slot in a reader's hands must leave another one for the handler.
ASSUME InputAssumption ==
  /\ Capacity \in Nat /\ Capacity >= 2
  /\ Nobody \notin Readers
  /\ Fifo \in Nat /\ MaxBytes \in Nat

VARIABLES
  keyboard,  \* the keyboard's queue
  serial,    \* the serial port's queue
  fifo,      \* bytes that wait in the serial port
  draining,  \* the serial port's handler is in its loop, interrupts are off
  panic,     \* a handler has failed to store a byte
  decoder,   \* who holds the decoder's lock
  pc,        \* how far each reader is in read_byte()
  byte,      \* the byte each reader has dequeued last
  fed        \* the last byte the decoder was given

readVars == <<decoder, pc, byte, fed>>
vars == <<keyboard, serial, fifo, draining, panic, readVars>>

(***************************************************************************)
(* A queue: the bytes in it, its free slots, how many bytes were received  *)
(* and the newest byte that was dropped to make room.                      *)
(***************************************************************************)
EmptyQueue == [buffer |-> <<>>, free |-> Capacity, received |-> 0, dropped |-> 0]

Full(q) == q.free = 0
Empty(q) == q.buffer = <<>>

try_enqueue(q) ==
  [buffer |-> Append(q.buffer, q.received + 1), free |-> q.free - 1,
   received |-> q.received + 1, dropped |-> q.dropped]

\* The two steps of try_dequeue().
TakeByte(q) ==
  [buffer |-> Tail(q.buffer), free |-> q.free, received |-> q.received, dropped |-> q.dropped]
GiveBackSlot(q) ==
  [buffer |-> q.buffer, free |-> q.free + 1, received |-> q.received, dropped |-> q.dropped]

\* A handler dequeues: the byte is lost.
DropOldest(q) ==
  [buffer |-> Tail(q.buffer), free |-> q.free + 1,
   received |-> q.received, dropped |-> Head(q.buffer)]

(***************************************************************************)
(* The loop of a handler that stores one byte: when there is no room, it   *)
(* dequeues the oldest byte and tries again.                               *)
(***************************************************************************)
Store(q) ==
  IF Full(q) THEN try_enqueue(DropOldest(q)) ELSE try_enqueue(q)

\* Nothing to dequeue although there is no room: the handler panics.
CannotStore(q) == Full(q) /\ Empty(q)

Running == ~panic /\ ~draining

Init ==
  /\ keyboard = EmptyQueue /\ serial = EmptyQueue
  /\ fifo = 0 /\ draining = FALSE /\ panic = FALSE
  /\ decoder = Nobody
  /\ pc = [r \in Readers |-> "idle"]
  /\ byte = [r \in Readers |-> 0]
  /\ fed = 0
-----------------------------------------------------------------------------
(* The interrupt handlers *)

\* KeyboardInterruptHandler::trigger(): one byte per interrupt.
keyboard_trigger ==
  /\ Running /\ keyboard.received < MaxBytes
  /\ IF CannotStore(keyboard) THEN panic' = TRUE /\ UNCHANGED keyboard
     ELSE keyboard' = Store(keyboard) /\ UNCHANGED panic
  /\ UNCHANGED <<serial, fifo, draining, readVars>>

\* The serial port receives a byte.
receive ==
  /\ fifo < Fifo /\ serial.received + fifo < MaxBytes
  /\ fifo' = fifo + 1
  /\ UNCHANGED <<keyboard, serial, draining, panic, readVars>>

\* SerialInterruptHandler::trigger() finds an interrupt pending.
serial_trigger ==
  /\ Running /\ fifo > 0
  /\ draining' = TRUE
  /\ UNCHANGED <<keyboard, serial, fifo, panic, readVars>>

\* One turn of its loop over the bytes the port holds.
serial_store ==
  /\ draining /\ ~panic /\ fifo > 0
  /\ fifo' = fifo - 1
  /\ IF CannotStore(serial) THEN panic' = TRUE /\ UNCHANGED serial
     ELSE serial' = Store(serial) /\ UNCHANGED panic
  /\ UNCHANGED <<keyboard, draining, readVars>>

serial_return ==
  /\ draining /\ ~panic /\ fifo = 0
  /\ draining' = FALSE
  /\ UNCHANGED <<keyboard, serial, fifo, panic, readVars>>
-----------------------------------------------------------------------------
(* LFBTerminal::read_byte() *)

sys_read(r) ==
  /\ Running /\ pc[r] = "idle"
  /\ pc' = [pc EXCEPT ![r] = "lock"]
  /\ UNCHANGED <<keyboard, serial, fifo, draining, panic, decoder, byte, fed>>

\* Reads the byte first, as if only decoding it needed the lock.
Bug_ReadsUnlocked(r) ==
  /\ Running /\ pc[r] = "lock"
  /\ pc' = [pc EXCEPT ![r] = "poll"]
  /\ UNCHANGED <<keyboard, serial, fifo, draining, panic, decoder, byte, fed>>

lock_decoder(r) ==
  /\ Running /\ pc[r] = "lock" /\ decoder = Nobody
  /\ decoder' = r
  /\ pc' = [pc EXCEPT ![r] = "poll"]
  /\ UNCHANGED <<keyboard, serial, fifo, draining, panic, byte, fed>>

\* Keyboard::read_byte() polls until try_dequeue() finds a byte.
try_dequeue(r) ==
  /\ Running /\ pc[r] = "poll" /\ ~Empty(keyboard)
  /\ byte' = [byte EXCEPT ![r] = Head(keyboard.buffer)]
  /\ keyboard' = TakeByte(keyboard)
  /\ pc' = [pc EXCEPT ![r] = "taken"]
  /\ UNCHANGED <<serial, fifo, draining, panic, decoder, fed>>

\* The slot is not given back, and the queue shrinks.
Bug_KeepsSlot(r) ==
  /\ Running /\ pc[r] = "taken"
  /\ pc' = [pc EXCEPT ![r] = "decode"]
  /\ UNCHANGED <<keyboard, serial, fifo, draining, panic, decoder, byte, fed>>

give_back(r) ==
  /\ Running /\ pc[r] = "taken"
  /\ keyboard' = GiveBackSlot(keyboard)
  /\ pc' = [pc EXCEPT ![r] = "decode"]
  /\ UNCHANGED <<serial, fifo, draining, panic, decoder, byte, fed>>

\* The lock outlives the turn of the loop.
Bug_KeepsDecoder(r, next) ==
  /\ Running /\ pc[r] = "decode"
  /\ fed' = byte[r]
  /\ pc' = [pc EXCEPT ![r] = next]
  /\ UNCHANGED <<keyboard, serial, fifo, draining, panic, decoder, byte>>

\* The decoder gets the byte and the lock is released, at the end of the turn
\* of the loop when the byte makes no character, or on the way out of it.
add_byte(r, next) ==
  /\ Running /\ pc[r] = "decode"
  /\ fed' = byte[r]
  /\ decoder' = Nobody
  /\ pc' = [pc EXCEPT ![r] = next]
  /\ UNCHANGED <<keyboard, serial, fifo, draining, panic, byte>>
-----------------------------------------------------------------------------
Handlers == keyboard_trigger \/ receive \/ serial_trigger \/ serial_store \/ serial_return

Reader(r) ==
  \/ sys_read(r) \/ lock_decoder(r) \/ try_dequeue(r) \/ give_back(r)
  \/ add_byte(r, "lock") \/ add_byte(r, "idle")

Next == Handlers \/ \E r \in Readers : Reader(r)

Spec == Init /\ [][Next]_vars

\* Handlers run to their end (a port is slower than the loop that empties
\* it), and a thread in the kernel goes on (ReadyRuns
\* of Scheduler); nobody has to type, or to call sys_read().
Fairness ==
  /\ WF_vars(serial_store) /\ WF_vars(serial_return)
  /\ \A r \in Readers :
       WF_vars(try_dequeue(r)) /\ WF_vars(give_back(r))
       /\ WF_vars(add_byte(r, "lock") \/ add_byte(r, "idle"))

FairSpec == Spec /\ Fairness
-----------------------------------------------------------------------------
(* Properties *)

Queue == [buffer : Seq(Nat), free : Nat, received : Nat, dropped : Nat]

TypeOK ==
  /\ keyboard \in Queue /\ serial \in Queue
  /\ fifo \in Nat /\ draining \in BOOLEAN /\ panic \in BOOLEAN
  /\ decoder \in Readers \cup {Nobody}
  /\ pc \in [Readers -> {"idle", "lock", "poll", "taken", "decode"}]
  /\ byte \in [Readers -> Nat] /\ fed \in Nat

\* Whether a reader has a slot of the keyboard's queue.
HeldSlots == IF decoder # Nobody /\ pc[decoder] = "taken" THEN 1 ELSE 0

(***************************************************************************)
(* A handler always finds room: it never meets "Failed to store received   *)
(* byte in buffer!" (ps2.rs:60, serial.rs:208), although a reader may have *)
(* been interrupted with a slot in its hands.  That holds because readers  *)
(* dequeue under the decoder's lock, so that no slot is missing but that   *)
(* of its holder.  Every variable has its type.                            *)
(***************************************************************************)
HandlersStore ==
  /\ TypeOK
  /\ ~panic
  /\ keyboard.free + Len(keyboard.buffer) + HeldSlots = Capacity

(***************************************************************************)
(* What is buffered are the newest bytes, without a gap: only the oldest   *)
(* were dropped.                                                           *)
(***************************************************************************)
Newest(q) ==
  /\ \A i \in 1 .. Len(q.buffer) : q.buffer[i] = q.received - Len(q.buffer) + i
  /\ q.dropped <= q.received - Len(q.buffer)

(***************************************************************************)
(* The decoder, in which the bytes of a key are put together, sees them in *)
(* the order in which they came and none of them twice, whichever readers  *)
(* dequeue them and whatever the handler drops in between                  *)
(* (lfb_terminal.rs:159-166).                                              *)
(***************************************************************************)
BytesInOrder ==
  /\ Newest(keyboard) /\ Newest(serial)
  /\ fed <= keyboard.received - Len(keyboard.buffer)
  /\ \A r \in Readers : pc[r] \in {"taken", "decode"} =>
       fed < byte[r] /\ byte[r] <= keyboard.received - Len(keyboard.buffer)

(***************************************************************************)
(* A reader at the keyboard gets a byte once there is one, even if bytes   *)
(* are dropped meanwhile, and lets go of the decoder so that another       *)
(* reader may have it (lfb_terminal.rs:159-177).                           *)
(***************************************************************************)
ReadersProgress ==
  \A r \in Readers : (pc[r] = "poll" /\ ~Empty(keyboard)) ~> decoder # r

(***************************************************************************)
(* Why both hold: the decoder's lock says who is dequeuing.                *)
(***************************************************************************)
IInv ==
  /\ HandlersStore /\ BytesInOrder
  /\ serial.free + Len(serial.buffer) = Capacity
  /\ \A r \in Readers : decoder = r <=> pc[r] \in {"poll", "taken", "decode"}
=============================================================================
