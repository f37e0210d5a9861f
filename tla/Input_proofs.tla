---------------------------- MODULE Input_proofs ----------------------------
(***************************************************************************)
(* Theorems about Input, for any readers, capacity from two on, and number *)
(* of bytes.                                                               *)
(***************************************************************************)
EXTENDS Input, TLAPS

\* What holds of each queue by itself.
QueueInv(q) == q \in Queue /\ Newest(q)

\* What is left when the oldest byte goes are the newest ones.
LEMMA TailOfNewest ==
  ASSUME NEW q, QueueInv(q), ~Empty(q)
  PROVE  /\ Tail(q.buffer) \in Seq(Nat)
         /\ Len(Tail(q.buffer)) = Len(q.buffer) - 1
         /\ \A i \in 1 .. Len(q.buffer) - 1 :
              Tail(q.buffer)[i] = q.received - (Len(q.buffer) - 1) + i
         /\ Head(q.buffer) = q.received - (Len(q.buffer) - 1)
         /\ Head(q.buffer) \in Nat
         /\ Len(q.buffer) \in Nat \ {0}
<1>1. q.buffer # <<>> /\ q.buffer \in Seq(Nat) /\ Len(q.buffer) \in Nat \ {0}
  BY DEF QueueInv, Queue, Empty
<1>2. /\ Tail(q.buffer) \in Seq(Nat)
      /\ Len(Tail(q.buffer)) = Len(q.buffer) - 1
      /\ \A i \in 1 .. Len(q.buffer) - 1 : Tail(q.buffer)[i] = q.buffer[i + 1]
      /\ Head(q.buffer) = q.buffer[1]
  BY <1>1
<1>3. q.received \in Nat /\ \A i \in 1 .. Len(q.buffer) : q.buffer[i] = q.received - Len(q.buffer) + i
  BY DEF QueueInv, Queue, Newest
<1>4. \A i \in 1 .. Len(q.buffer) - 1 :
        Tail(q.buffer)[i] = q.received - (Len(q.buffer) - 1) + i
  BY <1>1, <1>2, <1>3
<1>5. Head(q.buffer) = q.received - (Len(q.buffer) - 1) /\ Head(q.buffer) \in Nat
  BY <1>1, <1>2, <1>3, SMTT(30)
<1> QED
  BY <1>1, <1>2, <1>4, <1>5

\* try_enqueue() appends the next number.
LEMMA EnqueueKeepsNewest ==
  ASSUME NEW q, QueueInv(q), ~Full(q)
  PROVE  /\ QueueInv(try_enqueue(q))
         /\ Len(try_enqueue(q).buffer) = Len(q.buffer) + 1
         /\ try_enqueue(q).free = q.free - 1
         /\ try_enqueue(q).received = q.received + 1
<1>1. /\ q.buffer \in Seq(Nat) /\ q.received \in Nat /\ q.free \in Nat \ {0}
      /\ q.dropped \in Nat /\ Len(q.buffer) \in Nat
  BY DEF QueueInv, Queue, Full
<1>2. try_enqueue(q).received = q.received + 1 /\ try_enqueue(q).dropped = q.dropped
  BY DEF try_enqueue
<1>3. try_enqueue(q).free = q.free - 1 /\ try_enqueue(q) \in Queue
  BY <1>1 DEF try_enqueue, Queue
<1>4. /\ Len(try_enqueue(q).buffer) = Len(q.buffer) + 1
      /\ \A i \in 1 .. Len(q.buffer) : try_enqueue(q).buffer[i] = q.buffer[i]
      /\ try_enqueue(q).buffer[Len(q.buffer) + 1] = q.received + 1
  BY <1>1 DEF try_enqueue
<1>5. \A i \in 1 .. Len(q.buffer) + 1 :
        try_enqueue(q).buffer[i] = q.received + 1 - (Len(q.buffer) + 1) + i
  <2> SUFFICES ASSUME NEW i \in 1 .. Len(q.buffer) + 1
               PROVE  try_enqueue(q).buffer[i] = q.received + 1 - (Len(q.buffer) + 1) + i
    OBVIOUS
  <2>1. CASE i = Len(q.buffer) + 1
    BY <1>1, <1>4, <2>1
  <2>2. CASE i \in 1 .. Len(q.buffer)
    <3>1. q.buffer[i] = q.received - Len(q.buffer) + i
      BY <2>2 DEF QueueInv, Newest
    <3>2. try_enqueue(q).buffer[i] = q.buffer[i]
      BY <1>4, <2>2
    <3>3. q.received - Len(q.buffer) + i = q.received + 1 - (Len(q.buffer) + 1) + i
      BY <1>1, <2>2
    <3> QED
      BY <3>1, <3>2, <3>3
  <2> QED
    BY <1>1, <2>1, <2>2
<1>6. q.dropped <= q.received + 1 - (Len(q.buffer) + 1)
  BY <1>1 DEF QueueInv, Newest
<1>7. Newest(try_enqueue(q))
  <2>1. \A i \in 1 .. Len(try_enqueue(q).buffer) :
          try_enqueue(q).buffer[i] = try_enqueue(q).received - Len(try_enqueue(q).buffer) + i
    BY <1>1, <1>2, <1>4, <1>5
  <2>2. try_enqueue(q).dropped <= try_enqueue(q).received - Len(try_enqueue(q).buffer)
    BY <1>1, <1>2, <1>4, <1>6
  <2> QED
    BY <2>1, <2>2, Zenon DEF Newest
<1> QED
  BY <1>2, <1>4, <1>7, <1>3 DEF QueueInv

\* Store() keeps the newest bytes, whether or not it has to drop one; the
\* bytes it leaves out are as many as before, or one more.
LEMMA StoreKeepsNewest ==
  ASSUME NEW q, QueueInv(q), ~CannotStore(q)
  PROVE  /\ QueueInv(Store(q))
         /\ Store(q).free + Len(Store(q).buffer) = q.free + Len(q.buffer)
         /\ q.received - Len(q.buffer) <= Store(q).received - Len(Store(q).buffer)
<1>1. CASE ~Full(q)
  <2>1. Store(q) = try_enqueue(q)
    BY <1>1 DEF Store
  <2>2. q.received \in Nat /\ q.free \in Nat /\ Len(q.buffer) \in Nat
    BY DEF QueueInv, Queue
  <2>3. /\ QueueInv(Store(q)) /\ Len(Store(q).buffer) = Len(q.buffer) + 1
        /\ Store(q).free = q.free - 1 /\ Store(q).received = q.received + 1
    BY <1>1, <2>1, EnqueueKeepsNewest
  <2>4. Store(q).free + Len(Store(q).buffer) = q.free + Len(q.buffer)
    BY <2>2, <2>3, SMTT(30)
  <2>5. q.received - Len(q.buffer) <= Store(q).received - Len(Store(q).buffer)
    BY <2>2, <2>3
  <2> QED
    BY <2>3, <2>4, <2>5
<1>2. CASE Full(q)
  <2> DEFINE room == DropOldest(q)
  <2>1. ~Empty(q)
    BY <1>2 DEF CannotStore
  <2>2. /\ Tail(q.buffer) \in Seq(Nat) /\ Len(Tail(q.buffer)) = Len(q.buffer) - 1
        /\ \A i \in 1 .. Len(q.buffer) - 1 :
             Tail(q.buffer)[i] = q.received - (Len(q.buffer) - 1) + i
        /\ Head(q.buffer) = q.received - (Len(q.buffer) - 1) /\ Head(q.buffer) \in Nat
        /\ Len(q.buffer) \in Nat \ {0}
    BY <2>1, TailOfNewest
  <2>3. /\ room.buffer = Tail(q.buffer) /\ room.free = q.free + 1
        /\ room.received = q.received /\ room.dropped = Head(q.buffer)
    BY DEF DropOldest
  <2>4. q.received \in Nat /\ q.free \in Nat
    BY DEF QueueInv, Queue
  <2>5. room \in Queue
    BY <2>2, <2>4 DEF Queue, DropOldest
  <2>6. Newest(room)
    BY <2>2, <2>3, <2>4 DEF Newest
  <2>7. ~Full(room)
    BY <2>3, <2>4 DEF Full
  <2>8. Store(q) = try_enqueue(room)
    BY <1>2 DEF Store
  <2> HIDE DEF room
  <2>9. QueueInv(room)
    BY <2>5, <2>6 DEF QueueInv
  <2>10. /\ QueueInv(Store(q)) /\ Len(Store(q).buffer) = Len(q.buffer)
         /\ Store(q).free = q.free /\ Store(q).received = q.received + 1
    <3>1. /\ QueueInv(Store(q)) /\ Len(Store(q).buffer) = Len(room.buffer) + 1
          /\ Store(q).free = room.free - 1 /\ Store(q).received = room.received + 1
      BY <2>7, <2>8, <2>9, EnqueueKeepsNewest
    <3> QED
      BY <2>2, <2>3, <2>4, <3>1
  <2> QED
    BY <2>2, <2>4, <2>10
<1> QED
  BY <1>1, <1>2
-----------------------------------------------------------------------------
\* Both queues are empty.
LEMMA InitEstablishes == Init => IInv
<1> SUFFICES ASSUME Init PROVE IInv
  OBVIOUS
<1>1. EmptyQueue \in Queue /\ Newest(EmptyQueue) /\ Len(EmptyQueue.buffer) = 0
  BY InputAssumption DEF EmptyQueue, Queue, Newest
<1>2. TypeOK
  BY <1>1 DEF Init, TypeOK
<1> QED
  BY <1>1, <1>2, InputAssumption
     DEF Init, IInv, HandlersStore, BytesInOrder, HeldSlots, EmptyQueue

\* The keyboard's handler, which may come while a reader has a slot.
LEMMA KeyboardStores == IInv /\ keyboard_trigger => IInv'
<1> SUFFICES ASSUME IInv, keyboard_trigger PROVE IInv'
  OBVIOUS
<1> USE DEF IInv, HandlersStore, BytesInOrder
<1>1. QueueInv(keyboard)
  BY DEF TypeOK, QueueInv
<1>2. HeldSlots \in {0, 1} /\ HeldSlots' = HeldSlots
  BY DEF HeldSlots, keyboard_trigger, readVars
<1>3. ~CannotStore(keyboard)
  BY <1>1, <1>2, InputAssumption DEF CannotStore, Full, Empty, QueueInv, Queue
<1>4. keyboard' = Store(keyboard) /\ UNCHANGED <<panic, serial, fifo, draining, readVars>>
  BY <1>3 DEF keyboard_trigger
<1>5. /\ QueueInv(keyboard')
      /\ keyboard'.free + Len(keyboard'.buffer) = keyboard.free + Len(keyboard.buffer)
      /\ keyboard.received - Len(keyboard.buffer) <= keyboard'.received - Len(keyboard'.buffer)
  BY <1>1, <1>3, <1>4, StoreKeepsNewest
<1>6. TypeOK'
  BY <1>4, <1>5 DEF TypeOK, QueueInv, readVars
<1>7. HandlersStore'
  BY <1>2, <1>4, <1>5, <1>6, InputAssumption DEF QueueInv, Queue
<1>8. BytesInOrder'
  <2>1. Newest(keyboard)' /\ Newest(serial)'
    BY <1>4, <1>5 DEF QueueInv, Newest
  <2>2. /\ keyboard.received - Len(keyboard.buffer) \in Int
        /\ keyboard'.received - Len(keyboard'.buffer) \in Int
    BY <1>1, <1>5 DEF QueueInv, Queue
  <2>3. fed' = fed /\ byte' = byte /\ pc' = pc
    BY <1>4 DEF readVars
  <2> QED
    BY <1>5, <2>1, <2>2, <2>3 DEF TypeOK
<1> QED
  BY <1>4, <1>7, <1>8 DEF readVars

\* A turn of the serial port's loop.
LEMMA SerialStores == IInv /\ serial_store => IInv'
<1> SUFFICES ASSUME IInv, serial_store PROVE IInv'
  OBVIOUS
<1> USE DEF IInv, HandlersStore, BytesInOrder
<1>1. QueueInv(serial)
  BY DEF TypeOK, QueueInv
<1>2. ~CannotStore(serial)
  BY <1>1, InputAssumption DEF CannotStore, Full, Empty, QueueInv, Queue
<1>3. /\ serial' = Store(serial) /\ fifo' = fifo - 1 /\ fifo > 0
      /\ UNCHANGED <<panic, keyboard, draining, readVars>>
  BY <1>2 DEF serial_store
<1>4. /\ QueueInv(serial')
      /\ serial'.free + Len(serial'.buffer) = serial.free + Len(serial.buffer)
  BY <1>1, <1>2, <1>3, StoreKeepsNewest
<1>5. TypeOK'
  BY <1>3, <1>4 DEF TypeOK, QueueInv, readVars
<1>6. HandlersStore'
  BY <1>3, <1>5 DEF HeldSlots, readVars
<1>7. BytesInOrder'
  BY <1>3, <1>4 DEF QueueInv, Newest, readVars
<1> QED
  BY <1>3, <1>4, <1>6, <1>7 DEF readVars

\* Steps of the ports that touch no queue.
LEMMA PortsKeep == IInv /\ (receive \/ serial_trigger \/ serial_return) => IInv'
<1> SUFFICES ASSUME IInv, receive \/ serial_trigger \/ serial_return PROVE IInv'
  OBVIOUS
<1>1. /\ UNCHANGED <<keyboard, serial, panic, readVars>>
      /\ fifo' \in Nat /\ draining' \in BOOLEAN
  <2>1. fifo \in Nat /\ draining \in BOOLEAN
    BY DEF IInv, HandlersStore, TypeOK
  <2>2. CASE receive
    BY <2>1, <2>2 DEF receive
  <2>3. CASE serial_trigger
    BY <2>1, <2>3 DEF serial_trigger
  <2>4. CASE serial_return
    BY <2>1, <2>4 DEF serial_return
  <2> QED
    BY <2>2, <2>3, <2>4
<1> QED
  BY <1>1 DEF IInv, HandlersStore, BytesInOrder, TypeOK, HeldSlots, Newest, readVars

\* The steps of read_byte(), by the holder of the decoder or on the way to it.
LEMMA ReaderKeeps ==
  ASSUME NEW r \in Readers, IInv, Reader(r) PROVE IInv'
<1> USE DEF IInv, HandlersStore, BytesInOrder
<1>1. QueueInv(keyboard) /\ r # Nobody /\ pc[r] \in {"idle", "lock", "poll", "taken", "decode"}
  BY InputAssumption DEF TypeOK, QueueInv
<1>2. CASE sys_read(r)
  <2>1. /\ pc[r] = "idle" /\ pc' = [pc EXCEPT ![r] = "lock"]
        /\ UNCHANGED <<keyboard, serial, fifo, draining, panic, decoder, byte, fed>>
    BY <1>2 DEF sys_read
  <2>2. TypeOK' /\ HeldSlots' = HeldSlots
    BY <1>1, <2>1 DEF TypeOK, HeldSlots
  <2>3. \A s \in Readers : s # r => pc'[s] = pc[s]
    BY <2>1 DEF TypeOK
  <2>4. pc'[r] = "lock"
    BY <2>1 DEF TypeOK
  <2> QED
    BY <2>1, <2>2, <2>3, <2>4 DEF Newest
<1>3. CASE lock_decoder(r)
  <2>1. /\ pc[r] = "lock" /\ decoder = Nobody /\ decoder' = r
        /\ pc' = [pc EXCEPT ![r] = "poll"]
        /\ UNCHANGED <<keyboard, serial, fifo, draining, panic, byte, fed>>
    BY <1>3 DEF lock_decoder
  <2>2. \A s \in Readers : s # r => pc'[s] = pc[s]
    BY <2>1 DEF TypeOK
  <2>3. pc'[r] = "poll"
    BY <2>1 DEF TypeOK
  <2>4. TypeOK' /\ HeldSlots' = HeldSlots
    BY <1>1, <2>1, <2>3 DEF TypeOK, HeldSlots
  <2>5. HandlersStore'
    BY <2>1, <2>4
  <2>6. BytesInOrder'
    BY <2>1, <2>2, <2>3 DEF Newest
  <2> QED
    BY <1>1, <2>1, <2>2, <2>3, <2>5, <2>6, InputAssumption
<1>4. CASE try_dequeue(r)
  <2>1. /\ decoder = r /\ HeldSlots = 0 /\ keyboard' = TakeByte(keyboard) /\ ~Empty(keyboard)
        /\ byte' = [byte EXCEPT ![r] = Head(keyboard.buffer)]
        /\ pc' = [pc EXCEPT ![r] = "taken"]
        /\ UNCHANGED <<serial, fifo, draining, panic, decoder, fed>>
    BY <1>1, <1>4 DEF try_dequeue, HeldSlots
  <2>2. HeldSlots' = 1
    BY <1>1, <2>1 DEF HeldSlots, TypeOK
  <2>3. /\ Tail(keyboard.buffer) \in Seq(Nat)
        /\ Len(Tail(keyboard.buffer)) = Len(keyboard.buffer) - 1
        /\ \A i \in 1 .. Len(keyboard.buffer) - 1 :
             Tail(keyboard.buffer)[i] = keyboard.received - (Len(keyboard.buffer) - 1) + i
        /\ Head(keyboard.buffer) = keyboard.received - (Len(keyboard.buffer) - 1)
        /\ Head(keyboard.buffer) \in Nat
        /\ Len(keyboard.buffer) \in Nat \ {0}
    BY <1>1, <2>1, TailOfNewest
  <2>4. /\ keyboard.received \in Nat /\ keyboard.free \in Nat /\ fed \in Nat
        /\ keyboard.dropped \in Nat
        /\ keyboard.dropped <= keyboard.received - Len(keyboard.buffer)
    BY DEF TypeOK, Queue, Newest
  <2>5. /\ keyboard'.buffer = Tail(keyboard.buffer) /\ keyboard'.free = keyboard.free
         /\ keyboard'.received = keyboard.received /\ keyboard'.dropped = keyboard.dropped
         /\ keyboard' \in Queue
    BY <2>1, <2>3, <2>4 DEF TakeByte, Queue
  <2>6. Newest(keyboard')
    BY <2>3, <2>4, <2>5, SMTT(30) DEF Newest
  <2>7. TypeOK'
    BY <2>1, <2>3, <2>5 DEF TypeOK
  <2>8. HandlersStore'
    BY <2>1, <2>2, <2>3, <2>7, <2>4, <2>5, InputAssumption
  <2>9. \A s \in Readers : s # r => pc[s] \notin {"taken", "decode"} /\ pc'[s] = pc[s]
    BY <2>1 DEF TypeOK
  <2>10. BytesInOrder'
    <3>1. byte'[r] = Head(keyboard.buffer)
      BY <2>1 DEF TypeOK
    <3>2. Newest(keyboard)' /\ Newest(serial)'
      BY <2>1, <2>6 DEF Newest
    <3>3. fed' <= keyboard'.received - Len(keyboard'.buffer)
      BY <2>1, <2>3, <2>4, <2>5
    <3>4. fed' < byte'[r] /\ byte'[r] <= keyboard'.received - Len(keyboard'.buffer)
      BY <2>1, <2>3, <2>4, <2>5, <3>1, SMTT(30)
    <3> QED
      BY <2>9, <3>2, <3>3, <3>4
  <2> QED
    BY <2>1, <2>8, <2>10 DEF TypeOK
<1>5. CASE give_back(r)
  <2>1. /\ decoder = r /\ HeldSlots = 1 /\ keyboard' = GiveBackSlot(keyboard)
        /\ pc' = [pc EXCEPT ![r] = "decode"]
        /\ UNCHANGED <<serial, fifo, draining, panic, decoder, byte, fed>>
    BY <1>1, <1>5 DEF give_back, HeldSlots
  <2>2. keyboard' = [buffer |-> keyboard.buffer, free |-> keyboard.free + 1,
                     received |-> keyboard.received, dropped |-> keyboard.dropped]
    BY <2>1 DEF GiveBackSlot
  <2>3. TypeOK' /\ HeldSlots' = 0
    BY <1>1, <2>1, <2>2, SMTT(30) DEF TypeOK, Queue, HeldSlots
  <2>4. HandlersStore'
    BY <2>1, <2>2, <2>3, InputAssumption, SMTT(30) DEF TypeOK, Queue
  <2>5. /\ keyboard'.buffer = keyboard.buffer /\ keyboard'.received = keyboard.received
        /\ keyboard'.dropped = keyboard.dropped
    BY <2>2
  <2>6. \A s \in Readers : pc'[s] \in {"taken", "decode"} => pc[s] \in {"taken", "decode"}
    BY <1>5, <2>1 DEF give_back, TypeOK
  <2>7. Newest(keyboard)' /\ Newest(serial)'
    BY <2>1, <2>5 DEF Newest
  <2>8. BytesInOrder'
    BY <2>1, <2>5, <2>6, <2>7
  <2> QED
    BY <2>1, <2>4, <2>8 DEF TypeOK
<1>6. CASE \E next \in {"lock", "idle"} : add_byte(r, next)
  <2>1. PICK next \in {"lock", "idle"} : add_byte(r, next)
    BY <1>6
  <2>2. /\ decoder = r /\ HeldSlots = 0 /\ fed' = byte[r] /\ decoder' = Nobody
        /\ pc' = [pc EXCEPT ![r] = next]
        /\ UNCHANGED <<keyboard, serial, fifo, draining, panic, byte>>
    BY <1>1, <2>1 DEF add_byte, HeldSlots
  <2>3. TypeOK' /\ HeldSlots' = 0
    BY <2>2 DEF TypeOK, HeldSlots
  <2>4. \A s \in Readers : pc'[s] \notin {"poll", "taken", "decode"}
    BY <2>2 DEF TypeOK
  <2>5. fed' <= keyboard'.received - Len(keyboard'.buffer)
    BY <2>1, <2>2 DEF add_byte
  <2> QED
    BY <2>2, <2>3, <2>4, <2>5, InputAssumption DEF Newest, TypeOK
<1> QED
  BY <1>2, <1>3, <1>4, <1>5, <1>6 DEF Reader

\* Every step preserves the inductive invariant.
LEMMA StepKeeps == IInv /\ [Next]_vars => IInv'
<1> SUFFICES ASSUME IInv, [Next]_vars PROVE IInv'
  OBVIOUS
<1>1. CASE Handlers
  BY <1>1, KeyboardStores, SerialStores, PortsKeep DEF Handlers
<1>2. CASE \E r \in Readers : Reader(r)
  BY <1>2, ReaderKeeps
<1>3. CASE UNCHANGED vars
  BY <1>3 DEF vars, readVars, IInv, HandlersStore, BytesInOrder, TypeOK, HeldSlots, Newest
<1> QED
  BY <1>1, <1>2, <1>3 DEF Next

\* The interrupt handlers of the keyboard and the serial port never fail to
\* store a byte, however many readers are interrupted wherever.
THEOREM HandlersNeverPanic == Spec => []HandlersStore
<1>1. IInv => HandlersStore
  BY DEF IInv
<1> QED
  BY <1>1, InitEstablishes, StepKeeps, PTL DEF Spec

\* The terminal's decoder gets the bytes in the order in which they came.
THEOREM DecoderSeesOrder == Spec => []BytesInOrder
<1>1. IInv => BytesInOrder
  BY DEF IInv
<1> QED
  BY <1>1, InitEstablishes, StepKeeps, PTL DEF Spec
=============================================================================
