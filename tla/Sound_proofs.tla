---------------------------- MODULE Sound_proofs ----------------------------
(***************************************************************************)
(* Theorems about the sound driver and the PCI bus, for every machine,     *)
(* whatever its bridges, codecs and answers are, and for every timeout.    *)
(***************************************************************************)
EXTENDS Sound, FiniteSetTheorems, NaturalsInduction, SequenceTheorems, TLAPS

(***************************************************************************)
(* Immediate commands.  AnswersMatchCommands needs to know where the       *)
(* driver is while a command is in flight: the busy bit is set only while  *)
(* it waits for the result, and the result valid bit it has read is the    *)
(* one it writes back, since a card that is not busy sets none.            *)
(***************************************************************************)
\* A bit the card confirms, and the records of the model.
BitType == [written : BOOLEAN, reads : BOOLEAN]
CardFields == {"crst", "interrupts", "corbrun", "corbrprst", "corb", "wp", "rp", "rirbrun", "rirb",
               "responses", "dpib", "icoi", "icii", "busy", "valid", "answered"}
DriverFields == {"at", "devices", "op", "stage", "read", "old_valid", "waited", "stream", "bdl",
                 "filled", "todo"}

\* The records keep their fields.
Shapes ==
    /\ card = [f \in CardFields |-> card[f]]
    /\ driver = [f \in DriverFields |-> driver[f]]
    /\ card.busy \in BOOLEAN /\ card.valid \in BOOLEAN
    /\ driver.at \in {"sdctl_read", "sdctl_write"} =>
           driver.op \in {"clear_run", "set_srst", "clear_srst", "set_id", "run"}

InCommand == driver.at \in {"icsts_read", "icsts_write", "icsts_wait", "answer"}

CommandInFlight ==
    /\ Shapes
    /\ card.busy => driver.at = "icsts_wait" /\ ~card.valid
    /\ InCommand => card.icoi = as_u32(Head(driver.todo))
    /\ driver.at = "icsts_write" => driver.old_valid = card.valid
    /\ driver.at \in {"icsts_wait", "answer"} /\ card.valid => card.answered = card.icoi
    /\ driver.at = "answer" => card.valid

\* No command has been sent, and the firmware has none in flight.
LEMMA CommandInit == Init => CommandInFlight
<1> SUFFICES ASSUME Init PROVE CommandInFlight
  OBVIOUS
<1>1. card = [f \in CardFields |-> card[f]] /\ card.busy = FALSE /\ card.valid \in BOOLEAN
  <2>1. CASE card = ResetCard
    BY <2>1 DEF ResetCard, CardFields
  <2>2. CASE card = UsedCard
    BY <2>2 DEF UsedCard, ResetCard, CardFields
  <2> QED
    BY <2>1, <2>2 DEF Init
<1>2. driver = [f \in DriverFields |-> driver[f]] /\ driver.at = "pci"
  BY DEF Init, DriverFields
<1> QED
  BY <1>1, <1>2 DEF CommandInFlight, Shapes, InCommand

\* The card answers the command in flight and no other.
LEMMA CommandCard == CommandInFlight /\ Card => CommandInFlight'
<1> SUFFICES ASSUME CommandInFlight, Card PROVE CommandInFlight'
  OBVIOUS
<1>1. CASE AckCrst
  BY <1>1 DEF CommandInFlight, Shapes, CardFields, InCommand, AckCrst
<1>2. CASE AckCorbrun
  BY <1>2 DEF CommandInFlight, Shapes, CardFields, InCommand, AckCorbrun
<1>3. CASE AckCorbrprst
  BY <1>3 DEF CommandInFlight, Shapes, CardFields, InCommand, AckCorbrprst
<1>4. CASE AckSrst
  BY <1>4 DEF CommandInFlight, Shapes, CardFields, InCommand, AckSrst
<1>5. CASE FetchCommand
  BY <1>5 DEF CommandInFlight, Shapes, CardFields, InCommand, FetchCommand
<1>6. CASE AnswerCommand
  BY <1>6 DEF CommandInFlight, Shapes, CardFields, InCommand, AnswerCommand
<1>7. CASE CompleteBuffer
  BY <1>7 DEF CommandInFlight, Shapes, CardFields, InCommand, CompleteBuffer
<1> QED
  BY <1>1, <1>2, <1>3, <1>4, <1>5, <1>6, <1>7 DEF Card

\* The driver collects the answer before it sends the next command.
LEMMA CommandDriver == CommandInFlight /\ Driver => CommandInFlight'
<1> SUFFICES ASSUME CommandInFlight, Driver PROVE CommandInFlight'
  OBVIOUS
<1> USE DEF CommandInFlight, Shapes, CardFields, DriverFields, InCommand, At, Goto, Sdctl, Panic
<1>1. CASE init_pci
  BY <1>1 DEF init_pci
<1>2. CASE find_ihda_device
  BY <1>2 DEF find_ihda_device
<1>3. CASE connect_device_to_apic
  BY <1>3 DEF connect_device_to_apic
<1>4. CASE reset
  BY <1>4 DEF reset
<1>5. CASE configure
  BY <1>5 DEF configure
<1>6. CASE stop_corb_dma
  BY <1>6 DEF stop_corb_dma
<1>7. CASE init_corb
  <2>1. CASE machine.corbsize = 256
    <3>1. PICK frame, ranges : frame = NextFrame(dma) /\ ranges = Allocated(dma, "corb", 2)
      OBVIOUS
    <3>2. /\ card' = [card EXCEPT !.corb = frame, !.wp = 0, !.corbrprst.written = TRUE]
          /\ driver' = [driver EXCEPT !.at = "corbrp_wait", !.waited = 0]
          /\ driver.at = "stop_corb_wait"
      BY <1>7, <2>1, <3>1 DEF init_corb
    <3> QED
      BY <3>2
  <2>2. CASE machine.corbsize # 256
    BY <1>7, <2>2, ZenonT(40) DEF init_corb
  <2> QED
    BY <2>1, <2>2
<1>8. CASE init_rirb
  BY <1>8 DEF init_rirb
<1>9. CASE start_corb
  BY <1>9 DEF start_corb
<1>10. CASE start_rirb
  BY <1>10 DEF start_rirb
<1>11. CASE test_corb_and_rirb
  BY <1>11 DEF test_corb_and_rirb
<1>12. CASE CheckResponses
  BY <1>12 DEF CheckResponses
<1>13. CASE Stream_new
  BY <1>13 DEF Stream_new
<1>14. CASE sdctl_read
  BY <1>14 DEF sdctl_read
<1>15. CASE sdctl_write
  <2>1. driver.op \in {"clear_run", "set_srst", "clear_srst", "set_id", "run"} /\ card' = card
    BY <1>15 DEF sdctl_write
  <2>2. /\ driver' = [f \in DriverFields |-> driver'[f]]
        /\ driver'.at \in {"sdctl_read", "srst_wait", "srst_clear_wait", "fill", "test_dma", "done"}
        /\ driver'.at = "sdctl_read" => driver'.op \in {"set_srst", "run"}
    BY <1>15, <2>1 DEF sdctl_write, AfterSdctl
  <2> QED
    BY <2>1, <2>2, <1>15 DEF sdctl_write
<1>16. CASE srst_is_set
  BY <1>16 DEF srst_is_set
<1>17. CASE srst_is_clear
  BY <1>17 DEF srst_is_clear
<1>18. CASE configure_sd
  BY <1>18 DEF configure_sd
<1>19. CASE test_dma_position_buffer
  BY <1>19 DEF test_dma_position_buffer
<1>20. CASE write_command_to_icoi
  BY <1>20 DEF write_command_to_icoi
<1>21. CASE icsts_read
  BY <1>21 DEF icsts_read
<1>22. CASE set_immediate_command_busy_bit
  BY <1>22 DEF set_immediate_command_busy_bit, result_valid_after_write
<1>23. CASE result_is_valid
  BY <1>23 DEF result_is_valid
<1>24. CASE read_response_from_icii
  BY <1>24 DEF read_response_from_icii
<1>25. CASE CommandsDone
  BY <1>25 DEF CommandsDone
<1>26. CASE demo_bachelor_presentation
  BY <1>26 DEF demo_bachelor_presentation
<1>27. CASE configure_codec_for_line_out_playback
  BY <1>27 DEF configure_codec_for_line_out_playback
<1>28. CASE TimeOut
  BY <1>28 DEF TimeOut
<1> QED
  BY <1>1, <1>2, <1>3, <1>4, <1>5, <1>6, <1>7, <1>8, <1>9, <1>10, <1>11, <1>12, <1>13, <1>14,
     <1>15, <1>16, <1>17, <1>18, <1>19, <1>20, <1>21, <1>22, <1>23, <1>24, <1>25, <1>26, <1>27, <1>28 DEF Driver

\* Waiting changes nothing, nor does standing still.
LEMMA CommandTick == CommandInFlight /\ (Tick \/ UNCHANGED vars) => CommandInFlight'
BY DEF CommandInFlight, Shapes, CardFields, DriverFields, InCommand, Tick, vars

\* The response immediate_command() decodes is the codec's response to that command, on every
\* machine and whatever the firmware has left in the result registers.
THEOREM ResponsesMatchCommands == Spec => []AnswersMatchCommands
<1>1. CommandInFlight /\ [Next]_vars => CommandInFlight'
  BY CommandCard, CommandDriver, CommandTick DEF Next
<1>2. CommandInFlight => AnswersMatchCommands
  BY DEF CommandInFlight, InCommand, AnswersMatchCommands
<1> QED
  BY <1>1, <1>2, CommandInit, PTL DEF Spec

(***************************************************************************)
(* The engine.  set_bdl_pointer_address() and its like never panic because *)
(* the run bit is clear from reset_stream() on: clear_stream_run_bit()     *)
(* clears it, and what later accesses write back was read after that.      *)
(***************************************************************************)
SdFields == {"run", "srst", "sts", "id", "fmt", "bdl", "cbl", "lvi"}
Reasons == {"", "pci", "device", "vector", "corbsize", "test", "answer", "no codec", "codec", "path",
            "timeout"}
Ids == 0..15

\* Between clear_stream_run_bit() and set_stream_run_bit().
StoppedBy(op) == op \in {"set_srst", "clear_srst", "set_id"}
Reprogramming ==
    \/ driver.at \in {"srst_wait", "srst_clear_wait", "configure_sd"}
    \/ driver.at \in {"sdctl_read", "sdctl_write"} /\ StoppedBy(driver.op)

EngineStops ==
    /\ Shapes
    /\ sd = [f \in SdFields |-> sd[f]]
    /\ sd.run \in BOOLEAN /\ driver.read.run \in BOOLEAN
    /\ panic \in Reasons
    /\ Reprogramming => ~sd.run
    /\ driver.at = "sdctl_write" /\ StoppedBy(driver.op) => ~driver.read.run

\* The firmware may have left the engine running.
LEMMA EngineInit == Init => EngineStops
<1> SUFFICES ASSUME Init PROVE EngineStops
  OBVIOUS
<1>1. sd = [f \in SdFields |-> sd[f]] /\ sd.run \in BOOLEAN
  <2>1. CASE sd = ResetDescriptor
    BY <2>1 DEF ResetDescriptor, SdFields
  <2>2. CASE sd = UsedDescriptor
    BY <2>2 DEF UsedDescriptor, ResetDescriptor, SdFields
  <2> QED
    BY <2>1, <2>2 DEF Init
<1>2. driver.read = sd /\ driver.at = "pci"
  BY DEF Init
<1>3. Shapes /\ panic = ""
  BY CommandInit DEF Init, CommandInFlight
<1> QED
  BY <1>1, <1>2, <1>3 DEF EngineStops, Reprogramming, Reasons

\* Entering reset leaves the run bit alone.
LEMMA EngineCard == EngineStops /\ Shapes' /\ Card => EngineStops'
<1> SUFFICES ASSUME EngineStops, Shapes', Card PROVE EngineStops'
  OBVIOUS
<1> USE DEF EngineStops, SdFields, Reprogramming
<1>1. CASE AckCrst
  BY <1>1 DEF AckCrst
<1>2. CASE AckCorbrun
  BY <1>2 DEF AckCorbrun
<1>3. CASE AckCorbrprst
  BY <1>3 DEF AckCorbrprst
<1>4. CASE AckSrst
  BY <1>4 DEF AckSrst, ResetDescriptor, Bit
<1>5. CASE FetchCommand
  BY <1>5 DEF FetchCommand
<1>6. CASE AnswerCommand
  BY <1>6 DEF AnswerCommand
<1>7. CASE CompleteBuffer
  BY <1>7 DEF CompleteBuffer
<1> QED
  BY <1>1, <1>2, <1>3, <1>4, <1>5, <1>6, <1>7 DEF Card

\* Only the last access of a stream sets the run bit.
LEMMA EngineDriver == EngineStops /\ Shapes' /\ Driver => EngineStops'
<1> SUFFICES ASSUME EngineStops, Shapes', Driver PROVE EngineStops'
  OBVIOUS
<1> USE DEF EngineStops, Shapes, SdFields, DriverFields, Reprogramming, StoppedBy, Reasons, At, Goto,
            Sdctl, Panic
<1>1. CASE init_pci
  BY <1>1 DEF init_pci
<1>2. CASE find_ihda_device
  BY <1>2 DEF find_ihda_device
<1>3. CASE connect_device_to_apic
  BY <1>3 DEF connect_device_to_apic
<1>4. CASE reset
  BY <1>4 DEF reset
<1>5. CASE configure
  BY <1>5 DEF configure
<1>6. CASE stop_corb_dma
  BY <1>6 DEF stop_corb_dma
<1>7. CASE init_corb
  BY <1>7, ZenonT(40) DEF init_corb
<1>8. CASE init_rirb
  BY <1>8 DEF init_rirb
<1>9. CASE start_corb
  BY <1>9 DEF start_corb
<1>10. CASE start_rirb
  BY <1>10 DEF start_rirb
<1>11. CASE test_corb_and_rirb
  BY <1>11 DEF test_corb_and_rirb
<1>12. CASE CheckResponses
  BY <1>12 DEF CheckResponses
<1>13. CASE Stream_new
  BY <1>13 DEF Stream_new
<1>14. CASE sdctl_read
  BY <1>14 DEF sdctl_read
<1>15. CASE sdctl_write
  BY <1>15, ZenonT(40) DEF sdctl_write, AfterSdctl, stream_run_bit
<1>16. CASE srst_is_set
  BY <1>16 DEF srst_is_set
<1>17. CASE srst_is_clear
  BY <1>17 DEF srst_is_clear
<1>18. CASE configure_sd
  BY <1>18 DEF configure_sd
<1>19. CASE test_dma_position_buffer
  BY <1>19 DEF test_dma_position_buffer
<1>20. CASE write_command_to_icoi
  BY <1>20 DEF write_command_to_icoi
<1>21. CASE icsts_read
  BY <1>21 DEF icsts_read
<1>22. CASE set_immediate_command_busy_bit
  BY <1>22 DEF set_immediate_command_busy_bit
<1>23. CASE result_is_valid
  BY <1>23 DEF result_is_valid
<1>24. CASE read_response_from_icii
  BY <1>24 DEF read_response_from_icii
<1>25. CASE CommandsDone
  BY <1>25 DEF CommandsDone
<1>26. CASE demo_bachelor_presentation
  BY <1>26 DEF demo_bachelor_presentation
<1>27. CASE configure_codec_for_line_out_playback
  BY <1>27 DEF configure_codec_for_line_out_playback
<1>28. CASE TimeOut
  BY <1>28 DEF TimeOut
<1> QED
  BY <1>1, <1>2, <1>3, <1>4, <1>5, <1>6, <1>7, <1>8, <1>9, <1>10, <1>11, <1>12, <1>13, <1>14,
     <1>15, <1>16, <1>17, <1>18, <1>19, <1>20, <1>21, <1>22, <1>23, <1>24, <1>25, <1>26, <1>27, <1>28 DEF Driver

\* Waiting changes nothing but the time.
LEMMA EngineTick == EngineStops /\ Shapes' /\ (Tick \/ UNCHANGED vars) => EngineStops'
BY DEF EngineStops, Shapes, SdFields, DriverFields, Reprogramming, Tick, vars

(***************************************************************************)
(* The registers and the local variables of the driver have their types.   *)
(***************************************************************************)
\* The streams the kernel plays.
Streams == {TestStream, DemoStream}
Waits == 0 .. Timeout + 1
Positions == 0..2

\* The write pointer is 0 from init_corb() until the test writes two commands.
CorbEmpty == driver.at \in {"corbrp_wait", "start_corb", "start_corb_wait", "test_corb"}

Registers ==
    /\ Shapes
    /\ sd = [f \in SdFields |-> sd[f]]
    /\ machine \in Machines
    /\ sd.id \in Ids /\ driver.read.id \in Ids /\ sd.sts \subseteq {"BCIS"}
    /\ driver.stream \in Streams
    /\ driver.waited \in Waits
    /\ card.wp \in Positions /\ card.rp \in Positions
    /\ CorbEmpty => card.wp = 0

\* What the steps need to know of the numbers.
LEMMA Numbers ==
  /\ 0 \in Waits /\ 0 \in Positions /\ 0 + 2 \in Positions /\ 1 \in Positions
  /\ 0 \in Ids /\ 1 \in Ids /\ 2 \in Ids
  /\ \A w \in Waits : w <= Timeout => w + 1 \in Waits
  /\ \A r, w \in Positions : r < w => r + 1 \in Positions
  /\ TestStream \in Streams /\ DemoStream \in Streams
  /\ \A s \in Streams : s.id \in Ids
BY SoundAssumption DEF Waits, Positions, Ids, Streams, TestStream, DemoStream

\* The firmware leaves registers of the types they have.
LEMMA RegistersInit == Init => Registers
<1> SUFFICES ASSUME Init PROVE Registers
  OBVIOUS
<1>1. sd = [f \in SdFields |-> sd[f]] /\ sd.id \in Ids /\ sd.sts \subseteq {"BCIS"}
  <2>1. CASE sd = ResetDescriptor
    BY <2>1, Numbers DEF ResetDescriptor, SdFields
  <2>2. CASE sd = UsedDescriptor
    BY <2>2, Numbers DEF UsedDescriptor, ResetDescriptor, SdFields
  <2> QED
    BY <2>1, <2>2 DEF Init
<1>2. card.wp \in Positions /\ card.rp \in Positions
  <2>1. CASE card = ResetCard
    BY <2>1, Numbers DEF ResetCard
  <2>2. CASE card = UsedCard
    BY <2>2, Numbers DEF UsedCard, ResetCard
  <2> QED
    BY <2>1, <2>2 DEF Init
<1>3. /\ driver.read = sd /\ driver.at = "pci" /\ driver.waited = 0 /\ driver.stream = TestStream
      /\ machine \in Machines
  BY DEF Init
<1>4. Shapes
  BY CommandInit DEF CommandInFlight
<1> QED
  BY <1>1, <1>2, <1>3, <1>4, Numbers DEF Registers, CorbEmpty

\* The card changes what it may.
LEMMA RegistersCard == Registers /\ Shapes' /\ Card => Registers'
<1> SUFFICES ASSUME Registers, Shapes', Card PROVE Registers'
  OBVIOUS
<1> USE DEF Registers, Shapes, CardFields, SdFields, CorbEmpty
<1>1. CASE AckCrst
  BY <1>1, Numbers DEF AckCrst
<1>2. CASE AckCorbrun
  BY <1>2, Numbers DEF AckCorbrun
<1>3. CASE AckCorbrprst
  BY <1>3, Numbers DEF AckCorbrprst
<1>4. CASE AckSrst
  BY <1>4, Numbers DEF AckSrst, ResetDescriptor, Bit
<1>5. CASE FetchCommand
  BY <1>5, Numbers DEF FetchCommand
<1>6. CASE AnswerCommand
  BY <1>6, Numbers DEF AnswerCommand
<1>7. CASE CompleteBuffer
  BY <1>7, Numbers DEF CompleteBuffer
<1> QED
  BY <1>1, <1>2, <1>3, <1>4, <1>5, <1>6, <1>7 DEF Card

\* The driver writes numbers that fit.
LEMMA RegistersDriver == Registers /\ EngineStops /\ Shapes' /\ Driver => Registers'
<1> SUFFICES ASSUME Registers, EngineStops, Shapes', Driver PROVE Registers'
  OBVIOUS
<1> USE DEF Registers, Shapes, CardFields, SdFields, DriverFields, CorbEmpty, At, Goto, Sdctl, Panic
<1>1. CASE init_pci
  BY <1>1, Numbers, ZenonT(40) DEF init_pci
<1>2. CASE find_ihda_device
  BY <1>2, Numbers, ZenonT(40) DEF find_ihda_device
<1>3. CASE connect_device_to_apic
  BY <1>3, Numbers, ZenonT(40) DEF connect_device_to_apic
<1>4. CASE reset
  BY <1>4, Numbers DEF reset
<1>5. CASE configure
  BY <1>5, Numbers DEF configure
<1>6. CASE stop_corb_dma
  BY <1>6, Numbers DEF stop_corb_dma
<1>7. CASE init_corb
  <2>1. CASE machine.corbsize = 256
    <3>1. PICK frame, ranges : frame = NextFrame(dma) /\ ranges = Allocated(dma, "corb", 2)
      OBVIOUS
    <3>2. /\ card' = [card EXCEPT !.corb = frame, !.wp = 0, !.corbrprst.written = TRUE]
          /\ driver' = [driver EXCEPT !.at = "corbrp_wait", !.waited = 0]
          /\ UNCHANGED <<machine, sd>>
      BY <1>7, <2>1, <3>1 DEF init_corb
    <3> QED
      BY <3>2, Numbers
  <2>2. CASE machine.corbsize # 256
    <3>1. UNCHANGED <<machine, card, sd, driver>>
      BY <1>7, <2>2 DEF init_corb
    <3> QED
      BY <3>1
  <2> QED
    BY <2>1, <2>2
<1>8. CASE init_rirb
  BY <1>8, Numbers, ZenonT(40) DEF init_rirb
<1>9. CASE start_corb
  BY <1>9, Numbers DEF start_corb
<1>10. CASE start_rirb
  BY <1>10, Numbers DEF start_rirb
<1>11. CASE test_corb_and_rirb
  BY <1>11, Numbers DEF test_corb_and_rirb
<1>12. CASE CheckResponses
  BY <1>12, Numbers, ZenonT(40) DEF CheckResponses
<1>13. CASE Stream_new
  BY <1>13, Numbers DEF Stream_new
<1>14. CASE sdctl_read
  BY <1>14, Numbers DEF sdctl_read
<1>15. CASE sdctl_write
  <2>1. driver.op \in {"clear_run", "set_srst", "clear_srst", "set_id", "run"}
    BY <1>15 DEF sdctl_write
  <2>2. /\ driver'.read = driver.read /\ driver'.stream = driver.stream /\ driver'.waited = 0
        /\ driver'.at \in {"sdctl_read", "srst_wait", "srst_clear_wait", "fill", "test_dma", "done"}
    BY <1>15, <2>1 DEF sdctl_write, AfterSdctl
  <2>3. /\ sd' = [f \in SdFields |-> sd'[f]] /\ sd'.sts \subseteq sd.sts
        /\ sd'.id \in {driver.stream.id, driver.read.id}
    BY <1>15 DEF sdctl_write
  <2>4. sd'.id \in Ids
    BY <2>3, Numbers
  <2>5. card' = card /\ machine' = machine
    BY <1>15 DEF sdctl_write
  <2> QED
    BY <2>2, <2>3, <2>4, <2>5, Numbers
<1>16. CASE srst_is_set
  BY <1>16, Numbers DEF srst_is_set
<1>17. CASE srst_is_clear
  BY <1>17, Numbers DEF srst_is_clear
<1>18. CASE configure_sd
  BY <1>18, Numbers, ZenonT(40) DEF configure_sd
<1>19. CASE test_dma_position_buffer
  BY <1>19, Numbers, ZenonT(40) DEF test_dma_position_buffer
<1>20. CASE write_command_to_icoi
  BY <1>20, Numbers DEF write_command_to_icoi
<1>21. CASE icsts_read
  BY <1>21, Numbers DEF icsts_read
<1>22. CASE set_immediate_command_busy_bit
  BY <1>22, Numbers DEF set_immediate_command_busy_bit
<1>23. CASE result_is_valid
  BY <1>23, Numbers DEF result_is_valid
<1>24. CASE read_response_from_icii
  BY <1>24, Numbers, ZenonT(40) DEF read_response_from_icii
<1>25. CASE CommandsDone
  BY <1>25, Numbers DEF CommandsDone
<1>26. CASE demo_bachelor_presentation
  BY <1>26, Numbers DEF demo_bachelor_presentation
<1>27. CASE configure_codec_for_line_out_playback
  BY <1>27, Numbers, ZenonT(40) DEF configure_codec_for_line_out_playback
<1>28. CASE TimeOut
  BY <1>28, Numbers DEF TimeOut
<1> QED
  BY <1>1, <1>2, <1>3, <1>4, <1>5, <1>6, <1>7, <1>8, <1>9, <1>10, <1>11, <1>12, <1>13, <1>14,
     <1>15, <1>16, <1>17, <1>18, <1>19, <1>20, <1>21, <1>22, <1>23, <1>24, <1>25, <1>26, <1>27, <1>28 DEF Driver

\* Time stops at the timeout.
LEMMA RegistersTick == Registers /\ Shapes' /\ (Tick \/ UNCHANGED vars) => Registers'
BY Numbers, ZenonT(40) DEF Registers, Shapes, SdFields, DriverFields, CorbEmpty, Tick, vars

(***************************************************************************)
(* Buffers.  A list of buffers is written before the descriptor points to  *)
(* it, in a frame of its own, and never after; and the descriptor gets its *)
(* address, its length and its last index together, or loses them all.     *)
(***************************************************************************)
DmaUses == {"corb", "rirb", "positions", "buffer", "bdl"}
DmaRanges == [use : DmaUses, first : Nat \ {0}, count : Nat]

\* The list at an address describes the buffers of a stream.
ListOf(bdl, stream) ==
    /\ bdl \in DOMAIN memory
    /\ \E i \in DOMAIN dma :
           /\ dma[i].use = "buffer" /\ dma[i].count = stream.buffers * stream.pages
           /\ memory[bdl] = CyclicBuffer(stream, dma[i].first * PAGE_SIZE)

\* The registers agree with the list of a stream.
ProgrammedFor(stream) ==
    /\ ListOf(sd.bdl, stream)
    /\ sd.cbl = stream.buffers * ((stream.pages * PAGE_SIZE) \div 8)
    /\ sd.lvi = stream.buffers - 1

\* Stream::new() has written the list and has not told the descriptor yet.
Configuring ==
    \/ driver.at = "configure_sd"
    \/ /\ driver.stage # "test_done"
       /\ \/ driver.at \in {"srst_wait", "srst_clear_wait"}
          \/ /\ driver.at \in {"sdctl_read", "sdctl_write"}
             /\ driver.op \in {"clear_run", "set_srst", "clear_srst"}

Keys == 1 .. NextFrame(dma) * PAGE_SIZE - 1

Buffers ==
    /\ dma \in Seq(DmaRanges)
    /\ DOMAIN memory \subseteq Keys
    /\ sd.bdl = 0 \/ \E stream \in Streams : ProgrammedFor(stream)
    /\ Configuring => ListOf(driver.bdl, driver.stream)

\* The next frame comes after all the others.
LEMMA FramesGrow ==
  ASSUME NEW d \in Seq(DmaRanges), NEW use \in DmaUses, NEW count \in Nat
  PROVE  /\ NextFrame(d) \in Nat \ {0}
         /\ Allocated(d, use, count) \in Seq(DmaRanges)
         /\ NextFrame(Allocated(d, use, count)) = NextFrame(d) + count
         /\ Len(d) + 1 \in DOMAIN Allocated(d, use, count)
         /\ Allocated(d, use, count)[Len(d) + 1] = [use |-> use, first |-> NextFrame(d), count |-> count]
<1>1. NextFrame(d) \in Nat \ {0}
  <2>1. CASE d = <<>>
    BY <2>1 DEF NextFrame
  <2>2. CASE d # <<>>
    <3>1. Len(d) \in 1 .. Len(d)
      BY <2>2
    <3>2. d[Len(d)] \in DmaRanges
      BY <3>1
    <3>3. d[Len(d)].first \in Nat \ {0} /\ d[Len(d)].count \in Nat
      BY <3>2 DEF DmaRanges
    <3> QED
      BY <2>2, <3>3 DEF NextFrame, Last
  <2> QED
    BY <2>1, <2>2
<1>2. PICK r : r = [use |-> use, first |-> NextFrame(d), count |-> count]
  OBVIOUS
<1>3. r \in DmaRanges /\ r.first = NextFrame(d) /\ r.count = count
  BY <1>1, <1>2 DEF DmaRanges
<1>4. Allocated(d, use, count) = Append(d, r)
  BY <1>2 DEF Allocated
<1>5. /\ Append(d, r) \in Seq(DmaRanges) /\ Len(Append(d, r)) = Len(d) + 1
      /\ Append(d, r)[Len(d) + 1] = r
      /\ \A i \in 1 .. Len(d) : Append(d, r)[i] = d[i]
  BY <1>3, AppendProperties
<1>6. Append(d, r) # <<>> /\ NextFrame(Append(d, r)) = NextFrame(d) + count
  <2>1. Len(d) \in Nat
    BY LenProperties
  <2>2. Append(d, r) # <<>>
    BY <1>5, <2>1
  <2> QED
    BY <2>2, <1>3, <1>5 DEF NextFrame, Last
<1>7. DOMAIN d = 1 .. Len(d) /\ DOMAIN Append(d, r) = 1 .. Len(d) + 1 /\ Len(d) \in Nat
  BY <1>5, LenProperties
<1> QED
  BY <1>1, <1>2, <1>4, <1>5, <1>6, <1>7

\* An allocation adds a range and keeps the others.
LEMMA RangesStay ==
  ASSUME NEW d \in Seq(DmaRanges), NEW use, NEW count, NEW i \in DOMAIN d
  PROVE  i \in DOMAIN Allocated(d, use, count) /\ Allocated(d, use, count)[i] = d[i]
<1>1. PICK r : r = [use |-> use, first |-> NextFrame(d), count |-> count]
  OBVIOUS
<1>2. Allocated(d, use, count) = Append(d, r)
  BY <1>1 DEF Allocated
<1>3. i \in DOMAIN Append(d, r) /\ Append(d, r)[i] = d[i]
  OBVIOUS
<1> QED
  BY <1>2, <1>3, Zenon

\* Lists outlive whatever is allocated and written later.
LEMMA ListsStay ==
  ASSUME \A i \in DOMAIN dma : i \in DOMAIN dma' /\ dma'[i] = dma[i],
         \A b \in DOMAIN memory : b \in DOMAIN memory' /\ memory'[b] = memory[b],
         NEW bdl, NEW stream, ListOf(bdl, stream)
  PROVE  ListOf(bdl, stream)'
BY DEF ListOf

\* A step that allocates at most, and leaves the descriptor and the lists alone.
Elsewhere ==
    /\ sd'.bdl = sd.bdl /\ sd'.cbl = sd.cbl /\ sd'.lvi = sd.lvi
    /\ memory' = memory
    /\ \/ dma' = dma
       \/ \E use \in DmaUses, count \in Nat : dma' = Allocated(dma, use, count)
    /\ Configuring' => Configuring /\ driver'.bdl = driver.bdl /\ driver'.stream = driver.stream

\* Such a step keeps the lists and what the descriptor says of them.
LEMMA ElsewhereKeeps == Buffers /\ Elsewhere => Buffers'
<1> SUFFICES ASSUME Buffers, Elsewhere PROVE Buffers'
  OBVIOUS
<1>1. /\ dma' \in Seq(DmaRanges) /\ NextFrame(dma) \in Nat /\ NextFrame(dma') \in Nat
      /\ NextFrame(dma) <= NextFrame(dma')
      /\ \A i \in DOMAIN dma : i \in DOMAIN dma' /\ dma'[i] = dma[i]
  <2>1. CASE dma' = dma
    <3>1. "corb" \in DmaUses /\ 0 \in Nat
      BY DEF DmaUses
    <3>2. NextFrame(dma) \in Nat
      BY <3>1, FramesGrow DEF Buffers
    <3> QED
      BY <2>1, <3>2 DEF Buffers
  <2>2. CASE \E use \in DmaUses, count \in Nat : dma' = Allocated(dma, use, count)
    <3>1. PICK use \in DmaUses, count \in Nat : dma' = Allocated(dma, use, count)
      BY <2>2
    <3>2. dma \in Seq(DmaRanges)
      BY DEF Buffers
    <3>3. PICK e : e = dma
      OBVIOUS
    <3>4. PICK d : d = Allocated(e, use, count)
      OBVIOUS
    <3>5. e \in Seq(DmaRanges)
      BY <3>2, <3>3
    <3>6. NextFrame(e) \in Nat \ {0}
      BY <3>5, FramesGrow
    <3>7. d \in Seq(DmaRanges)
      BY <3>5, <3>4, FramesGrow
    <3>8. NextFrame(d) = NextFrame(e) + count
      BY <3>5, <3>4, FramesGrow
    <3>9. \A i \in DOMAIN e : i \in DOMAIN d /\ d[i] = e[i]
      <4>1. \A i \in DOMAIN e : /\ i \in DOMAIN Allocated(e, use, count)
                               /\ Allocated(e, use, count)[i] = e[i]
        BY <3>5, RangesStay
      <4> QED
        BY <4>1, <3>4, Zenon
    <3>10. dma' = d
      BY <3>1, <3>3, <3>4
    <3>11. NextFrame(dma') = NextFrame(d) /\ NextFrame(dma) = NextFrame(e)
      BY <3>3, <3>10
    <3> QED
      BY <3>3, <3>6, <3>7, <3>8, <3>9, <3>10, <3>11
  <2> QED
    BY <2>1, <2>2 DEF Elsewhere
<1>2. Keys \subseteq Keys'
  BY <1>1 DEF Keys, PAGE_SIZE
<1>3. DOMAIN memory' \subseteq Keys'
  BY <1>2 DEF Buffers, Elsewhere
<1>4. \A b, s : ListOf(b, s) => ListOf(b, s)'
  BY <1>1, ListsStay DEF Elsewhere
<1>5. sd'.bdl = 0 \/ \E stream \in Streams : ProgrammedFor(stream)'
  BY <1>4 DEF Buffers, Elsewhere, ProgrammedFor
<1>6. Configuring' => ListOf(driver.bdl, driver.stream)'
  BY <1>4 DEF Buffers, Elsewhere, ListOf
<1> QED
  BY <1>1, <1>3, <1>5, <1>6 DEF Buffers

\* At first there is no list, and the descriptor points to none of the driver's.
LEMMA BuffersInit == Init => Buffers
<1> SUFFICES ASSUME Init PROVE Buffers
  OBVIOUS
<1>1. sd.bdl = 0
  <2>1. CASE sd = ResetDescriptor
    BY <2>1 DEF ResetDescriptor
  <2>2. CASE sd = UsedDescriptor
    BY <2>2 DEF UsedDescriptor, ResetDescriptor
  <2> QED
    BY <2>1, <2>2 DEF Init
<1>2. dma = <<>> /\ memory = <<>> /\ driver.at = "pci"
  BY DEF Init
<1> QED
  BY <1>1, <1>2 DEF Buffers, Configuring

\* Entering reset takes the address away together with the rest.
LEMMA BuffersCard == Buffers /\ EngineStops /\ Card => Buffers'
<1> SUFFICES ASSUME Buffers, EngineStops, Card PROVE Buffers'
  OBVIOUS
<1> USE DEF EngineStops, Elsewhere, Configuring
<1>1. CASE AckCrst
  <2>1. Elsewhere
    BY <1>1 DEF AckCrst
  <2> QED
    BY <2>1, ElsewhereKeeps
<1>2. CASE AckCorbrun
  <2>1. Elsewhere
    BY <1>2 DEF AckCorbrun
  <2> QED
    BY <2>1, ElsewhereKeeps
<1>3. CASE AckCorbrprst
  <2>1. Elsewhere
    BY <1>3 DEF AckCorbrprst
  <2> QED
    BY <2>1, ElsewhereKeeps
<1>4. CASE AckSrst
  <2>1. dma' = dma /\ memory' = memory /\ driver' = driver
    BY <1>4 DEF AckSrst
  <2>2. CASE sd.srst.written
    <3>1. sd'.bdl = 0
      BY <1>4, <2>2 DEF AckSrst, ResetDescriptor
    <3> QED
      BY <2>1, <3>1 DEF Buffers, Keys, ListOf
  <2>3. CASE ~sd.srst.written
    <3>1. sd'.bdl = sd.bdl /\ sd'.cbl = sd.cbl /\ sd'.lvi = sd.lvi
      BY <1>4, <2>3 DEF AckSrst, SdFields
    <3> QED
      BY <2>1, <3>1, ElsewhereKeeps
  <2> QED
    BY <2>2, <2>3
<1>5. CASE FetchCommand
  <2>1. Elsewhere
    BY <1>5 DEF FetchCommand
  <2> QED
    BY <2>1, ElsewhereKeeps
<1>6. CASE AnswerCommand
  <2>1. Elsewhere
    BY <1>6 DEF AnswerCommand
  <2> QED
    BY <2>1, ElsewhereKeeps
<1>7. CASE CompleteBuffer
  <2>1. Elsewhere
    BY <1>7 DEF CompleteBuffer, SdFields
  <2> QED
    BY <2>1, ElsewhereKeeps
<1> QED
  BY <1>1, <1>2, <1>3, <1>4, <1>5, <1>6, <1>7 DEF Card

\* What the driver allocates.
LEMMA Allocations ==
  /\ {"corb", "rirb", "positions", "buffer", "bdl"} \subseteq DmaUses
  /\ {1, 2, 4} \subseteq Nat
  /\ \A s \in Streams : s.buffers * s.pages \in Nat
BY DEF DmaUses, Streams, TestStream, DemoStream

\* Stream::new() writes the list into a frame of its own.
LEMMA NewList == Buffers /\ Registers /\ Stream_new => Buffers'
<1> SUFFICES ASSUME Buffers, Registers, Stream_new PROVE Buffers'
  OBVIOUS
<1>1. PICK stream : stream = driver.stream
  OBVIOUS
<1>2. PICK n : n = stream.buffers * stream.pages
  OBVIOUS
<1>3. stream \in Streams /\ n \in Nat
  BY <1>1, <1>2, Allocations DEF Registers
<1>4. PICK d0 : d0 = dma
  OBVIOUS
<1>5. PICK d1 : d1 = Allocated(d0, "buffer", n)
  OBVIOUS
<1>6. PICK d2 : d2 = Allocated(d1, "bdl", 1)
  OBVIOUS
<1>7. PICK bdl : bdl = NextFrame(d1) * PAGE_SIZE
  OBVIOUS
<1>8. PICK list : list = CyclicBuffer(stream, NextFrame(d0) * PAGE_SIZE)
  OBVIOUS
<1>9. /\ dma' = d2 /\ memory' = Put(memory, bdl, list) /\ sd' = sd
      /\ driver' = [driver EXCEPT !.at = "sdctl_read", !.op = "clear_run", !.waited = 0, !.bdl = bdl]
  BY <1>1, <1>2, <1>4, <1>5, <1>6, <1>7, <1>8 DEF Stream_new, Sdctl
<1>10. driver'.bdl = bdl /\ driver'.stream = stream
  BY <1>1, <1>9 DEF Registers, Shapes, DriverFields
<1>11. d0 \in Seq(DmaRanges)
  BY <1>4 DEF Buffers
<1>12. "buffer" \in DmaUses /\ "bdl" \in DmaUses /\ 1 \in Nat
  BY Allocations
<1>13. /\ NextFrame(d0) \in Nat \ {0} /\ d1 \in Seq(DmaRanges) /\ NextFrame(d1) = NextFrame(d0) + n
       /\ Len(d0) + 1 \in DOMAIN d1
  BY <1>3, <1>5, <1>11, <1>12, FramesGrow
<1>14. PICK r : r = [use |-> "buffer", first |-> NextFrame(d0), count |-> n]
  OBVIOUS
<1>15. d1[Len(d0) + 1] = r
  <2>1. Allocated(d0, "buffer", n)[Len(d0) + 1] = [use |-> "buffer", first |-> NextFrame(d0), count |-> n]
    BY <1>3, <1>11, <1>12, FramesGrow, Zenon
  <2> QED
    BY <2>1, <1>5, <1>14, Zenon
<1>16. d2 \in Seq(DmaRanges) /\ NextFrame(d2) = NextFrame(d1) + 1
  BY <1>6, <1>12, <1>13, FramesGrow
<1>17. \A i \in DOMAIN d0 : i \in DOMAIN d1 /\ d1[i] = d0[i]
  BY <1>5, <1>11, RangesStay, Zenon
<1>18. \A i \in DOMAIN d1 : i \in DOMAIN d2 /\ d2[i] = d1[i]
  <2>1. d1 \in Seq(DmaRanges)
    BY <1>13
  <2> QED
    BY <2>1, <1>6, RangesStay, ZenonT(30)
<1>19. NextFrame(dma') = NextFrame(d2) /\ NextFrame(dma) = NextFrame(d0)
  BY <1>4, <1>9
<1>20. bdl \in Nat /\ bdl >= NextFrame(dma) * PAGE_SIZE /\ bdl \in Keys'
  BY <1>3, <1>7, <1>13, <1>16, <1>19 DEF Keys, PAGE_SIZE
<1>21. bdl \notin DOMAIN memory /\ Keys \subseteq Keys'
  BY <1>3, <1>13, <1>16, <1>19, <1>20 DEF Buffers, Keys, PAGE_SIZE
<1>22. /\ DOMAIN memory' = {bdl} \cup DOMAIN memory
       /\ memory'[bdl] = list
       /\ \A b \in DOMAIN memory : memory'[b] = memory[b]
  <2>1. /\ DOMAIN Put(memory, bdl, list) = {bdl} \cup DOMAIN memory
        /\ Put(memory, bdl, list)[bdl] = list
        /\ \A b \in DOMAIN memory : b # bdl => Put(memory, bdl, list)[b] = memory[b]
    BY DEF Put
  <2> QED
    BY <2>1, <1>9, <1>21, Zenon
<1>23. DOMAIN memory' \subseteq Keys'
  BY <1>20, <1>21, <1>22 DEF Buffers
<1>24. \A i \in DOMAIN dma : i \in DOMAIN dma' /\ dma'[i] = dma[i]
  BY <1>4, <1>9, <1>17, <1>18
<1>25. sd'.bdl = 0 \/ \E s \in Streams : ProgrammedFor(s)'
  <2>1. \A b, s : ListOf(b, s) => ListOf(b, s)'
    BY <1>22, <1>24, ListsStay
  <2> QED
    BY <2>1, <1>9 DEF Buffers, ProgrammedFor
<1>26. ListOf(bdl, stream)'
  <2>1. Len(d0) + 1 \in DOMAIN dma' /\ dma'[Len(d0) + 1] = r
    BY <1>9, <1>13, <1>15, <1>18
  <2>2. r.use = "buffer" /\ r.count = n /\ r.first = NextFrame(d0)
    BY <1>14
  <2>3. bdl \in DOMAIN memory' /\ memory'[bdl] = CyclicBuffer(stream, r.first * PAGE_SIZE)
    BY <1>8, <1>22, <2>2
  <2> QED
    BY <2>1, <2>2, <2>3, <1>2 DEF ListOf
<1>27. ListOf(driver.bdl, driver.stream)'
  BY <1>10, <1>26 DEF ListOf
<1> QED
  BY <1>9, <1>16, <1>23, <1>25, <1>27 DEF Buffers

\* The descriptor gets the address, the length and the last index of one list.
LEMMA DescriptorProgrammed == Buffers /\ Registers /\ EngineStops /\ configure_sd => Buffers'
<1> SUFFICES ASSUME Buffers, Registers, EngineStops, configure_sd PROVE Buffers'
  OBVIOUS
<1>1. ~sd.run /\ driver.at = "configure_sd" /\ dma' = dma /\ memory' = memory
  BY DEF EngineStops, Reprogramming, configure_sd, At
<1>2. PICK s : s = driver.stream
  OBVIOUS
<1>3. s \in Streams /\ ListOf(driver.bdl, s)
  BY <1>1, <1>2 DEF Buffers, Configuring, Registers
<1>4. PICK length : length = s.buffers * ((s.pages * PAGE_SIZE) \div 8)
  OBVIOUS
<1>5. PICK index : index = s.buffers - 1
  OBVIOUS
<1>6. sd'.bdl = driver.bdl /\ sd'.lvi = index /\ sd'.cbl = length
  BY <1>1, <1>2, <1>4, <1>5 DEF configure_sd, EngineStops, SdFields
<1>7. driver'.at = "sdctl_read" /\ driver'.op = "set_id"
  BY <1>1 DEF configure_sd, Sdctl, Registers, Shapes, DriverFields
<1>8. ~Configuring'
  BY <1>7 DEF Configuring
<1>9. ListOf(sd.bdl, s)'
  BY <1>1, <1>3, <1>6 DEF ListOf
<1>10. ProgrammedFor(s)'
  BY <1>4, <1>5, <1>6, <1>9 DEF ProgrammedFor
<1>11. Keys' = Keys
  BY <1>1 DEF Keys
<1> QED
  BY <1>1, <1>3, <1>8, <1>10, <1>11 DEF Buffers

\* All other steps of the driver leave lists and descriptor alone.
LEMMA BuffersDriver == Buffers /\ Registers /\ EngineStops /\ Driver => Buffers'
<1> SUFFICES ASSUME Buffers, Registers, EngineStops, Driver PROVE Buffers'
  OBVIOUS
<1>1. CASE init_pci
  <2>1. Elsewhere
    BY <1>1, Allocations DEF init_pci, Elsewhere, Registers, Shapes, DriverFields,
       Configuring, At, Goto, Sdctl, Panic
  <2> QED
    BY <2>1, ElsewhereKeeps
<1>2. CASE find_ihda_device
  <2>1. Elsewhere
    BY <1>2, Allocations DEF find_ihda_device, Elsewhere, Registers, Shapes, DriverFields,
       Configuring, At, Goto, Sdctl, Panic
  <2> QED
    BY <2>1, ElsewhereKeeps
<1>3. CASE connect_device_to_apic
  <2>1. Elsewhere
    BY <1>3, Allocations DEF connect_device_to_apic, Elsewhere, Registers, Shapes, DriverFields,
       Configuring, At, Goto, Sdctl, Panic
  <2> QED
    BY <2>1, ElsewhereKeeps
<1>4. CASE reset
  <2>1. Elsewhere
    BY <1>4, Allocations DEF reset, Elsewhere, Registers, Shapes, DriverFields,
       Configuring, At, Goto, Sdctl, Panic
  <2> QED
    BY <2>1, ElsewhereKeeps
<1>5. CASE configure
  <2>1. Elsewhere
    BY <1>5, Allocations DEF configure, Elsewhere, Registers, Shapes, DriverFields,
       Configuring, At, Goto, Sdctl, Panic
  <2> QED
    BY <2>1, ElsewhereKeeps
<1>6. CASE stop_corb_dma
  <2>1. Elsewhere
    BY <1>6, Allocations DEF stop_corb_dma, Elsewhere, Registers, Shapes, DriverFields,
       Configuring, At, Goto, Sdctl, Panic
  <2> QED
    BY <2>1, ElsewhereKeeps
<1>7. CASE init_corb
  <2>1. /\ dma' = dma \/ dma' = Allocated(dma, "corb", 2)
        /\ sd' = sd /\ memory' = memory
        /\ driver' = driver \/ driver' = Goto("corbrp_wait")
    BY <1>7 DEF init_corb, Panic
  <2>2. "corb" \in DmaUses /\ 2 \in Nat
    BY Allocations
  <2>3. Configuring' => Configuring /\ driver' = driver
    BY <2>1 DEF Registers, Shapes, DriverFields, Configuring, Goto
  <2>4. Elsewhere
    BY <2>1, <2>2, <2>3 DEF Elsewhere
  <2> QED
    BY <2>4, ElsewhereKeeps
<1>8. CASE init_rirb
  <2>1. Elsewhere
    BY <1>8, Allocations DEF init_rirb, Elsewhere, Registers, Shapes, DriverFields,
       Configuring, At, Goto, Sdctl, Panic
  <2> QED
    BY <2>1, ElsewhereKeeps
<1>9. CASE start_corb
  <2>1. Elsewhere
    BY <1>9, Allocations DEF start_corb, Elsewhere, Registers, Shapes, DriverFields,
       Configuring, At, Goto, Sdctl, Panic
  <2> QED
    BY <2>1, ElsewhereKeeps
<1>10. CASE start_rirb
  <2>1. Elsewhere
    BY <1>10, Allocations DEF start_rirb, Elsewhere, Registers, Shapes, DriverFields,
       Configuring, At, Goto, Sdctl, Panic
  <2> QED
    BY <2>1, ElsewhereKeeps
<1>11. CASE test_corb_and_rirb
  <2>1. Elsewhere
    BY <1>11, Allocations DEF test_corb_and_rirb, Elsewhere, Registers, Shapes, DriverFields,
       Configuring, At, Goto, Sdctl, Panic
  <2> QED
    BY <2>1, ElsewhereKeeps
<1>12. CASE CheckResponses
  <2>1. /\ dma' = dma \/ dma' = Allocated(dma, "positions", 1)
        /\ sd' = sd /\ memory' = memory
        /\ driver' = driver \/ driver' = Goto("new_stream")
    BY <1>12 DEF CheckResponses, Panic
  <2>2. "positions" \in DmaUses /\ 1 \in Nat
    BY Allocations
  <2>3. Configuring' => Configuring /\ driver' = driver
    BY <2>1 DEF Registers, Shapes, DriverFields, Configuring, Goto
  <2>4. Elsewhere
    BY <2>1, <2>2, <2>3 DEF Elsewhere
  <2> QED
    BY <2>4, ElsewhereKeeps
<1>13. CASE Stream_new
  BY <1>13, NewList
<1>14. CASE sdctl_read
  <2>1. Elsewhere
    BY <1>14, Allocations DEF sdctl_read, Elsewhere, Registers, Shapes, DriverFields,
       Configuring, At, Goto, Sdctl, Panic
  <2> QED
    BY <2>1, ElsewhereKeeps
<1>15. CASE sdctl_write
  <2>1. driver.op \in {"clear_run", "set_srst", "clear_srst", "set_id", "run"}
    BY <1>15 DEF sdctl_write, Registers, Shapes, At
  <2>2. driver'.bdl = driver.bdl /\ driver'.stream = driver.stream /\ (Configuring' => Configuring)
    BY <1>15, <2>1 DEF sdctl_write, AfterSdctl, Registers, Shapes, DriverFields, Configuring, At, Goto, Sdctl
  <2>3. /\ sd'.bdl = sd.bdl /\ sd'.cbl = sd.cbl /\ sd'.lvi = sd.lvi
        /\ memory' = memory /\ dma' = dma
    BY <1>15 DEF sdctl_write, Registers, SdFields
  <2>4. Elsewhere
    BY <2>2, <2>3 DEF Elsewhere
  <2> QED
    BY <2>4, ElsewhereKeeps
<1>16. CASE srst_is_set
  <2>1. Elsewhere
    BY <1>16, Allocations DEF srst_is_set, Elsewhere, Registers, Shapes, DriverFields,
       Configuring, At, Goto, Sdctl, Panic
  <2> QED
    BY <2>1, ElsewhereKeeps
<1>17. CASE srst_is_clear
  <2>1. Elsewhere
    BY <1>17, Allocations DEF srst_is_clear, Elsewhere, Registers, Shapes, DriverFields,
       Configuring, At, Goto, Sdctl, Panic
  <2> QED
    BY <2>1, ElsewhereKeeps
<1>18. CASE configure_sd
  BY <1>18, DescriptorProgrammed
<1>19. CASE test_dma_position_buffer
  <2>1. Elsewhere
    BY <1>19, Allocations DEF test_dma_position_buffer, Elsewhere, Registers, Shapes, DriverFields,
       Configuring, At, Goto, Sdctl, Panic
  <2> QED
    BY <2>1, ElsewhereKeeps
<1>20. CASE write_command_to_icoi
  <2>1. Elsewhere
    BY <1>20, Allocations DEF write_command_to_icoi, Elsewhere, Registers, Shapes, DriverFields,
       Configuring, At, Goto, Sdctl, Panic
  <2> QED
    BY <2>1, ElsewhereKeeps
<1>21. CASE icsts_read
  <2>1. Elsewhere
    BY <1>21, Allocations DEF icsts_read, Elsewhere, Registers, Shapes, DriverFields,
       Configuring, At, Goto, Sdctl, Panic
  <2> QED
    BY <2>1, ElsewhereKeeps
<1>22. CASE set_immediate_command_busy_bit
  <2>1. Elsewhere
    BY <1>22, Allocations DEF set_immediate_command_busy_bit, Elsewhere, Registers, Shapes, DriverFields,
       Configuring, At, Goto, Sdctl, Panic
  <2> QED
    BY <2>1, ElsewhereKeeps
<1>23. CASE result_is_valid
  <2>1. Elsewhere
    BY <1>23, Allocations DEF result_is_valid, Elsewhere, Registers, Shapes, DriverFields,
       Configuring, At, Goto, Sdctl, Panic
  <2> QED
    BY <2>1, ElsewhereKeeps
<1>24. CASE read_response_from_icii
  <2>1. Elsewhere
    BY <1>24, Allocations DEF read_response_from_icii, Elsewhere, Registers, Shapes, DriverFields,
       Configuring, At, Goto, Sdctl, Panic
  <2> QED
    BY <2>1, ElsewhereKeeps
<1>25. CASE CommandsDone
  <2>1. Elsewhere
    BY <1>25, Allocations DEF CommandsDone, Elsewhere, Registers, Shapes, DriverFields,
       Configuring, At, Goto, Sdctl, Panic
  <2> QED
    BY <2>1, ElsewhereKeeps
<1>26. CASE demo_bachelor_presentation
  <2>1. Elsewhere
    BY <1>26, Allocations DEF demo_bachelor_presentation, Elsewhere, Registers, Shapes, DriverFields,
       Configuring, At, Goto, Sdctl, Panic
  <2> QED
    BY <2>1, ElsewhereKeeps
<1>27. CASE configure_codec_for_line_out_playback
  <2>1. Elsewhere
    BY <1>27, Allocations DEF configure_codec_for_line_out_playback, Elsewhere, Registers, Shapes, DriverFields,
       Configuring, At, Goto, Sdctl, Panic
  <2> QED
    BY <2>1, ElsewhereKeeps
<1>28. CASE TimeOut
  <2>1. Elsewhere
    BY <1>28, Allocations DEF TimeOut, Elsewhere, Registers, Shapes, DriverFields,
       Configuring, At, Goto, Sdctl, Panic
  <2> QED
    BY <2>1, ElsewhereKeeps
<1> QED
  BY <1>1, <1>2, <1>3, <1>4, <1>5, <1>6, <1>7, <1>8, <1>9, <1>10, <1>11, <1>12, <1>13, <1>14,
     <1>15, <1>16, <1>17, <1>18, <1>19, <1>20, <1>21, <1>22, <1>23, <1>24, <1>25, <1>26, <1>27, <1>28 DEF Driver

\* Waiting allocates nothing.
LEMMA BuffersTick == Buffers /\ Registers /\ (Tick \/ UNCHANGED vars) => Buffers'
<1> SUFFICES ASSUME Buffers, Registers, Tick \/ UNCHANGED vars PROVE Buffers'
  OBVIOUS
<1>1. Elsewhere
  BY DEF Elsewhere, Registers, Shapes, DriverFields, Configuring, Tick, vars
<1> QED
  BY <1>1, ElsewhereKeeps

(***************************************************************************)
(* Recursion.  A function that is defined by what it is at b and by what   *)
(* it is at r from what it is at r - 1 exists, and has the values one      *)
(* expects.                                                                *)
(***************************************************************************)
\* A set of numbers has a least one.
LEMMA LeastNumber ==
  ASSUME NEW A \in SUBSET Nat, A # {}
  PROVE  \E m \in A : \A a \in A : ~(a < m)
<1>1. PICK m \in A : \A a \in A : ~(<<a, m>> \in OpToRel(<, Nat))
  BY WFMin, NatLessThanWellFounded, Zenon
<1>2. ASSUME NEW a \in Nat, NEW b \in Nat, a < b PROVE <<a, b>> \in OpToRel(<, Nat)
  <2>1. <<a, b>> \in Nat \X Nat /\ <<a, b>>[1] < <<a, b>>[2]
    BY <1>2
  <2> QED
    BY <2>1, Zenon DEF OpToRel
<1> QED
  BY <1>1, <1>2, Zenon

\* Min() is that number.
LEMMA MinIsLeast ==
  ASSUME NEW A \in SUBSET Nat, A # {}
  PROVE  Min(A) \in A /\ \A a \in A : Min(A) <= a
<1>1. PICK m \in A : \A a \in A : ~(a < m)
  BY LeastNumber
<1>2. \A a \in A : m <= a
  BY <1>1
<1> QED
  BY <1>2, Zenon DEF Min

\* h starts with s and makes the steps F, as long as its values are in S.
Steps(h, S, s, F, b, n) ==
    h[b] = s /\ \A r \in b + 1 .. n : h[r - 1] \in S => h[r] = F[r][h[r - 1]]

\* The values stay in S.
LEMMA StepsStay ==
  ASSUME NEW S, NEW s \in S, NEW b \in Nat, NEW n \in Nat, NEW F \in [b + 1 .. n -> [S -> S]],
         NEW h, Steps(h, S, s, F, b, n)
  PROVE  \A r \in b .. n : h[r] \in S
<1> DEFINE A == {r \in b .. n : h[r] \notin S}
<1>1. SUFFICES ASSUME A # {} PROVE FALSE
  OBVIOUS
<1>2. A \in SUBSET Nat
  OBVIOUS
<1>3. PICK m \in A : \A a \in A : ~(a < m)
  BY <1>1, <1>2, LeastNumber
<1>4. m \in b .. n /\ h[m] \notin S
  OBVIOUS
<1>5. m # b
  BY <1>4 DEF Steps
<1>6. m - 1 \in b .. n /\ m \in b + 1 .. n /\ m - 1 < m
  BY <1>4, <1>5
<1>7. h[m - 1] \in S
  BY <1>3, <1>6
<1>8. F[m] \in [S -> S]
  BY <1>6
<1>9. F[m][h[m - 1]] \in S
  BY <1>7, <1>8
<1> QED
  BY <1>4, <1>6, <1>7, <1>9 DEF Steps

\* h is defined by the steps.
Defined(h, s, F, b, n) == h = [r \in b .. n |-> IF r = b THEN s ELSE F[r][h[r - 1]]]

\* There is such a function.
LEMMA StepsExist ==
  ASSUME NEW s, NEW b \in Nat, NEW n \in Nat, NEW F, b <= n
  PROVE  \E h : Defined(h, s, F, b, n)
<1> DEFINE A == {k \in b .. n : ~\E h : Defined(h, s, F, b, k)}
<1>1. SUFFICES ASSUME A # {} PROVE FALSE
  OBVIOUS
<1>2. A \in SUBSET Nat
  OBVIOUS
<1>3. PICK m \in A : \A a \in A : ~(a < m)
  BY <1>1, <1>2, LeastNumber
<1>4. m \in b .. n /\ ~\E h : Defined(h, s, F, b, m)
  OBVIOUS
<1>5. CASE m = b
  <2>1. PICK h : h = [r \in b .. b |-> s]
    OBVIOUS
  <2>2. h = [r \in b .. b |-> IF r = b THEN s ELSE F[r][h[r - 1]]]
    BY <2>1
  <2> QED
    BY <1>4, <1>5, <2>2 DEF Defined
<1>6. CASE m # b
  <2>1. m - 1 \in b .. n /\ m - 1 < m /\ m \in Nat
    BY <1>4, <1>6
  <2>2. PICK g : Defined(g, s, F, b, m - 1)
    BY <1>3, <2>1
  <2>3. \A r \in b .. m - 1 : g[r] = IF r = b THEN s ELSE F[r][g[r - 1]]
    BY <2>2 DEF Defined
  <2>4. PICK h : h = [r \in b .. m |-> IF r < m THEN g[r] ELSE F[m][g[m - 1]]]
    OBVIOUS
  <2>5. ASSUME NEW r \in b .. m PROVE h[r] = IF r = b THEN s ELSE F[r][h[r - 1]]
    <3>1. CASE r = m
      <4>1. h[m - 1] = g[m - 1] /\ h[m] = F[m][g[m - 1]]
        BY <2>1, <2>4
      <4> QED
        BY <1>6, <3>1, <4>1
    <3>2. CASE r # m
      <4>1. r \in b .. m - 1 /\ h[r] = g[r]
        BY <1>4, <2>4, <3>2
      <4>2. r # b => h[r - 1] = g[r - 1]
        BY <1>4, <2>4
      <4> QED
        BY <2>3, <4>1, <4>2
    <3> QED
      BY <3>1, <3>2
  <2>6. h = [r \in b .. m |-> h[r]]
    BY <2>4
  <2>7. Defined(h, s, F, b, m)
    BY <2>5, <2>6 DEF Defined
  <2> QED
    BY <1>4, <2>7
<1> QED
  BY <1>5, <1>6

\* FlattenSeq() appends one list after the other.
Flattening(flat, lists) ==
    /\ flat[1] = lists[1]
    /\ \A r \in 2 .. Len(lists) : flat[r] = flat[r - 1] \o lists[r]

\* What it has appended after r lists.
LEMMA FlattenSteps ==
  ASSUME NEW S, NEW lists \in Seq(Seq(S)), lists # <<>>
  PROVE  \E flat : /\ FlattenSeq(lists) = flat[Len(lists)]
                   /\ Flattening(flat, lists)
                   /\ \A r \in 1 .. Len(lists) : flat[r] \in Seq(S)
<1> DEFINE n == Len(lists)
           D(flat) == flat = [r \in 1 .. n |-> IF r = 1 THEN lists[r] ELSE flat[r - 1] \o lists[r]]
           c == CHOOSE flat : D(flat)
<1>1. n \in Nat /\ 1 <= n /\ n # 0 /\ \A r \in 1 .. n : lists[r] \in Seq(S)
  OBVIOUS
<1>2. PICK F : F = [r \in 2 .. n |-> [x \in Seq(S) |-> x \o lists[r]]]
  OBVIOUS
<1>3. \A r \in 2 .. n : /\ F[r] \in [Seq(S) -> Seq(S)]
                        /\ \A x \in Seq(S) : F[r][x] = x \o lists[r]
  <2> SUFFICES ASSUME NEW r \in 2 .. n
               PROVE  F[r] \in [Seq(S) -> Seq(S)] /\ \A x \in Seq(S) : F[r][x] = x \o lists[r]
    OBVIOUS
  <2>1. F[r] = [x \in Seq(S) |-> x \o lists[r]]
    BY <1>2
  <2>2. PICK l : l = lists[r]
    OBVIOUS
  <2>3. l \in Seq(S)
    BY <1>1, <2>2
  <2>4. \A x \in Seq(S) : x \o l \in Seq(S)
    BY <2>3, ConcatProperties
  <2> QED
    BY <2>1, <2>2, <2>4
<1>4. 1 + 1 = 2 /\ F \in [1 + 1 .. n -> [Seq(S) -> Seq(S)]]
  BY <1>2, <1>3
<1>5. PICK h : Defined(h, lists[1], F, 1, n)
  BY <1>1, StepsExist
<1>6. ASSUME NEW r \in 1 .. n, r # 1 PROVE h[r] = F[r][h[r - 1]]
  BY <1>5, <1>6 DEF Defined
<1>7. h[1] = lists[1]
  BY <1>1, <1>5 DEF Defined
<1>8. Steps(h, Seq(S), lists[1], F, 1, n)
  <2>1. \A r \in 1 + 1 .. n : r \in 1 .. n /\ r # 1
    OBVIOUS
  <2> QED
    BY <1>6, <1>7, <2>1 DEF Steps
<1>9. \A r \in 1 .. n : h[r] \in Seq(S)
  <2>1. PICK T, first, m : T = Seq(S) /\ first = lists[1] /\ m = n
    OBVIOUS
  <2>2. first \in T /\ m \in Nat /\ 1 \in Nat
    BY <1>1, <2>1
  <2>3. F \in [1 + 1 .. m -> [T -> T]] /\ Steps(h, T, first, F, 1, m)
    BY <1>4, <1>8, <2>1
  <2>4. \A r \in 1 .. m : h[r] \in T
    BY <2>2, <2>3, StepsStay
  <2> QED
    BY <2>1, <2>4
<1>10. ASSUME NEW r \in 1 .. n
       PROVE  h[r] = IF r = 1 THEN lists[r] ELSE h[r - 1] \o lists[r]
  <2>1. CASE r = 1
    BY <2>1, <1>7
  <2>2. CASE r # 1
    <3>1. r \in 2 .. n /\ r - 1 \in 1 .. n
      BY <2>2
    <3>2. h[r] = F[r][h[r - 1]] /\ h[r - 1] \in Seq(S)
      BY <2>2, <3>1, <1>6, <1>9
    <3>3. F[r][h[r - 1]] = h[r - 1] \o lists[r]
      BY <3>1, <3>2, <1>3
    <3> QED
      BY <2>2, <3>2, <3>3, Zenon
  <2> QED
    BY <2>1, <2>2
<1>11. D(h)
  <2>1. h = [r \in 1 .. n |-> h[r]]
    BY <1>5 DEF Defined
  <2> QED
    BY <2>1, <1>10, Zenon
<1>12. D(c)
  BY <1>11, Zenon
<1>13. FlattenSeq(lists) = c[n]
  BY <1>1, Zenon DEF FlattenSeq
<1> HIDE DEF c
<1>14. \A r \in 1 .. n : c[r] = IF r = 1 THEN lists[r] ELSE c[r - 1] \o lists[r]
  BY <1>12, Zenon
<1>15. Steps(c, Seq(S), lists[1], F, 1, n)
  <2>1. c[1] = lists[1]
    BY <1>1, <1>14
  <2>2. ASSUME NEW r \in 1 + 1 .. n, c[r - 1] \in Seq(S) PROVE c[r] = F[r][c[r - 1]]
    <3>1. r \in 1 .. n /\ r # 1 /\ r \in 2 .. n
      OBVIOUS
    <3>2. c[r] = c[r - 1] \o lists[r]
      BY <3>1, <1>14, Zenon
    <3>3. F[r][c[r - 1]] = c[r - 1] \o lists[r]
      BY <2>2, <3>1, <1>3
    <3> QED
      BY <3>2, <3>3, Zenon
  <2> QED
    BY <2>1, <2>2 DEF Steps
<1>16. \A r \in 1 .. n : c[r] \in Seq(S)
  <2>1. PICK T, first, m : T = Seq(S) /\ first = lists[1] /\ m = n
    OBVIOUS
  <2>2. first \in T /\ m \in Nat /\ 1 \in Nat
    BY <1>1, <2>1
  <2>3. F \in [1 + 1 .. m -> [T -> T]] /\ Steps(c, T, first, F, 1, m)
    BY <1>4, <1>15, <2>1
  <2>4. \A r \in 1 .. m : c[r] \in T
    BY <2>2, <2>3, StepsStay
  <2> QED
    BY <2>1, <2>4
<1>17. Flattening(c, lists)
  <2>1. c[1] = lists[1]
    BY <1>1, <1>14
  <2>2. ASSUME NEW r \in 2 .. n PROVE c[r] = c[r - 1] \o lists[r]
    <3>1. r \in 1 .. n /\ r # 1
      OBVIOUS
    <3> QED
      BY <3>1, <1>14, Zenon
  <2> QED
    BY <2>1, <2>2 DEF Flattening
<1> QED
  BY <1>13, <1>16, <1>17, Zenon

\* The list has the type of its parts.
LEMMA FlattenType ==
  ASSUME NEW S, NEW lists \in Seq(Seq(S))
  PROVE  FlattenSeq(lists) \in Seq(S)
<1>1. CASE lists = <<>>
  <2>1. FlattenSeq(lists) = <<>>
    BY <1>1 DEF FlattenSeq
  <2> QED
    BY <2>1
<1>2. CASE lists # <<>>
  <2>1. PICK flat : /\ FlattenSeq(lists) = flat[Len(lists)]
                    /\ \A r \in 1 .. Len(lists) : flat[r] \in Seq(S)
    BY <1>2, FlattenSteps
  <2>2. Len(lists) \in 1 .. Len(lists)
    BY <1>2
  <2> QED
    BY <2>1, <2>2
<1> QED
  BY <1>1, <1>2

(***************************************************************************)
(* Lists of buffers the engine can play.                                   *)
(***************************************************************************)
\* The sizes of the buffers of both streams.
BufferBytes == 512 * 4096
UsedBytes == 64 * 4096

\* TestStream has 2 buffers and DemoStream 8, all of one size.
LEMMA StreamSizes ==
  ASSUME NEW stream \in Streams
  PROVE  /\ stream.buffers \in {2, 8} /\ stream.pages = 512
         /\ stream.pages * PAGE_SIZE = BufferBytes
         /\ (stream.pages * PAGE_SIZE) \div 8 = UsedBytes
<1>1. stream.buffers \in {2, 8} /\ stream.pages = 512
  BY DEF Streams, TestStream, DemoStream
<1> QED
  BY <1>1 DEF PAGE_SIZE, BufferBytes, UsedBytes

\* The entries of a list, one after the other.
LEMMA CyclicEntries ==
  ASSUME NEW stream \in Streams, NEW start \in Nat, NEW list, list = CyclicBuffer(stream, start)
  PROVE  /\ DOMAIN list = 1 .. stream.buffers /\ Len(list) = stream.buffers
         /\ \A i \in 1 .. stream.buffers : /\ list[i].address = start + (i - 1) * BufferBytes
                                           /\ list[i].length = UsedBytes
<1>1. list = [i \in 1 .. stream.buffers |-> [address |-> start + (i - 1) * BufferBytes,
                                            length |-> UsedBytes]]
  BY StreamSizes DEF CyclicBuffer
<1>2. stream.buffers \in Nat
  BY StreamSizes
<1> QED
  BY <1>1, <1>2

\* The sum of n equal lengths.
EqualBuffers(list, n) ==
    n \in {2, 8} /\ Len(list) = n /\ \A i \in 1 .. n : list[i].length = UsedBytes

\* The length of a list is the sum of the lengths of its buffers.
LEMMA EqualLengths ==
  ASSUME NEW list, NEW n, EqualBuffers(list, n)
  PROVE  TotalLength(list) = n * UsedBytes
<1> DEFINE D(sum) == sum = [i \in 0 .. Len(list) |->
                              IF i = 0 THEN 0 ELSE sum[i - 1] + list[i].length]
           c == CHOOSE sum : D(sum)
<1>1. n \in {2, 8} /\ Len(list) = n /\ \A i \in 1 .. n : list[i].length = UsedBytes
  BY DEF EqualBuffers
<1>2. PICK h : h = [i \in 0 .. n |-> i * UsedBytes]
  OBVIOUS
<1>3. ASSUME NEW i \in 0 .. n
      PROVE  h[i] = IF i = 0 THEN 0 ELSE h[i - 1] + list[i].length
  <2>1. CASE i = 0
    BY <1>2, <2>1 DEF UsedBytes
  <2>2. CASE i # 0
    <3>1. i - 1 \in 0 .. n /\ i \in 1 .. n
      BY <1>1, <2>2
    <3>2. h[i] = i * UsedBytes /\ h[i - 1] = (i - 1) * UsedBytes
      BY <1>2, <3>1
    <3> QED
      BY <1>1, <2>2, <3>1, <3>2 DEF UsedBytes
  <2> QED
    BY <2>1, <2>2
<1>4. h = [i \in 0 .. n |-> h[i]]
  BY <1>2
<1>5. D(h)
  BY <1>1, <1>3, <1>4, Zenon
<1>6. D(c)
  BY <1>5, Zenon
<1>7. TotalLength(list) = c[n]
  BY <1>1, Zenon DEF TotalLength
<1> HIDE DEF c
<1>8. c[0] = 0 /\ \A i \in 1 .. n : c[i] = c[i - 1] + UsedBytes
  BY <1>1, <1>6, SMTT(30)
<1>9. c[1] = UsedBytes /\ c[2] = 2 * UsedBytes
  BY <1>1, <1>8 DEF UsedBytes
<1>10. CASE n = 8
  <2>1. c[3] = 3 * UsedBytes /\ c[4] = 4 * UsedBytes /\ c[5] = 5 * UsedBytes
    BY <1>8, <1>9, <1>10 DEF UsedBytes
  <2>2. c[6] = 6 * UsedBytes /\ c[7] = 7 * UsedBytes /\ c[8] = 8 * UsedBytes
    BY <1>8, <2>1, <1>10 DEF UsedBytes
  <2> QED
    BY <1>7, <1>10, <2>2
<1> QED
  BY <1>1, <1>7, <1>9, <1>10

\* A list the engine can play.
Playable(list, cbl, lvi) ==
    /\ Len(list) = lvi + 1 /\ Len(list) >= 2
    /\ TotalLength(list) = cbl
    /\ \A i, j \in DOMAIN list : i # j => ~Overlap(list[i], list[j])
    /\ \A i \in DOMAIN list : \E r \in ToSet(dma) :
           /\ r.use = "buffer" /\ list[i].address >= r.first * PAGE_SIZE
           /\ list[i].address + list[i].length <= (r.first + r.count) * PAGE_SIZE

\* A descriptor that is programmed for a stream has such a list.
LEMMA ProgrammedIsPlayable ==
  ASSUME dma \in Seq(DmaRanges), NEW stream \in Streams, ProgrammedFor(stream)
  PROVE  Playable(memory[sd.bdl], sd.cbl, sd.lvi)
<1>1. PICK k \in DOMAIN dma :
        /\ dma[k].use = "buffer" /\ dma[k].count = stream.buffers * stream.pages
        /\ memory[sd.bdl] = CyclicBuffer(stream, dma[k].first * PAGE_SIZE)
  BY DEF ProgrammedFor, ListOf
<1>2. PICK r : r = dma[k]
  OBVIOUS
<1>3. r \in DmaRanges /\ r \in ToSet(dma) /\ r.first \in Nat
  <2>1. dma[k] \in DmaRanges
    OBVIOUS
  <2>2. dma[k] \in ToSet(dma)
    BY DEF ToSet
  <2> QED
    BY <1>2, <2>1, <2>2 DEF DmaRanges
<1>4. PICK list, n, start : list = memory[sd.bdl] /\ n = stream.buffers /\ start = r.first * PAGE_SIZE
  OBVIOUS
<1>5. n \in {2, 8} /\ start = r.first * 4096 /\ start \in Nat
  BY <1>3, <1>4, StreamSizes DEF PAGE_SIZE
<1>6. /\ DOMAIN list = 1 .. n /\ Len(list) = n
      /\ \A i \in 1 .. n : list[i].address = start + (i - 1) * BufferBytes /\ list[i].length = UsedBytes
  BY <1>1, <1>2, <1>4, <1>5, CyclicEntries
<1>7. TotalLength(list) = n * UsedBytes
  <2>1. EqualBuffers(list, n)
    BY <1>5, <1>6 DEF EqualBuffers
  <2> QED
    BY <2>1, EqualLengths
<1>8. sd.cbl = n * UsedBytes /\ sd.lvi = n - 1
  BY <1>4, StreamSizes DEF ProgrammedFor
<1>9. ASSUME NEW i \in 1 .. n, NEW j \in 1 .. n, i # j PROVE ~Overlap(list[i], list[j])
  <2>1. PICK a, b : a = list[i].address /\ b = list[j].address
    OBVIOUS
  <2>2. a = start + (i - 1) * (512 * 4096) /\ b = start + (j - 1) * (512 * 4096) /\ UsedBytes = 64 * 4096
    BY <1>6, <2>1 DEF BufferBytes, UsedBytes
  <2>3. i < j \/ j < i
    BY <1>5, <1>9
  <2>4. ~(a < b + 64 * 4096 /\ b < a + 64 * 4096)
    BY <1>5, <2>2, <2>3, SMTT(30)
  <2> QED
    BY <1>6, <2>1, <2>2, <2>4 DEF Overlap
<1>10. ASSUME NEW i \in 1 .. n
       PROVE  /\ list[i].address >= r.first * PAGE_SIZE
              /\ list[i].address + list[i].length <= (r.first + r.count) * PAGE_SIZE
  <2>1. r.count = n * 512 /\ r.use = "buffer"
    BY <1>1, <1>2, <1>4, StreamSizes
  <2>2. PICK a, f, c : a = list[i].address /\ f = r.first /\ c = r.count
    OBVIOUS
  <2>3. /\ f \in Nat /\ c = n * 512 /\ a = f * 4096 + (i - 1) * (512 * 4096)
        /\ list[i].length = 64 * 4096
    BY <1>3, <1>5, <1>6, <2>1, <2>2, SMTT(30) DEF BufferBytes, UsedBytes
  <2>4. a >= f * 4096 /\ a + 64 * 4096 <= (f + c) * 4096
    BY <1>5, <2>3
  <2> QED
    BY <2>2, <2>3, <2>4, <1>3 DEF PAGE_SIZE
<1>11. r.use = "buffer"
  BY <1>1, <1>2
<1>12. Playable(list, sd.cbl, sd.lvi)
  <2>1. Len(list) = sd.lvi + 1 /\ Len(list) >= 2 /\ TotalLength(list) = sd.cbl
    BY <1>5, <1>6, <1>7, <1>8
  <2>2. \A i, j \in DOMAIN list : i # j => ~Overlap(list[i], list[j])
    BY <1>6, <1>9
  <2>3. \A i \in DOMAIN list : \E range \in ToSet(dma) :
           /\ range.use = "buffer" /\ list[i].address >= range.first * PAGE_SIZE
           /\ list[i].address + list[i].length <= (range.first + range.count) * PAGE_SIZE
    BY <1>3, <1>6, <1>10, <1>11, Zenon
  <2> QED
    BY <2>1, <2>2, <2>3, Zenon DEF Playable
<1> QED
  BY <1>4, <1>12

(***************************************************************************)
(* Commands.  Payloads fit into their verbs, nodes into 8 bits and codec   *)
(* addresses below 15, so that a command fits into 32 bits.                *)
(***************************************************************************)
\* The ranges of what is in a command.
Bytes == 0..255
Addresses == 0..14
ShortVerbs == {"SetAmplifierGainMute", "SetStreamFormat"}

CommandSet ==
    {cmd \in [verb : Verbs, codec : Addresses, node : Bytes, payload : Halves] :
        cmd.verb \in ShortVerbs \/ cmd.payload \in Bytes}

\* The halves of a word.
LEMMA HalfRange ==
  /\ Words = Halves \X Halves
  /\ \A x \in Nat : x <= 65535 => x \in Halves
  /\ \A x \in Halves : x \in Nat /\ x <= 65535
<1>1. ASSUME NEW x \in Nat, x <= 65535 PROVE x \in Halves
  <2>1. PICK m \in Nat : m = 65535
    BY SMT
  <2>2. 0 .. m = Halves
    BY <2>1, SMT DEF Halves
  <2>3. x <= m
    BY <1>1, <2>1, SMT
  <2>4. x \in 0 .. m
    BY <2>3, SMT
  <2> QED
    BY <2>2, <2>4, SMT
<1>2. \A x \in Halves : x \in Nat /\ x <= 65535
  BY SMTT(60) DEF Halves
<1>3. Words = Halves \X Halves
  BY DEF Words
<1> QED
  BY <1>1, <1>2, <1>3, SMT

\* Verbs have 4 bits or 12.
LEMMA VerbSizes ==
  ASSUME NEW cmd, cmd.verb \in Verbs
  PROVE  /\ Verb(cmd) \in Nat /\ Verb(cmd) <= 4095
         /\ cmd.verb \in ShortVerbs => Verb(cmd) <= 15
BY SMT DEF Verbs, Verb, ShortVerbs, Get, Set

\* A command is a word.
LEMMA CommandsAreWords ==
  ASSUME NEW cmd \in CommandSet
  PROVE  as_u32(cmd) \in Words
<1>1. PICK c, n, p, v : c = cmd.codec /\ n = cmd.node /\ p = cmd.payload /\ v = Verb(cmd)
  OBVIOUS
<1>2. cmd.verb \in Verbs /\ c \in Addresses /\ n \in Bytes /\ p \in Halves
  BY <1>1 DEF CommandSet
<1>3. /\ c \in Nat /\ c <= 14 /\ n \in Nat /\ n <= 255 /\ p \in Nat /\ p <= 65535
      /\ v \in Nat /\ v <= 4095
  BY <1>1, <1>2, HalfRange, VerbSizes, SMT DEF Bytes, Addresses
<1>4. CASE cmd.verb \in ShortVerbs
  <2>1. as_u32(cmd) = <<c * 4096 + n * 16 + v, p>>
    BY <1>1, <1>4 DEF as_u32, ShortVerbs, command_with_4bit_identifier_verb
  <2>2. v <= 15
    BY <1>1, <1>2, <1>4, VerbSizes
  <2>3. c * 4096 + n * 16 + v \in Nat /\ c * 4096 + n * 16 + v <= 65535
    BY <1>3, <2>2, SMT
  <2> QED
    BY <1>2, <2>1, <2>3, HalfRange, SMT
<1>5. CASE cmd.verb \notin ShortVerbs
  <2>1. as_u32(cmd) = <<c * 4096 + n * 16 + (v \div 256), (v % 256) * 256 + p>>
    BY <1>1, <1>5 DEF as_u32, ShortVerbs, command_with_12bit_identifier_verb
  <2>2. PICK a, b : a = v \div 256 /\ b = v % 256
    OBVIOUS
  <2>3. a \in Nat /\ a <= 15 /\ b \in Nat /\ b <= 255
    BY <1>3, <2>2, SMT
  <2>4. p <= 255
    <3>1. p \in Bytes
      BY <1>1, <1>5 DEF CommandSet
    <3> QED
      BY <3>1 DEF Bytes
  <2>5. /\ c * 4096 + n * 16 + a \in Nat /\ c * 4096 + n * 16 + a <= 65535
        /\ b * 256 + p \in Nat /\ b * 256 + p <= 65535
    BY <1>3, <2>3, <2>4, SMT
  <2> QED
    BY <2>1, <2>2, <2>5, HalfRange, SMT
<1> QED
  BY <1>4, <1>5

\* What the driver asks a node for is a command.
LEMMA ParameterCommands ==
  ASSUME NEW c \in Addresses, NEW n \in Bytes, NEW p \in DOMAIN Parameter
  PROVE  GetParameter(Node(c, n), p) \in CommandSet
<1>1. Parameter[p] \in 0..18
  BY DEF Parameter
<1>2. GetParameter(Node(c, n), p) = [verb |-> "GetParameter", codec |-> c, node |-> n,
                                     payload |-> Parameter[p]]
  BY DEF GetParameter, Node, Command
<1>3. Parameter[p] \in Bytes /\ Parameter[p] \in Halves
  BY <1>1, HalfRange, SMT DEF Bytes
<1> QED
  BY <1>2, <1>3 DEF CommandSet, Verbs

\* Short payloads.
LEMMA ByteCommands ==
  ASSUME NEW c \in Addresses, NEW n \in Bytes, NEW payload \in Bytes, NEW verb \in Verbs
  PROVE  Command(verb, Node(c, n), payload) \in CommandSet
<1>1. payload \in Halves
  BY HalfRange, SMT DEF Bytes
<1>2. Command(verb, Node(c, n), payload) = [verb |-> verb, codec |-> c, node |-> n, payload |-> payload]
  BY DEF Node, Command
<1> QED
  BY <1>1, <1>2 DEF CommandSet

\* So is what it asks one node for in a row.
LEMMA ParameterLists ==
  ASSUME NEW c \in Addresses, NEW n \in Bytes, NEW list \in Seq(DOMAIN Parameter)
  PROVE  Parameters(Node(c, n), list) \in Seq(CommandSet)
<1>1. \A i \in 1 .. Len(list) : GetParameter(Node(c, n), list[i]) \in CommandSet
  BY ParameterCommands
<1>2. PICK q : q = [i \in 1 .. Len(list) |-> GetParameter(Node(c, n), list[i])]
  OBVIOUS
<1>3. q \in [1 .. Len(list) -> CommandSet] /\ Len(list) \in Nat
  BY <1>1, <1>2
<1>4. q \in Seq(CommandSet)
  BY <1>3
<1>5. Parameters(Node(c, n), list) = q
  BY <1>2 DEF Parameters
<1> QED
  BY <1>4, <1>5

\* The lists of parameters that are asked for.
LEMMA GroupCommands ==
  ASSUME NEW c \in Addresses, NEW n \in Bytes
  PROVE  FunctionGroupQueries(Node(c, n)) \in Seq(CommandSet)
<1>1. <<"FunctionGroupType", "AudioFunctionGroupCapabilities", "SampleSizeRateCAPs",
        "SupportedStreamFormats", "InputAmpCapabilities", "OutputAmpCapabilities",
        "SupportedPowerStates", "GPIOCount", "SubordinateNodeCount">> \in Seq(DOMAIN Parameter)
  BY DEF Parameter
<1> QED
  BY <1>1, ParameterLists DEF FunctionGroupQueries

\* What a widget is asked depends on its type.
LEMMA WidgetCommands ==
  ASSUME NEW c \in Addresses, NEW n \in Bytes, NEW type
  PROVE  WidgetQueries(Node(c, n), type) \in Seq(CommandSet)
<1> DEFINE P == Seq(DOMAIN Parameter)
           node == Node(c, n)
           power == <<"SupportedPowerStates", "ProcessingCapabilities">>
           one == <<"SampleSizeRateCAPs", "SupportedStreamFormats", "OutputAmpCapabilities">>
           two == <<"SampleSizeRateCAPs", "SupportedStreamFormats", "InputAmpCapabilities",
                    "ConnectionListLength">>
           three == <<"InputAmpCapabilities", "OutputAmpCapabilities", "ConnectionListLength">>
           four == <<"PinCapabilities", "InputAmpCapabilities", "OutputAmpCapabilities",
                     "ConnectionListLength">>
           entries == <<Command("GetConnectionListEntry", node, 0)>>
           config == <<Command("GetConfigurationDefault", node, 0)>>
<1>1. power \in P /\ one \in P /\ two \in P /\ three \in P /\ four \in P
  BY DEF Parameter
<1>2. 0 \in Bytes /\ "GetConnectionListEntry" \in Verbs /\ "GetConfigurationDefault" \in Verbs
  BY DEF Bytes, Verbs
<1>3. entries \in Seq(CommandSet) /\ config \in Seq(CommandSet)
  <2>1. /\ Command("GetConnectionListEntry", node, 0) \in CommandSet
        /\ Command("GetConfigurationDefault", node, 0) \in CommandSet
    BY <1>2, ByteCommands
  <2> QED
    BY <2>1
<1>4. one \o power \in P /\ two \o power \in P /\ three \o power \in P /\ four \o power \in P
  <2> HIDE DEF power, one, two, three, four
  <2> QED
    BY <1>1, ConcatProperties
<1>5. PICK a, b, d, e : /\ a = Parameters(node, one \o power) /\ b = Parameters(node, two \o power)
                        /\ d = Parameters(node, three \o power) /\ e = Parameters(node, four \o power)
  OBVIOUS
<1>6. a \in Seq(CommandSet) /\ b \in Seq(CommandSet) /\ d \in Seq(CommandSet) /\ e \in Seq(CommandSet)
  <2> HIDE DEF power, one, two, three, four
  <2> QED
    BY <1>4, <1>5, ParameterLists
<1>7. /\ d \o entries \in Seq(CommandSet) /\ e \o config \in Seq(CommandSet)
      /\ (e \o config) \o entries \in Seq(CommandSet)
  <2> HIDE DEF entries, config
  <2> QED
    BY <1>3, <1>6, ConcatProperties
<1>8. WidgetQueries(node, type) \in {a, b, d \o entries, (e \o config) \o entries, <<>>}
  BY <1>5, Zenon DEF WidgetQueries
<1>9. PICK q : q = WidgetQueries(node, type)
  OBVIOUS
<1>10. <<>> \in Seq(CommandSet)
  OBVIOUS
<1> HIDE DEF entries, config
<1>11. q \in Seq(CommandSet)
  BY <1>6, <1>7, <1>8, <1>9, <1>10, Zenon
<1> QED
  BY <1>9, <1>11

\* Answers are words.
LEMMA AnswersAreWords ==
  ASSUME machine \in Machines, NEW w
  PROVE  Answer(w) \in Words
<1>1. Zero \in Words
  BY HalfRange, SMT DEF Zero
<1>2. w \in DOMAIN machine.answers => machine.answers[w] \in Words
  BY CodecsAssumption, Zenon
<1> QED
  BY <1>1, <1>2, Zenon DEF Answer

\* The numbers decoders take from a word.
LEMMA WordParts ==
  ASSUME NEW raw \in Words
  PROVE  /\ raw[1] \in Nat /\ raw[1] <= 65535 /\ raw[1] % 256 \in Nat /\ raw[1] % 256 <= 255
         /\ raw[2] \in Nat /\ raw[2] <= 65535 /\ raw[2] % 256 \in Nat /\ raw[2] % 256 <= 255
<1>1. raw[1] \in Halves /\ raw[2] \in Halves
  BY HalfRange
<1>2. raw[1] \in Nat /\ raw[1] <= 65535 /\ raw[2] \in Nat /\ raw[2] <= 65535
  BY <1>1, HalfRange, SMT
<1>3. \A x \in Nat : x % 256 \in Nat /\ x % 256 <= 255
  BY SMT
<1> QED
  BY <1>2, <1>3, SMT

\* The nodes an answer announces have numbers of 8 bits.
LEMMA NodesAreBytes ==
  ASSUME machine \in Machines, NEW cmd \in CommandSet, IsParameter(cmd, "SubordinateNodeCount"),
         NEW raw, raw = Answer(as_u32(cmd))
  PROVE  /\ raw[2] % 256 \in Nat
         /\ \A i \in 1 .. raw[2] % 256 : (raw[1] % 256) + i - 1 \in Bytes
<1>1. cmd = GetParameter(Node(cmd.codec, cmd.node), "SubordinateNodeCount")
  BY DEF CommandSet, IsParameter, GetParameter, Command, Node
<1>2. PICK c, n : c = cmd.codec /\ n = cmd.node
  OBVIOUS
<1>3. c \in 0..14 /\ n \in 0..255
  BY <1>2 DEF CommandSet, Addresses, Bytes
<1>4. PICK w : w = as_u32(GetParameter(Node(c, n), "SubordinateNodeCount"))
  OBVIOUS
<1>5. w = as_u32(cmd)
  BY <1>1, <1>2, <1>4
<1>6. w \in DOMAIN machine.answers =>
        (machine.answers[w][1] % 256) + (machine.answers[w][2] % 256) \in 0..255
  <2>1. \A x \in 0..14, y \in 0..255 :
          LET r == as_u32(GetParameter(Node(x, y), "SubordinateNodeCount"))
          IN r \in DOMAIN machine.answers =>
               (machine.answers[r][1] % 256) + (machine.answers[r][2] % 256) \in 0..255
    BY CodecsAssumption, ZenonT(40)
  <2> QED
    BY <1>3, <1>4, <2>1, ZenonT(30)
<1>7. (raw[1] % 256) + (raw[2] % 256) <= 255
  <2>1. CASE w \in DOMAIN machine.answers
    <3>1. (machine.answers[w][1] % 256) + (machine.answers[w][2] % 256) \in 0..255
      BY <1>6, <2>1
    <3>2. raw = machine.answers[w]
      BY <1>5, <2>1 DEF Answer
    <3>3. (raw[1] % 256) + (raw[2] % 256) \in 0..255
      BY <3>1, <3>2, Zenon
    <3>4. PICK s : s = (raw[1] % 256) + (raw[2] % 256)
      OBVIOUS
    <3>5. s \in 0..255
      BY <3>3, <3>4, Zenon
    <3> QED
      BY <3>4, <3>5, SMT
  <2>2. CASE w \notin DOMAIN machine.answers
    <3>1. raw = <<0, 0>>
      BY <1>5, <2>2 DEF Answer, Zero
    <3> QED
      BY <3>1, SMT
  <2> QED
    BY <2>1, <2>2
<1>8. PICK a, b : a = raw[1] % 256 /\ b = raw[2] % 256
  OBVIOUS
<1>9. a \in Nat /\ b \in Nat /\ a + b <= 255
  BY <1>7, <1>8, AnswersAreWords, WordParts, SMT
<1>10. \A i \in 1 .. b : a + i - 1 \in Bytes
  BY <1>9, SMT DEF Bytes
<1> QED
  BY <1>8, <1>9, <1>10

\* A function from 1 .. n is a list.
LEMMA MadeLists ==
  ASSUME NEW S, NEW n \in Nat, NEW F, \A i \in 1 .. n : F[i] \in S, F = [i \in 1 .. n |-> F[i]]
  PROVE  F \in Seq(S)
<1>1. F \in [1 .. n -> S]
  OBVIOUS
<1> QED
  BY <1>1

\* What an answer makes the driver ask.
LEMMA FollowUpCommands ==
  ASSUME machine \in Machines, NEW cmd \in CommandSet, NEW raw, raw = Answer(as_u32(cmd))
  PROVE  FollowUps(cmd, raw) \in Seq(CommandSet)
<1> DEFINE T == Seq(CommandSet)
           nodes == SubordinateNodes(raw)
           groups == [i \in DOMAIN nodes |-> FunctionGroupQueries(Node(cmd.codec, nodes[i]))]
           widgets == [i \in DOMAIN nodes |->
                         GetParameter(Node(cmd.codec, nodes[i]), "AudioWidgetCapabilities")]
           control == <<Command("SetPinWidgetControl", Node(cmd.codec, cmd.node),
                                SetPinWidgetControlPayload(raw))>>
<1>1. cmd.codec \in Addresses /\ cmd.node \in Bytes
  BY DEF CommandSet
<1>2. raw \in Words
  BY AnswersAreWords
<1>3. IsParameter(cmd, "SubordinateNodeCount") =>
        /\ DOMAIN nodes = 1 .. raw[2] % 256 /\ raw[2] % 256 \in Nat
        /\ \A i \in DOMAIN nodes : nodes[i] \in Bytes
  <2> SUFFICES ASSUME IsParameter(cmd, "SubordinateNodeCount")
               PROVE  /\ DOMAIN nodes = 1 .. raw[2] % 256 /\ raw[2] % 256 \in Nat
                      /\ \A i \in DOMAIN nodes : nodes[i] \in Bytes
    OBVIOUS
  <2>1. nodes = [i \in 1 .. raw[2] % 256 |-> (raw[1] % 256) + i - 1]
    BY Zenon DEF SubordinateNodes
  <2>2. /\ raw[2] % 256 \in Nat
        /\ \A i \in 1 .. raw[2] % 256 : (raw[1] % 256) + i - 1 \in Bytes
    BY NodesAreBytes
  <2> HIDE DEF nodes
  <2>3. PICK a, b : a = raw[1] % 256 /\ b = raw[2] % 256
    OBVIOUS
  <2>4. DOMAIN nodes = 1 .. b /\ \A i \in 1 .. b : nodes[i] = a + i - 1
    BY <2>1, <2>3
  <2>5. \A i \in 1 .. b : nodes[i] \in Bytes
    <3>1. \A i \in 1 .. b : a + i - 1 \in Bytes
      BY <2>2, <2>3
    <3> QED
      BY <2>4, <3>1, Zenon
  <2> QED
    BY <2>2, <2>3, <2>4, <2>5, Zenon
<1> HIDE DEF nodes
<1>4. IsParameter(cmd, "SubordinateNodeCount") => widgets \in T
  <2> SUFFICES ASSUME IsParameter(cmd, "SubordinateNodeCount") PROVE widgets \in T
    OBVIOUS
  <2>1. "AudioWidgetCapabilities" \in DOMAIN Parameter
    BY DEF Parameter
  <2>2. \A i \in DOMAIN nodes :
          GetParameter(Node(cmd.codec, nodes[i]), "AudioWidgetCapabilities") \in CommandSet
    BY <1>1, <1>3, <2>1, ParameterCommands
  <2>3. PICK n : n = raw[2] % 256
    OBVIOUS
  <2>4. DOMAIN nodes = 1 .. n /\ n \in Nat
    BY <1>3, <2>3, Zenon
  <2>5. PICK q : q = widgets
    OBVIOUS
  <2>6. (\A i \in 1 .. n : q[i] \in CommandSet) /\ q = [i \in 1 .. n |-> q[i]]
    BY <2>2, <2>4, <2>5, Zenon
  <2>7. q \in Seq(CommandSet)
    BY <2>4, <2>6, MadeLists
  <2> QED
    BY <2>5, <2>7
<1>5. IsParameter(cmd, "SubordinateNodeCount") => FlattenSeq(groups) \in T
  <2> SUFFICES ASSUME IsParameter(cmd, "SubordinateNodeCount") PROVE FlattenSeq(groups) \in T
    OBVIOUS
  <2>1. \A i \in DOMAIN nodes : FunctionGroupQueries(Node(cmd.codec, nodes[i])) \in T
    BY <1>1, <1>3, GroupCommands
  <2>2. PICK n : n = raw[2] % 256
    OBVIOUS
  <2>3. DOMAIN nodes = 1 .. n /\ n \in Nat
    BY <1>3, <2>2, Zenon
  <2>4. PICK q : q = groups
    OBVIOUS
  <2>5. (\A i \in 1 .. n : q[i] \in T) /\ q = [i \in 1 .. n |-> q[i]]
    BY <2>1, <2>3, <2>4, Zenon
  <2>6. q \in Seq(Seq(CommandSet))
    BY <2>3, <2>5, MadeLists
  <2>7. FlattenSeq(q) \in Seq(CommandSet)
    BY <2>6, FlattenType
  <2> QED
    BY <2>4, <2>7
<1>6. control \in T
  <2>1. "SetPinWidgetControl" \in Verbs
    BY DEF Verbs
  <2>2. SetPinWidgetControlPayload(raw) \in Bytes
    <3>1. PICK x : x = raw[2]
      OBVIOUS
    <3>2. x \in Nat
      BY <1>2, <3>1, WordParts
    <3>3. PICK a, b : a = (x \div 128) % 2 /\ b = x % 8
      OBVIOUS
    <3>4. a \in Nat /\ a <= 1 /\ b \in Nat /\ b <= 7
      BY <3>2, <3>3, SMT
    <3>5. a * 128 + 64 + 32 + b \in Bytes
      BY <3>4, SMT DEF Bytes
    <3> QED
      BY <3>1, <3>3, <3>5 DEF SetPinWidgetControlPayload
  <2>3. Command("SetPinWidgetControl", Node(cmd.codec, cmd.node), SetPinWidgetControlPayload(raw))
          \in CommandSet
    BY <1>1, <2>1, <2>2, ByteCommands
  <2> QED
    BY <2>3
<1>7. WidgetQueries(Node(cmd.codec, cmd.node), WidgetType(raw)) \in T /\ <<>> \in T
  BY <1>1, WidgetCommands
<1>8. \/ IsParameter(cmd, "SubordinateNodeCount") /\ FollowUps(cmd, raw) \in {FlattenSeq(groups), widgets}
      \/ FollowUps(cmd, raw) \in
           {WidgetQueries(Node(cmd.codec, cmd.node), WidgetType(raw)), control, <<>>}
  <2>1. CASE IsParameter(cmd, "SubordinateNodeCount")
    <3>1. cmd.verb = "GetParameter" /\ cmd.payload = 4
      BY <2>1 DEF IsParameter, Parameter
    <3>2. ~IsParameter(cmd, "AudioWidgetCapabilities") /\ cmd.verb # "GetPinWidgetControl"
      BY <3>1 DEF IsParameter, Parameter
    <3> QED
      BY <2>1, <3>2, Zenon DEF FollowUps, nodes
  <2>2. CASE ~IsParameter(cmd, "SubordinateNodeCount")
    BY <2>2, Zenon DEF FollowUps
  <2> QED
    BY <2>1, <2>2
<1>9. PICK q : q = FollowUps(cmd, raw)
  OBVIOUS
<1> HIDE DEF groups, widgets, control
<1>10. q \in T
  BY <1>4, <1>5, <1>6, <1>7, <1>8, <1>9, Zenon
<1> QED
  BY <1>9, <1>10

\* What the driver asks codecs first.
LEMMA ScanCommands ==
  ASSUME NEW codecs, codecs \subseteq Addresses
  PROVE  scan_for_available_codecs(codecs) \in Seq(CommandSet)
<1> DEFINE Queries(address) ==
             IF address \notin codecs THEN <<>>
             ELSE Parameters(Node(address, 0), <<"VendorId", "RevisionId", "SubordinateNodeCount">>)
           lists == [i \in 1 .. 15 |-> Queries(i - 1)]
<1>1. <<"VendorId", "RevisionId", "SubordinateNodeCount">> \in Seq(DOMAIN Parameter) /\ 0 \in Bytes
  BY DEF Parameter, Bytes
<1>2. ASSUME NEW address, address \in codecs
      PROVE Parameters(Node(address, 0), <<"VendorId", "RevisionId", "SubordinateNodeCount">>)
              \in Seq(CommandSet)
  BY <1>1, <1>2, ParameterLists
<1>3. ASSUME NEW address PROVE Queries(address) \in Seq(CommandSet)
  <2>1. <<>> \in Seq(CommandSet)
    OBVIOUS
  <2> QED
    BY <1>2, <2>1, Zenon
<1>4. scan_for_available_codecs(codecs) = FlattenSeq(lists)
  BY Zenon DEF scan_for_available_codecs, MAX_AMOUNT_OF_CODECS
<1> HIDE DEF Queries
<1>5. PICK q : q = lists
  OBVIOUS
<1>6. (\A i \in 1 .. 15 : q[i] \in Seq(CommandSet)) /\ q = [i \in 1 .. 15 |-> q[i]]
  BY <1>3, <1>5, Zenon
<1>7. q \in Seq(Seq(CommandSet))
  BY <1>6, MadeLists
<1> QED
  BY <1>4, <1>5, <1>7, FlattenType

(***************************************************************************)
(* What the scan remembers.                                                *)
(***************************************************************************)
\* The records of the codecs, as the scan builds them.
WidgetNames == {"AudioOutput", "AudioInput", "AudioMixer", "AudioSelector", "PinComplex",
                "PowerWidget", "VolumeKnobWidget", "BeepGeneratorWidget",
                "VendorDefinedAudioWidget"}
Widgets == [node : Bytes, type : WidgetNames, config : Words, first : Bytes]
Codecs == [address : Addresses, vendor_id : Halves, device_id : Halves, groups : Seq(Seq(Widgets))]

\* Replacing an element of a list.
LEMMA Replaced ==
  ASSUME NEW S, NEW s \in Seq(S), NEW k, NEW v, k \in 1 .. Len(s) => v \in S
  PROVE  [s EXCEPT ![k] = v] \in Seq(S)
<1>1. PICK q : q = [s EXCEPT ![k] = v]
  OBVIOUS
<1>2. DOMAIN q = 1 .. Len(s) /\ \A i \in 1 .. Len(s) : q[i] = IF i = k THEN v ELSE s[i]
  BY <1>1
<1>3. \A i \in 1 .. Len(s) : q[i] \in S
  BY <1>2
<1>4. Len(s) \in Nat /\ q = [i \in 1 .. Len(s) |-> q[i]]
  <2>1. q = [i \in DOMAIN q |-> q[i]]
    BY <1>1
  <2> QED
    BY <1>2, <2>1
<1>5. q \in Seq(S)
  BY <1>3, <1>4, MadeLists
<1> QED
  BY <1>1, <1>5

\* New groups for the last codec.
WithGroups(codecs, groups) ==
    [codecs EXCEPT ![Len(codecs)] = [codecs[Len(codecs)] EXCEPT !.groups = groups]]

\* They fit into the codec.
LEMMA GroupsReplaced ==
  ASSUME NEW codecs \in Seq(Codecs), NEW groups,
         codecs # <<>> => groups \in Seq(Seq(Widgets))
  PROVE  WithGroups(codecs, groups) \in Seq(Codecs)
<1>1. PICK n : n = Len(codecs)
  OBVIOUS
<1>2. n \in 1 .. Len(codecs) => [codecs[n] EXCEPT !.groups = groups] \in Codecs
  <2> SUFFICES ASSUME n \in 1 .. Len(codecs) PROVE [codecs[n] EXCEPT !.groups = groups] \in Codecs
    OBVIOUS
  <2>1. PICK r : r = codecs[n]
    OBVIOUS
  <2>2. r \in Codecs
    BY <2>1
  <2>3. groups \in Seq(Seq(Widgets))
    BY <1>1
  <2>5. [r EXCEPT !.groups = groups] \in Codecs
    BY <2>2, <2>3 DEF Codecs
  <2> QED
    BY <2>1, <2>5
<1>3. [codecs EXCEPT ![n] = [codecs[n] EXCEPT !.groups = groups]] \in Seq(Codecs)
  BY <1>2, Replaced
<1> QED
  BY <1>1, <1>3 DEF WithGroups

\* The last group of a list of groups.
LEMMA LastReplaced ==
  ASSUME NEW groups \in Seq(Seq(Widgets)), NEW list, groups # <<>> => list \in Seq(Widgets)
  PROVE  [groups EXCEPT ![Len(groups)] = list] \in Seq(Seq(Widgets))
<1>1. Len(groups) \in 1 .. Len(groups) => groups # <<>>
  OBVIOUS
<1> QED
  BY <1>1, Replaced

\* The type of a widget.
LEMMA WidgetTyped ==
  ASSUME NEW cmd, NEW raw \in Words, IsParameter(cmd, "AudioWidgetCapabilities"), Decodable(cmd, raw)
  PROVE  WidgetType(raw) \in WidgetNames
<1>1. PICK t : t = (raw[1] \div 16) % 16
  OBVIOUS
<1>2. t \in 0..7 \cup {15}
  BY <1>1 DEF Decodable
<1>3. WidgetType(raw) = IF t = 15 THEN "VendorDefinedAudioWidget" ELSE WidgetTypes[t + 1]
  BY <1>1 DEF WidgetType
<1> QED
  BY <1>2, <1>3 DEF WidgetTypes, WidgetNames

\* What an answer adds.
LEMMA LearntCodecs ==
  ASSUME NEW codecs \in Seq(Codecs), NEW cmd \in CommandSet, NEW raw \in Words, Decodable(cmd, raw)
  PROVE  Learnt(codecs, cmd, raw) \in Seq(Codecs)
<1> DEFINE c == Len(codecs)
           groups == codecs[c].groups
           g == Len(groups)
           widgets == groups[g]
           w == Len(widgets)
<1>1. codecs # <<>> => groups \in Seq(Seq(Widgets))
  <2> SUFFICES ASSUME codecs # <<>> PROVE groups \in Seq(Seq(Widgets))
    OBVIOUS
  <2>1. PICK r : r = codecs[c]
    OBVIOUS
  <2>2. r \in Codecs
    BY <2>1
  <2> QED
    BY <2>1, <2>2 DEF Codecs
<1>2. codecs # <<>> /\ groups # <<>> => widgets \in Seq(Widgets)
  <2>1. PICK G, W : G = groups /\ W = Seq(Widgets)
    OBVIOUS
  <2>2. G \in Seq(W) /\ G # <<>> => G[Len(G)] \in W
    OBVIOUS
  <2> QED
    BY <1>1, <2>1, <2>2
<1>3. CASE IsParameter(cmd, "VendorId")
  <2>1. Learnt(codecs, cmd, raw) = Append(codecs, [address |-> cmd.codec, vendor_id |-> raw[1],
                                                   device_id |-> raw[2], groups |-> <<>>])
    <3>1. /\ ~IsParameter(cmd, "FunctionGroupType") /\ ~IsParameter(cmd, "AudioWidgetCapabilities")
          /\ cmd.verb # "GetConfigurationDefault" /\ cmd.verb # "GetConnectionListEntry"
      BY <1>3 DEF IsParameter, Parameter
    <3> QED
      BY <1>3, <3>1, Zenon DEF Learnt
  <2>2. cmd.codec \in Addresses /\ raw[1] \in Halves /\ raw[2] \in Halves /\ <<>> \in Seq(Seq(Widgets))
    BY HalfRange DEF CommandSet
  <2>3. PICK r : r = [address |-> cmd.codec, vendor_id |-> raw[1], device_id |-> raw[2],
                      groups |-> <<>>]
    OBVIOUS
  <2>4. r \in Codecs
    BY <2>2, <2>3 DEF Codecs
  <2>5. Append(codecs, r) \in Seq(Codecs)
    BY <2>4
  <2> QED
    BY <2>1, <2>3, <2>5
<1>4. CASE IsParameter(cmd, "FunctionGroupType")
  <2>1. Learnt(codecs, cmd, raw) = WithGroups(codecs, Append(groups, <<>>))
    <3>1. /\ ~IsParameter(cmd, "VendorId") /\ ~IsParameter(cmd, "AudioWidgetCapabilities")
          /\ cmd.verb # "GetConfigurationDefault" /\ cmd.verb # "GetConnectionListEntry"
      BY <1>4 DEF IsParameter, Parameter
    <3> QED
      BY <1>4, <3>1, Zenon DEF Learnt, WithGroups
  <2>2. PICK new : new = Append(groups, <<>>)
    OBVIOUS
  <2>3. codecs # <<>> => new \in Seq(Seq(Widgets))
    <3>1. PICK G, W : G = groups /\ W = Seq(Widgets)
      OBVIOUS
    <3>2. <<>> \in W
      BY <3>1
    <3>3. G \in Seq(W) => Append(G, <<>>) \in Seq(W)
      BY <3>2
    <3> QED
      BY <1>1, <2>2, <3>1, <3>3
  <2> QED
    BY <2>1, <2>2, <2>3, GroupsReplaced
<1>5. CASE IsParameter(cmd, "AudioWidgetCapabilities")
  <2>1. PICK wd : wd = Widget(cmd.node, WidgetType(raw))
    OBVIOUS
  <2>2. wd \in Widgets
    <3>1. cmd.node \in Bytes /\ Zero \in Words /\ 0 \in Bytes
      BY HalfRange, SMT DEF CommandSet, Zero, Bytes
    <3>2. WidgetType(raw) \in WidgetNames
      BY <1>5, WidgetTyped
    <3> QED
      BY <2>1, <3>1, <3>2 DEF Widget, Widgets
  <2>3. PICK list : list = Append(widgets, wd)
    OBVIOUS
  <2>4. codecs # <<>> /\ groups # <<>> => list \in Seq(Widgets)
    BY <1>2, <2>2, <2>3
  <2>5. PICK new : new = [groups EXCEPT ![g] = list]
    OBVIOUS
  <2>6. codecs # <<>> => new \in Seq(Seq(Widgets))
    BY <1>1, <2>4, <2>5, LastReplaced
  <2>7. Learnt(codecs, cmd, raw) = WithGroups(codecs, new)
    <3>1. /\ ~IsParameter(cmd, "VendorId") /\ ~IsParameter(cmd, "FunctionGroupType")
          /\ cmd.verb # "GetConfigurationDefault" /\ cmd.verb # "GetConnectionListEntry"
      BY <1>5 DEF IsParameter, Parameter
    <3>2. Learnt(codecs, cmd, raw) = [codecs EXCEPT ![c].groups[g] = Append(widgets, wd)]
      BY <1>5, <2>1, <3>1, Zenon DEF Learnt
    <3> QED
      BY <2>3, <2>5, <3>2, Zenon DEF WithGroups
  <2> QED
    BY <2>6, <2>7, GroupsReplaced
<1>6. CASE cmd.verb \in {"GetConfigurationDefault", "GetConnectionListEntry"}
  <2>1. PICK entry : entry = IF cmd.verb = "GetConfigurationDefault"
                             THEN [widgets[w] EXCEPT !.config = raw]
                             ELSE [widgets[w] EXCEPT !.first = first_entry(raw)]
    OBVIOUS
  <2>2. w \in 1 .. Len(widgets) /\ codecs # <<>> /\ groups # <<>> => entry \in Widgets
    <3> SUFFICES ASSUME w \in 1 .. Len(widgets), codecs # <<>>, groups # <<>> PROVE entry \in Widgets
      OBVIOUS
    <3>1. PICK L, old : L = widgets /\ old = widgets[w]
      OBVIOUS
    <3>2. L \in Seq(Widgets) /\ old = L[Len(L)] /\ Len(L) \in 1 .. Len(L)
      BY <1>2, <3>1
    <3>3. old \in Widgets
      BY <3>2
    <3>4. first_entry(raw) \in Bytes
      <4>1. PICK x : x = raw[2] % 256
        OBVIOUS
      <4>2. x \in Nat /\ x <= 255
        BY <4>1, WordParts
      <4>3. x \in Bytes
        BY <4>2 DEF Bytes
      <4> QED
        BY <4>1, <4>3 DEF first_entry
    <3>5. [old EXCEPT !.config = raw] \in Widgets /\ [old EXCEPT !.first = first_entry(raw)] \in Widgets
      BY <3>3, <3>4 DEF Widgets
    <3> QED
      BY <2>1, <3>1, <3>5
  <2>3. PICK list : list = [widgets EXCEPT ![w] = entry]
    OBVIOUS
  <2>4. codecs # <<>> /\ groups # <<>> => list \in Seq(Widgets)
    <3> SUFFICES ASSUME codecs # <<>>, groups # <<>> PROVE list \in Seq(Widgets)
      OBVIOUS
    <3>1. PICK L : L = widgets
      OBVIOUS
    <3>2. L \in Seq(Widgets) /\ w = Len(L) /\ (Len(L) \in 1 .. Len(L) => entry \in Widgets)
      BY <1>2, <2>2, <3>1
    <3>3. [L EXCEPT ![Len(L)] = entry] \in Seq(Widgets)
      BY <3>2, Replaced
    <3> QED
      BY <2>3, <3>1, <3>3
  <2>5. PICK new : new = [groups EXCEPT ![g] = list]
    OBVIOUS
  <2>6. codecs # <<>> => new \in Seq(Seq(Widgets))
    BY <1>1, <2>4, <2>5, LastReplaced
  <2>7. ~IsParameter(cmd, "VendorId") /\ ~IsParameter(cmd, "FunctionGroupType")
        /\ ~IsParameter(cmd, "AudioWidgetCapabilities")
    BY <1>6 DEF IsParameter
  <2>8. Learnt(codecs, cmd, raw) = WithGroups(codecs, new)
    <3>1. CASE cmd.verb = "GetConfigurationDefault"
      <4>1. Learnt(codecs, cmd, raw) = [codecs EXCEPT ![c].groups[g][w].config = raw]
        BY <2>7, <3>1, Zenon DEF Learnt
      <4> QED
        BY <2>1, <2>3, <2>5, <3>1, <4>1, Zenon DEF WithGroups
    <3>2. CASE cmd.verb = "GetConnectionListEntry"
      <4>1. cmd.verb # "GetConfigurationDefault"
        BY <3>2
      <4>2. Learnt(codecs, cmd, raw) = [codecs EXCEPT ![c].groups[g][w].first = first_entry(raw)]
        BY <2>7, <3>2, <4>1, Zenon DEF Learnt
      <4> QED
        BY <2>1, <2>3, <2>5, <4>1, <4>2, Zenon DEF WithGroups
    <3> QED
      BY <1>6, <3>1, <3>2
  <2> QED
    BY <2>6, <2>8, GroupsReplaced
<1>7. CASE /\ ~IsParameter(cmd, "VendorId") /\ ~IsParameter(cmd, "FunctionGroupType")
           /\ ~IsParameter(cmd, "AudioWidgetCapabilities")
           /\ cmd.verb \notin {"GetConfigurationDefault", "GetConnectionListEntry"}
  <2>1. Learnt(codecs, cmd, raw) = codecs
    BY <1>7, Zenon DEF Learnt
  <2> QED
    BY <2>1
<1> QED
  BY <1>3, <1>4, <1>5, <1>6, <1>7

(***************************************************************************)
(* The path to the converter, and the commands that configure it.          *)
(***************************************************************************)
\* A step of the path: a widget, or the end.
PathSteps == Widgets \cup {None}

\* The path starts at a pin.
LEMMA PinsFound ==
  ASSUME NEW widgets \in Seq(Widgets), find_line_out_pin_widgets_connected_to_jack(widgets) # {}
  PROVE  widgets[Min(find_line_out_pin_widgets_connected_to_jack(widgets))] \in PathSteps
<1>1. PICK pins : pins = find_line_out_pin_widgets_connected_to_jack(widgets)
  OBVIOUS
<1>2. pins \in SUBSET Nat /\ pins # {} /\ pins \subseteq DOMAIN widgets
  BY <1>1 DEF find_line_out_pin_widgets_connected_to_jack
<1>3. Min(pins) \in pins
  BY <1>2, MinIsLeast
<1>4. widgets[Min(pins)] \in Widgets
  <2>1. PICK m : m = Min(pins)
    OBVIOUS
  <2>2. m \in DOMAIN widgets
    BY <1>2, <1>3, <2>1
  <2>3. widgets[m] \in Widgets
    BY <2>2
  <2> QED
    BY <2>1, <2>3
<1> QED
  BY <1>1, <1>4 DEF PathSteps

\* It continues with the widget a connection list names, or ends.
LEMMA PredecessorFound ==
  ASSUME NEW widgets \in Seq(Widgets), NEW widget
  PROVE  get_predecessor(widgets, widget) \in PathSteps
<1>1. PICK here : here = {i \in DOMAIN widgets : widgets[i].node = widget.first}
  OBVIOUS
<1>2. here \in SUBSET Nat /\ here \subseteq DOMAIN widgets
  BY <1>1
<1>3. here # {} => widgets[Min(here)] \in Widgets
  <2> SUFFICES ASSUME here # {} PROVE widgets[Min(here)] \in Widgets
    OBVIOUS
  <2>1. Min(here) \in here
    BY <1>2, MinIsLeast
  <2>2. PICK m : m = Min(here)
    OBVIOUS
  <2>3. m \in DOMAIN widgets
    BY <1>2, <2>1, <2>2
  <2>4. widgets[m] \in Widgets
    BY <2>3
  <2> QED
    BY <2>2, <2>4
<1>4. \/ get_predecessor(widgets, widget) = None
      \/ here # {} /\ get_predecessor(widgets, widget) = widgets[Min(here)]
  BY <1>1, Zenon DEF get_predecessor
<1> QED
  BY <1>3, <1>4 DEF PathSteps

\* The path consists of widgets and None.
LEMMA PathFound ==
  ASSUME NEW widgets \in Seq(Widgets), find_line_out_pin_widgets_connected_to_jack(widgets) # {}
  PROVE  find_widget_path_for_line_out_playback(widgets) \in Seq(PathSteps)
<1> DEFINE pins == find_line_out_pin_widgets_connected_to_jack(widgets)
           n == Len(widgets) + 1
           D(at) == at = [i \in 1 .. Len(widgets) + 1 |->
                            IF i = 1 THEN widgets[Min(pins)]
                            ELSE IF at[i - 1] = None THEN None
                            ELSE get_predecessor(widgets, at[i - 1])]
           c == CHOOSE at : D(at)
           G(x) == IF x = None THEN None ELSE get_predecessor(widgets, x)
<1>1. PICK first : first = widgets[Min(pins)]
  OBVIOUS
<1>2. first \in PathSteps
  BY <1>1, PinsFound
<1>3. \A x : G(x) \in PathSteps
  BY PredecessorFound DEF PathSteps
<1>4. PICK F : F = [i \in 1 + 1 .. n |-> [x \in PathSteps |-> G(x)]]
  OBVIOUS
<1>5. n \in Nat /\ 1 <= n /\ 1 \in Nat
  OBVIOUS
<1>6. /\ F \in [1 + 1 .. n -> [PathSteps -> PathSteps]]
      /\ \A i \in 1 + 1 .. n, x \in PathSteps : F[i][x] = G(x)
  BY <1>3, <1>4, Zenon
<1> HIDE DEF G, n
<1>7. PICK h : Defined(h, first, F, 1, n)
  BY <1>5, StepsExist
<1>8. ASSUME NEW r \in 1 .. n PROVE h[r] = IF r = 1 THEN first ELSE F[r][h[r - 1]]
  BY <1>7 DEF Defined
<1>9. Steps(h, PathSteps, first, F, 1, n)
  <2>1. \A r \in 1 + 1 .. n : r \in 1 .. n /\ r # 1
    BY <1>5
  <2>2. h[1] = first
    BY <1>5, <1>8
  <2>3. \A r \in 1 + 1 .. n : h[r] = F[r][h[r - 1]]
    BY <1>8, <2>1
  <2> QED
    BY <2>2, <2>3 DEF Steps
<1>10. \A r \in 1 .. n : h[r] \in PathSteps
  BY <1>2, <1>5, <1>6, <1>9, StepsStay
<1>11. ASSUME NEW r \in 1 .. n PROVE h[r] = IF r = 1 THEN first ELSE G(h[r - 1])
  <2>1. CASE r = 1
    BY <1>8, <2>1
  <2>2. CASE r # 1
    <3>1. r \in 1 + 1 .. n /\ r - 1 \in 1 .. n
      BY <1>5, <2>2
    <3>2. F[r][h[r - 1]] = G(h[r - 1])
      BY <1>6, <1>10, <3>1
    <3> QED
      BY <1>8, <2>2, <3>2
  <2> QED
    BY <2>1, <2>2
<1>12. D(h)
  <2>1. h = [r \in 1 .. n |-> h[r]]
    BY <1>7 DEF Defined
  <2>2. h = [r \in 1 .. n |-> IF r = 1 THEN first ELSE G(h[r - 1])]
    BY <1>11, <2>1, Zenon
  <2> QED
    BY <1>1, <2>2, Zenon DEF G, n
<1>13. D(c)
  BY <1>12, Zenon
<1>14. find_widget_path_for_line_out_playback(widgets) = c
  BY Zenon DEF find_widget_path_for_line_out_playback
<1> HIDE DEF c
<1>15. c = [r \in 1 .. n |-> IF r = 1 THEN first ELSE G(c[r - 1])]
  BY <1>1, <1>13, Zenon DEF G, n
<1> HIDE DEF D
<1>16. \A r \in 1 .. n : c[r] = IF r = 1 THEN first ELSE G(c[r - 1])
  BY <1>15, Zenon
<1>17. Steps(c, PathSteps, first, F, 1, n)
  <2>1. c[1] = first
    BY <1>5, <1>16
  <2>2. ASSUME NEW r \in 1 + 1 .. n, c[r - 1] \in PathSteps PROVE c[r] = F[r][c[r - 1]]
    <3>1. r \in 1 .. n /\ r # 1
      BY <1>5
    <3>2. c[r] = G(c[r - 1])
      BY <1>16, <3>1, Zenon
    <3>3. F[r][c[r - 1]] = G(c[r - 1])
      BY <1>6, <2>2
    <3> QED
      BY <3>2, <3>3, Zenon
  <2> QED
    BY <2>1, <2>2 DEF Steps
<1>18. \A r \in 1 .. n : c[r] \in PathSteps
  BY <1>2, <1>5, <1>6, <1>17, StepsStay
<1>19. c = [r \in 1 .. n |-> c[r]]
  BY <1>15, <1>16, Zenon
<1>20. c \in Seq(PathSteps)
  BY <1>5, <1>18, <1>19, MadeLists
<1> QED
  BY <1>14, <1>20

\* Before the first None there are widgets.
LEMMA OnPathFound ==
  ASSUME NEW path \in Seq(PathSteps), PathEnds(path)
  PROVE  OnPath(path) \in Seq(Widgets)
<1>1. PICK ends : ends = {i \in DOMAIN path : path[i] = None}
  OBVIOUS
<1>2. ends \in SUBSET Nat /\ ends # {} /\ ends \subseteq 1 .. Len(path)
  BY <1>1 DEF PathEnds
<1>3. PICK m : m = Min(ends)
  OBVIOUS
<1>4. m \in ends /\ \A i \in ends : m <= i
  BY <1>2, <1>3, MinIsLeast
<1>5. m \in 1 .. Len(path) /\ m - 1 \in Nat
  BY <1>2, <1>4
<1>6. ASSUME NEW i \in 1 .. m - 1 PROVE path[i] \in Widgets
  <2>1. i \in DOMAIN path /\ ~(m <= i)
    BY <1>5
  <2>2. path[i] # None /\ path[i] \in PathSteps
    BY <1>1, <1>4, <2>1
  <2> QED
    BY <2>2 DEF PathSteps
<1>7. PICK q : q = SubSeq(path, 1, m - 1)
  OBVIOUS
<1>8. q = [i \in 1 .. m - 1 |-> path[i]]
  <2>1. q \in Seq(PathSteps) /\ Len(q) = m - 1 /\ \A i \in 1 .. m - 1 : q[i] = path[i]
    BY <1>5, <1>7
  <2>2. q = [i \in 1 .. Len(q) |-> q[i]]
    BY <2>1
  <2> QED
    BY <2>1, <2>2
<1>9. (\A i \in 1 .. m - 1 : q[i] \in Widgets) /\ q = [i \in 1 .. m - 1 |-> q[i]]
  BY <1>6, <1>8
<1>10. q \in Seq(Widgets)
  BY <1>5, <1>9, MadeLists
<1> QED
  BY <1>1, <1>3, <1>7, <1>10 DEF OnPath

\* The format of both streams: 48 kHz, 16 bits, two channels.
LEMMA FormatNumber ==
  ASSUME NEW stream \in Streams
  PROVE  FormatAsU16(stream.format) = 17
<1>1. PICK f : f = stream.format
  OBVIOUS
<1>2. f.pcm /\ f.rate = 48000 /\ f.multiple = 1 /\ f.divisor = 1 /\ f.bits = 16 /\ f.channels = 2
  BY <1>1 DEF Streams, TestStream, DemoStream, StreamFormat
<1>3. (CHOOSE code \in 0..4 : <<8, 16, 20, 24, 32>>[code + 1] = f.bits) = 1
  <2>1. \A code \in 0..4 : <<8, 16, 20, 24, 32>>[code + 1] = f.bits <=> code = 1
    BY <1>2, SMT
  <2>2. 1 \in 0..4
    OBVIOUS
  <2> QED
    BY <2>1, <2>2, Zenon
<1>4. PICK k : k = CHOOSE code \in 0..4 : <<8, 16, 20, 24, 32>>[code + 1] = f.bits
  OBVIOUS
<1>5. FormatAsU16(f) = (IF f.pcm THEN 0 ELSE 32768) + (IF f.rate = 44100 THEN 16384 ELSE 0)
        + (f.multiple - 1) * 2048 + (f.divisor - 1) * 256 + k * 16 + f.channels - 1
  BY <1>4, SMT DEF FormatAsU16
<1>6. k = 1
  BY <1>3, <1>4, Zenon
<1>7. FormatAsU16(f) = 17
  BY <1>2, <1>5, <1>6, SMT
<1> QED
  BY <1>1, <1>7

\* What configures a widget.
LEMMA WidgetConfigured ==
  ASSUME NEW address \in Addresses, NEW widget \in Widgets, NEW stream \in Streams
  PROVE  configure_widget_for_line_out_playback(address, widget, stream) \in Seq(CommandSet)
<1> DEFINE node == Node(address, widget.node)
           Amp(type, gain) ==
               Command("SetAmplifierGainMute", node, SetAmplifierGainMutePayload(type, gain))
           id == Command("SetChannelStreamId", node, SetChannelStreamIdPayload(0, stream.id))
           format == Command("SetStreamFormat", node, FormatAsU16(stream.format))
           pin == Command("GetPinWidgetControl", node, 0)
<1>1. widget.node \in Bytes
  BY DEF Widgets
<1>2. ASSUME NEW p \in Nat, p <= 65535
      PROVE  Command("SetAmplifierGainMute", node, p) \in CommandSet
  <2>1. p \in Halves
    BY <1>2, HalfRange, SMT
  <2>2. Command("SetAmplifierGainMute", node, p) =
          [verb |-> "SetAmplifierGainMute", codec |-> address, node |-> widget.node, payload |-> p]
    BY DEF Command, Node
  <2> QED
    BY <1>1, <2>1, <2>2 DEF CommandSet, Verbs, ShortVerbs
<1>3. Amp("Both", 100) \in CommandSet
  <2>1. SetAmplifierGainMutePayload("Both", 100) = 3 * 16384 + 3 * 4096 + 100
    BY SMT DEF SetAmplifierGainMutePayload, AmpType, BothSides
  <2>2. PICK p : p = SetAmplifierGainMutePayload("Both", 100)
    OBVIOUS
  <2>3. p \in Nat /\ p <= 65535
    BY <2>1, <2>2, SMT
  <2> QED
    BY <1>2, <2>2, <2>3, SMT
<1>4. Amp("Input", 60) \in CommandSet
  <2>1. SetAmplifierGainMutePayload("Input", 60) = 16384 + 3 * 4096 + 60
    BY SMT DEF SetAmplifierGainMutePayload, AmpType, BothSides
  <2>2. PICK p : p = SetAmplifierGainMutePayload("Input", 60)
    OBVIOUS
  <2>3. p \in Nat /\ p <= 65535
    BY <2>1, <2>2, SMT
  <2> QED
    BY <1>2, <2>2, <2>3, SMT
<1>5. id \in CommandSet
  <2>1. stream.id \in {1, 2}
    BY DEF Streams, TestStream, DemoStream
  <2>2. SetChannelStreamIdPayload(0, stream.id) \in {16, 32}
    BY <2>1, SMT DEF SetChannelStreamIdPayload
  <2>3. SetChannelStreamIdPayload(0, stream.id) \in Bytes
    BY <2>2, SMT DEF Bytes
  <2>4. "SetChannelStreamId" \in Verbs
    BY DEF Verbs
  <2> QED
    BY <1>1, <2>3, <2>4, ByteCommands
<1>6. format \in CommandSet
  <2>1. FormatAsU16(stream.format) \in Bytes
    BY FormatNumber, SMT DEF Bytes
  <2>2. "SetStreamFormat" \in Verbs
    BY DEF Verbs
  <2> QED
    BY <1>1, <2>1, <2>2, ByteCommands
<1>7. pin \in CommandSet
  <2>1. 0 \in Bytes /\ "GetPinWidgetControl" \in Verbs
    BY DEF Verbs, Bytes
  <2> QED
    BY <1>1, <2>1, ByteCommands
<1>8. configure_widget_for_line_out_playback(address, widget, stream) \in
        {<<Amp("Both", 100), id, format>>, <<Amp("Input", 60)>>, <<Amp("Both", 100), pin>>, <<>>}
  BY Zenon DEF configure_widget_for_line_out_playback
<1>9. PICK a, b, d, e, f, q : /\ a = Amp("Both", 100) /\ b = Amp("Input", 60) /\ d = id /\ e = format
                              /\ f = pin
                              /\ q = configure_widget_for_line_out_playback(address, widget, stream)
  OBVIOUS
<1>10. q \in {<<a, d, e>>, <<b>>, <<a, f>>, <<>>}
  BY <1>8, <1>9, Zenon
<1>11. a \in CommandSet /\ b \in CommandSet /\ d \in CommandSet /\ e \in CommandSet /\ f \in CommandSet
  BY <1>3, <1>4, <1>5, <1>6, <1>7, <1>9, Zenon
<1>12. /\ <<a, d, e>> \in Seq(CommandSet) /\ <<b>> \in Seq(CommandSet)
       /\ <<a, f>> \in Seq(CommandSet) /\ <<>> \in Seq(CommandSet)
  BY <1>11
<1>13. q \in Seq(CommandSet)
  BY <1>10, <1>12, Zenon
<1> QED
  BY <1>9, <1>13

\* What configures a path.
LEMMA PathConfigured ==
  ASSUME NEW address \in Addresses, NEW path \in Seq(Widgets), NEW stream \in Streams
  PROVE  PathCommands(address, path, stream) \in Seq(CommandSet)
<1>1. PICK q : q = [i \in 1 .. Len(path) |->
                      configure_widget_for_line_out_playback(address, path[i], stream)]
  OBVIOUS
<1>2. \A i \in 1 .. Len(path) :
        configure_widget_for_line_out_playback(address, path[i], stream) \in Seq(CommandSet)
  BY WidgetConfigured
<1>3. (\A i \in 1 .. Len(path) : q[i] \in Seq(CommandSet)) /\ q = [i \in 1 .. Len(path) |-> q[i]]
  BY <1>1, <1>2, Zenon
<1>4. Len(path) \in Nat /\ DOMAIN path = 1 .. Len(path)
  OBVIOUS
<1>5. q \in Seq(Seq(CommandSet))
  BY <1>3, <1>4, MadeLists
<1>6. PathCommands(address, path, stream) = FlattenSeq(q)
  BY <1>1, <1>4 DEF PathCommands
<1> QED
  BY <1>5, <1>6, FlattenType

(***************************************************************************)
(* The commands still to be sent, what the answers have told and what the  *)
(* codecs have stored.  A follow-up is decoded from the codec's answer to  *)
(* the command: hence the part on the result register.                     *)
(***************************************************************************)
\* What codecs store by node, and the values they store.
CodecFields == {"amp", "format", "stream", "pin"}
Holds(f, S) == \A n \in DOMAIN f : f[n] \in S

StoredValues ==
    /\ codec = [f \in CodecFields |-> codec[f]]
    /\ Holds(codec.amp, Halves) /\ Holds(codec.format, Halves)
    /\ Holds(codec.stream, Bytes) /\ Holds(codec.pin, Bytes)

Commands ==
    /\ StoredValues
    /\ card.icoi \in Words
    /\ driver.todo \in Seq(CommandSet)
    /\ InCommand => driver.todo # <<>>
    /\ driver.at \in {"icsts_wait", "answer"} /\ card.valid => card.icii = Answer(card.icoi)
    /\ found \in Seq(Codecs)

\* Nothing is to be sent, and nothing known, at first.
LEMMA CommandsInit == Init => Commands
<1> SUFFICES ASSUME Init PROVE Commands
  OBVIOUS
<1>1. Zero \in Words
  BY HalfRange, SMT DEF Zero
<1>2. card.icoi = Zero
  <2>1. CASE card = ResetCard
    BY <2>1 DEF ResetCard
  <2>2. CASE card = UsedCard
    BY <2>2 DEF UsedCard, ResetCard
  <2> QED
    BY <2>1, <2>2 DEF Init
<1>3. StoredValues
  <2>1. \A S : Holds(<<>>, S)
    BY DEF Holds
  <2>2. codec = [amp |-> <<>>, format |-> <<>>, stream |-> <<>>, pin |-> <<>>]
    BY DEF Init
  <2>3. codec = [f \in CodecFields |-> codec[f]]
    BY <2>2 DEF CodecFields
  <2>4. codec.amp = <<>> /\ codec.format = <<>> /\ codec.stream = <<>> /\ codec.pin = <<>>
    BY <2>2
  <2> QED
    BY <2>1, <2>3, <2>4 DEF StoredValues
<1>4. driver.at = "pci" /\ driver.todo \in Seq(CommandSet) /\ found \in Seq(Codecs)
  <2>1. driver.at = "pci" /\ driver.todo = <<>> /\ found = <<>>
    BY DEF Init
  <2>2. <<>> \in Seq(CommandSet) /\ <<>> \in Seq(Codecs)
    OBVIOUS
  <2> QED
    BY <2>1, <2>2, Zenon
<1> QED
  BY <1>1, <1>2, <1>3, <1>4 DEF Commands, InCommand

\* Storing a value.
LEMMA PutHolds ==
  ASSUME NEW f, NEW S, NEW k, NEW v \in S, Holds(f, S)
  PROVE  Holds(Put(f, k, v), S)
BY DEF Holds, Put

\* A codec that executes a command stores a payload of the size it has.
LEMMA ExecutedStores ==
  ASSUME NEW raw \in Words, StoredValues, codec' = Executed(raw)
  PROVE  StoredValues'
<1>1. PICK k, v, verb : k = NodeOf(raw) /\ v = PayloadOf(raw) /\ verb = VerbOf(raw)
  OBVIOUS
<1>2. PICK x, y : x = raw[1] /\ y = raw[2]
  OBVIOUS
<1>3. x \in Nat /\ y \in Nat /\ y <= 65535 /\ y % 256 \in Nat /\ y % 256 <= 255
  BY <1>2, WordParts
<1>4. y \in Halves /\ y % 256 \in Bytes /\ y % 256 \in Halves
  BY <1>3, HalfRange, SMT DEF Bytes
<1>5. v \in Halves
  BY <1>1, <1>2, <1>4 DEF PayloadOf
<1>6. verb \in {Set + 6, Set + 7} => v \in Bytes
  <2>1. CASE IsLong(raw)
    BY <1>1, <1>2, <1>4, <2>1 DEF PayloadOf
  <2>2. CASE ~IsLong(raw)
    <3>1. verb = x % 16
      BY <1>1, <1>2, <2>2 DEF VerbOf
    <3>2. x % 16 <= 15 /\ Set = 1792
      BY <1>3, SMT DEF Set
    <3> QED
      BY <1>3, <3>1, <3>2, SMT
  <2> QED
    BY <2>1, <2>2
<1>7. Set + 6 = 1798 /\ Set + 7 = 1799
  BY SMT DEF Set
<1>8. PICK a, f, s, p : /\ a = Put(codec.amp, k, v) /\ f = Put(codec.format, k, v)
                        /\ s = Put(codec.stream, k, v) /\ p = Put(codec.pin, k, v)
  OBVIOUS
<1>9. /\ Holds(a, Halves) /\ Holds(f, Halves)
      /\ v \in Bytes => Holds(s, Bytes) /\ Holds(p, Bytes)
  BY <1>5, <1>8, PutHolds DEF StoredValues
<1>10. \/ codec' = [codec EXCEPT !.amp = a]
       \/ codec' = [codec EXCEPT !.format = f]
       \/ verb = Set + 6 /\ codec' = [codec EXCEPT !.stream = s]
       \/ verb = Set + 7 /\ codec' = [codec EXCEPT !.pin = p]
       \/ codec' = codec
  <2>1. codec' = CASE verb = 3 -> [codec EXCEPT !.amp = a]
                   [] verb = 2 -> [codec EXCEPT !.format = f]
                   [] verb = Set + 6 -> [codec EXCEPT !.stream = s]
                   [] verb = Set + 7 -> [codec EXCEPT !.pin = p]
                   [] OTHER -> codec
    BY <1>1, <1>8 DEF Executed
  <2> QED
    BY <2>1, Zenon
<1>11. CASE codec' = [codec EXCEPT !.amp = a]
  BY <1>9, <1>11 DEF StoredValues, CodecFields
<1>12. CASE codec' = [codec EXCEPT !.format = f]
  BY <1>9, <1>12 DEF StoredValues, CodecFields
<1>13. CASE verb = Set + 6 /\ codec' = [codec EXCEPT !.stream = s]
  <2>1. Holds(s, Bytes)
    BY <1>6, <1>9, <1>13
  <2> QED
    BY <1>13, <2>1 DEF StoredValues, CodecFields
<1>14. CASE verb = Set + 7 /\ codec' = [codec EXCEPT !.pin = p]
  <2>1. Holds(p, Bytes)
    BY <1>6, <1>9, <1>14
  <2> QED
    BY <1>14, <2>1 DEF StoredValues, CodecFields
<1>15. CASE codec' = codec
  BY <1>15 DEF StoredValues
<1> QED
  BY <1>10, <1>11, <1>12, <1>13, <1>14, <1>15

\* The card answers, and changes neither the command nor what is to be sent.
LEMMA CommandsCard == Commands /\ CommandInFlight /\ Shapes' /\ Card => Commands'
<1> SUFFICES ASSUME Commands, CommandInFlight, Shapes', Card PROVE Commands'
  OBVIOUS
<1> USE DEF Commands, StoredValues, CommandInFlight, Shapes, CardFields, InCommand, Answer
<1>1. CASE AckCrst
  BY <1>1 DEF AckCrst
<1>2. CASE AckCorbrun
  BY <1>2 DEF AckCorbrun
<1>3. CASE AckCorbrprst
  BY <1>3 DEF AckCorbrprst
<1>4. CASE AckSrst
  BY <1>4 DEF AckSrst
<1>5. CASE FetchCommand
  BY <1>5 DEF FetchCommand
<1>6. CASE AnswerCommand
  <2>1. /\ card' = [card EXCEPT !.busy = FALSE, !.valid = TRUE, !.icii = Answer(card.icoi),
                                !.answered = card.icoi]
        /\ codec' = Executed(card.icoi)
        /\ UNCHANGED <<machine, sd, driver, found, dma, memory, panic>>
    BY <1>6 DEF AnswerCommand
  <2>2. StoredValues'
    BY <2>1, ExecutedStores
  <2>3. card'.icoi = card.icoi /\ card'.icii = Answer(card.icoi)
    BY <2>1
  <2> QED
    BY <2>1, <2>2, <2>3
<1>7. CASE CompleteBuffer
  BY <1>7 DEF CompleteBuffer
<1> QED
  BY <1>1, <1>2, <1>3, <1>4, <1>5, <1>6, <1>7 DEF Card

\* All the driver sends, before and after it knows the codec, are commands.
LEMMA CommandsDriver == Commands /\ CommandInFlight /\ Registers /\ Shapes' /\ Driver => Commands'
<1> SUFFICES ASSUME Commands, CommandInFlight, Registers, Shapes', Driver PROVE Commands'
  OBVIOUS
<1> USE DEF Commands, StoredValues, CommandInFlight, Shapes, CardFields, DriverFields, InCommand, Answer,
            At, Goto, Sdctl, Panic
<1>1. CASE init_pci
  BY <1>1 DEF init_pci
<1>2. CASE find_ihda_device
  BY <1>2 DEF find_ihda_device
<1>3. CASE connect_device_to_apic
  BY <1>3 DEF connect_device_to_apic
<1>4. CASE reset
  BY <1>4 DEF reset
<1>5. CASE configure
  BY <1>5 DEF configure
<1>6. CASE stop_corb_dma
  BY <1>6 DEF stop_corb_dma
<1>7. CASE init_corb
  <2>1. CASE machine.corbsize = 256
    <3>1. PICK frame : frame = NextFrame(dma)
      OBVIOUS
    <3>2. /\ card' = [card EXCEPT !.corb = frame, !.wp = 0, !.corbrprst.written = TRUE]
          /\ driver' = [driver EXCEPT !.at = "corbrp_wait", !.waited = 0]
          /\ driver.at = "stop_corb_wait" /\ UNCHANGED <<machine, sd, codec, found, memory, panic>>
      BY <1>7, <2>1, <3>1 DEF init_corb
    <3> QED
      BY <3>2
  <2>2. CASE machine.corbsize # 256
    BY <1>7, <2>2, ZenonT(40) DEF init_corb
  <2> QED
    BY <2>1, <2>2
<1>8. CASE init_rirb
  BY <1>8, ZenonT(40) DEF init_rirb
<1>9. CASE start_corb
  BY <1>9 DEF start_corb
<1>10. CASE start_rirb
  BY <1>10 DEF start_rirb
<1>11. CASE test_corb_and_rirb
  BY <1>11 DEF test_corb_and_rirb
<1>12. CASE CheckResponses
  BY <1>12 DEF CheckResponses
<1>13. CASE Stream_new
  BY <1>13 DEF Stream_new
<1>14. CASE sdctl_read
  BY <1>14 DEF sdctl_read
<1>15. CASE sdctl_write
  <2>1. driver.op \in {"clear_run", "set_srst", "clear_srst", "set_id", "run"} /\ card' = card
    BY <1>15 DEF sdctl_write
  <2>2. /\ driver'.at \in {"sdctl_read", "srst_wait", "srst_clear_wait", "fill", "test_dma", "done"}
        /\ driver'.todo = driver.todo
    BY <1>15, <2>1 DEF sdctl_write, AfterSdctl
  <2> QED
    BY <2>1, <2>2, <1>15 DEF sdctl_write
<1>16. CASE srst_is_set
  BY <1>16 DEF srst_is_set
<1>17. CASE srst_is_clear
  <2>1. machine.codecs \subseteq Addresses
    BY CodecsAssumption DEF Registers, Addresses
  <2>2. PICK q : q = scan_for_available_codecs(machine.codecs)
    OBVIOUS
  <2>3. q \in Seq(CommandSet)
    BY <2>1, <2>2, ScanCommands
  <2> QED
    BY <1>17, <2>2, <2>3 DEF srst_is_clear
<1>18. CASE configure_sd
  BY <1>18 DEF configure_sd
<1>19. CASE test_dma_position_buffer
  BY <1>19 DEF test_dma_position_buffer
<1>20. CASE write_command_to_icoi
  <2>1. Head(driver.todo) \in CommandSet
    <3>1. PICK todo : todo = driver.todo
      OBVIOUS
    <3>2. todo \in Seq(CommandSet) /\ todo # <<>>
      BY <1>20, <3>1 DEF write_command_to_icoi
    <3>3. Head(todo) \in CommandSet
      BY <3>2
    <3> QED
      BY <3>1, <3>3
  <2>2. as_u32(Head(driver.todo)) \in Words
    BY <2>1, CommandsAreWords
  <2> QED
    BY <1>20, <2>2 DEF write_command_to_icoi
<1>21. CASE icsts_read
  BY <1>21 DEF icsts_read
<1>22. CASE set_immediate_command_busy_bit
  BY <1>22 DEF set_immediate_command_busy_bit, result_valid_after_write
<1>23. CASE result_is_valid
  BY <1>23 DEF result_is_valid
<1>24. CASE read_response_from_icii
  <2>1. PICK cmd, raw : cmd = Head(driver.todo) /\ raw = card.icii
    OBVIOUS
  <2>2. driver.at = "answer" /\ driver.todo # <<>> /\ cmd \in CommandSet
    <3>1. PICK todo : todo = driver.todo
      OBVIOUS
    <3>2. driver.at = "answer" /\ todo \in Seq(CommandSet) /\ todo # <<>>
      BY <1>24, <3>1 DEF read_response_from_icii
    <3>3. Head(todo) \in CommandSet
      BY <3>2
    <3> QED
      BY <2>1, <3>1, <3>2, <3>3
  <2>3. raw = Answer(as_u32(cmd))
    BY <2>1, <2>2
  <2>4. raw \in Words
    BY <2>3, AnswersAreWords DEF Registers
  <2>5. CASE Decodable(cmd, raw)
    <3>1. PICK learnt, q : learnt = Learnt(found, cmd, raw) /\ q = FollowUps(cmd, raw) \o Tail(driver.todo)
      OBVIOUS
    <3>2. learnt \in Seq(Codecs)
      BY <2>2, <2>4, <2>5, <3>1, LearntCodecs
    <3>3. q \in Seq(CommandSet)
      <4>1. PICK a, b : a = FollowUps(cmd, raw) /\ b = Tail(driver.todo)
        OBVIOUS
      <4>2. a \in Seq(CommandSet)
        BY <2>2, <2>3, <4>1, FollowUpCommands DEF Registers
      <4>3. b \in Seq(CommandSet)
        BY <2>2, <4>1
      <4> QED
        BY <3>1, <4>1, <4>2, <4>3
    <3>4. /\ found' = learnt
          /\ driver' = [driver EXCEPT !.at = "command", !.waited = 0, !.todo = q]
          /\ UNCHANGED <<machine, card, sd, codec, dma, memory, panic>>
      BY <1>24, <2>1, <2>5, <3>1, Zenon DEF read_response_from_icii
    <3> QED
      BY <3>2, <3>3, <3>4
  <2>6. CASE ~Decodable(cmd, raw)
    BY <1>24, <2>1, <2>6 DEF read_response_from_icii
  <2> QED
    BY <2>5, <2>6
<1>25. CASE CommandsDone
  BY <1>25 DEF CommandsDone
<1>26. CASE demo_bachelor_presentation
  BY <1>26 DEF demo_bachelor_presentation
<1>27. CASE configure_codec_for_line_out_playback
  <2>1. PICK first, widgets : first = found[1] /\ widgets = first.groups[1]
    OBVIOUS
  <2>2. PICK path : path = find_widget_path_for_line_out_playback(widgets)
    OBVIOUS
  <2>3. PICK q : q = PathCommands(first.address, OnPath(path), driver.stream)
    OBVIOUS
  <2>4. CASE UNCHANGED <<machine, card, sd, codec, driver, found, dma, memory>>
    BY <2>4
  <2>5. CASE ~(UNCHANGED <<machine, card, sd, codec, driver, found, dma, memory>>)
    <3>1. /\ found # <<>> /\ first.groups # <<>>
          /\ find_line_out_pin_widgets_connected_to_jack(widgets) # {} /\ PathEnds(path)
          /\ driver' = [driver EXCEPT !.at = "command", !.waited = 0, !.todo = q]
          /\ UNCHANGED <<machine, card, sd, codec, found, dma, memory, panic>>
      BY <1>27, <2>1, <2>2, <2>3, <2>5, Zenon DEF configure_codec_for_line_out_playback
    <3>2. first \in Codecs
      BY <2>1, <3>1
    <3>3. first.address \in Addresses /\ first.groups \in Seq(Seq(Widgets))
      BY <3>2 DEF Codecs
    <3>4. widgets \in Seq(Widgets)
      <4>1. PICK G, W : G = first.groups /\ W = Seq(Widgets)
        OBVIOUS
      <4>2. G \in Seq(W) /\ G # <<>>
        BY <3>1, <3>3, <4>1
      <4>3. G[1] \in W
        BY <4>2
      <4> QED
        BY <2>1, <4>1, <4>3
    <3>5. path \in Seq(PathSteps)
      BY <2>2, <3>1, <3>4, PathFound
    <3>6. OnPath(path) \in Seq(Widgets)
      BY <3>1, <3>5, OnPathFound
    <3>7. q \in Seq(CommandSet)
      BY <2>3, <3>3, <3>6, PathConfigured DEF Registers
    <3> QED
      BY <3>1, <3>7
  <2> QED
    BY <2>4, <2>5
<1>28. CASE TimeOut
  BY <1>28 DEF TimeOut
<1> QED
  BY <1>1, <1>2, <1>3, <1>4, <1>5, <1>6, <1>7, <1>8, <1>9, <1>10, <1>11, <1>12, <1>13, <1>14,
     <1>15, <1>16, <1>17, <1>18, <1>19, <1>20, <1>21, <1>22, <1>23, <1>24, <1>25, <1>26, <1>27, <1>28 DEF Driver

\* Waiting sends nothing.
LEMMA CommandsTick == Commands /\ Shapes' /\ (Tick \/ UNCHANGED vars) => Commands'
BY DEF Commands, StoredValues, Shapes, DriverFields, InCommand, Answer, Tick, vars

(***************************************************************************)
(* The driver as a whole.                                                  *)
(***************************************************************************)
SoundInvariant == CommandInFlight /\ EngineStops /\ Registers /\ Buffers /\ Commands

\* It is the conjunction of its parts that is inductive: what an answer announces is in the range
\* of a node because the answer is that of the command (CommandInFlight), and it is the run bit
\* that a list is not replaced under (EngineStops).
LEMMA SoundInductive == SoundInvariant /\ [Next]_vars => SoundInvariant'
<1> SUFFICES ASSUME SoundInvariant, [Next]_vars PROVE SoundInvariant'
  OBVIOUS
<1>1. CommandInFlight /\ EngineStops /\ Registers /\ Buffers /\ Commands
  BY DEF SoundInvariant
<1>2. Card \/ Driver \/ (Tick \/ UNCHANGED vars)
  BY DEF Next
<1>3. CommandInFlight'
  BY <1>1, <1>2, CommandCard, CommandDriver, CommandTick
<1>4. Shapes'
  BY <1>3 DEF CommandInFlight
<1>5. EngineStops'
  BY <1>1, <1>2, <1>4, EngineCard, EngineDriver, EngineTick
<1>6. Registers'
  BY <1>1, <1>2, <1>4, RegistersCard, RegistersDriver, RegistersTick
<1>7. Buffers'
  BY <1>1, <1>2, <1>4, BuffersCard, BuffersDriver, BuffersTick
<1>8. Commands'
  BY <1>1, <1>2, <1>4, CommandsCard, CommandsDriver, CommandsTick
<1> QED
  BY <1>3, <1>5, <1>6, <1>7, <1>8 DEF SoundInvariant

\* Its parts give the types.
LEMMA SoundTypes == SoundInvariant => TypeOK
<1> SUFFICES ASSUME SoundInvariant PROVE TypeOK
  OBVIOUS
<1> USE DEF SoundInvariant
<1>1. machine \in Machines /\ card.valid \in BOOLEAN /\ card.busy \in BOOLEAN
  BY DEF CommandInFlight, Shapes, Registers
<1>2. card.rp \in 0..2 /\ card.wp \in 0..2 /\ sd.sts \subseteq {"BCIS"} /\ sd.id \in 0..15
  BY DEF Registers, Positions, Ids
<1>3. sd.run \in BOOLEAN /\ driver.waited \in 0 .. Timeout + 1
  BY DEF EngineStops, Registers, Waits
<1>4. /\ \A f \in {codec.amp, codec.format} : \A n \in DOMAIN f : f[n] \in Halves
      /\ \A f \in {codec.stream, codec.pin} : \A n \in DOMAIN f : f[n] \in Bytes
  BY Zenon DEF Commands, StoredValues, Holds
<1>5. Range(driver.todo) \subseteq [verb : Verbs, codec : Addresses, node : Bytes, payload : Halves]
  <2>1. PICK todo : todo = driver.todo
    OBVIOUS
  <2>2. todo \in Seq(CommandSet)
    BY <2>1 DEF Commands
  <2>3. \A i \in DOMAIN todo : todo[i] \in CommandSet
    BY <2>2
  <2>4. \A i \in DOMAIN todo :
          todo[i] \in [verb : Verbs, codec : Addresses, node : Bytes, payload : Halves]
    BY <2>3 DEF CommandSet
  <2>5. Range(todo) \subseteq [verb : Verbs, codec : Addresses, node : Bytes, payload : Halves]
    BY <2>4 DEF Range
  <2> QED
    BY <2>1, <2>5
<1>6. panic \in {"", "pci", "device", "vector", "corbsize", "test", "running", "answer", "no codec",
                 "codec", "path", "timeout"}
  BY DEF EngineStops, Reasons
<1> QED
  BY <1>1, <1>2, <1>3, <1>4, <1>5, <1>6, Zenon DEF TypeOK, Bytes, Addresses

\* The engine is never reprogrammed while it runs, and it only plays lists that are whole,
\* disjoint and inside the frames that were allocated for its buffers, on every machine, for every
\* timeout, and whatever the firmware has left behind.
THEOREM EngineIsWellProgrammed == Spec => []EngineWellProgrammed
<1>1. Init => SoundInvariant
  BY CommandInit, EngineInit, RegistersInit, BuffersInit, CommandsInit DEF SoundInvariant
<1>2. SoundInvariant => EngineWellProgrammed
  <2> SUFFICES ASSUME SoundInvariant PROVE EngineWellProgrammed
    OBVIOUS
  <2>1. panic # "running"
    BY DEF SoundInvariant, EngineStops, Reasons
  <2>2. ASSUME sd.bdl \in DOMAIN memory PROVE Playable(memory[sd.bdl], sd.cbl, sd.lvi)
    <3>1. dma \in Seq(DmaRanges) /\ DOMAIN memory \subseteq Keys
      BY DEF SoundInvariant, Buffers
    <3>2. sd.bdl # 0
      BY <2>2, <3>1 DEF Keys
    <3>3. PICK stream \in Streams : ProgrammedFor(stream)
      BY <3>2 DEF SoundInvariant, Buffers
    <3> QED
      BY <3>1, <3>3, ProgrammedIsPlayable
  <2> QED
    BY <2>1, <2>2, SoundTypes DEF EngineWellProgrammed, Playable
<1> QED
  BY <1>1, <1>2, SoundInductive, PTL DEF Spec

(***************************************************************************)
(* The scan of the PCI buses.  Lists that are put together.                *)
(***************************************************************************)
\* Two lists have no element in common.
Disjoint(s, t) == \A x \in ToSet(s) : x \notin ToSet(t)

\* An element is at some position.
LEMMA Elements ==
  ASSUME NEW S, NEW s \in Seq(S)
  PROVE  /\ \A i \in 1 .. Len(s) : s[i] \in ToSet(s) /\ s[i] \in S
         /\ \A x \in ToSet(s) : x \in S /\ \E i \in 1 .. Len(s) : x = s[i]
         /\ DOMAIN s = 1 .. Len(s) /\ Len(s) \in Nat
BY DEF ToSet

\* The elements of two lists in a row.
LEMMA ConcatElements ==
  ASSUME NEW S, NEW s \in Seq(S), NEW t \in Seq(S)
  PROVE  \A x : x \in ToSet(s \o t) <=> x \in ToSet(s) \/ x \in ToSet(t)
<1>1. PICK q, m, n : q = s \o t /\ m = Len(s) /\ n = Len(t)
  OBVIOUS
<1>2. /\ q \in Seq(S) /\ m \in Nat /\ n \in Nat /\ Len(q) = m + n
      /\ \A i \in 1 .. m + n : q[i] = IF i <= m THEN s[i] ELSE t[i - m]
  BY <1>1, ConcatProperties
<1>3. ASSUME NEW x, x \in ToSet(q) PROVE x \in ToSet(s) \/ x \in ToSet(t)
  <2>1. PICK i \in 1 .. Len(q) : x = q[i]
    BY <1>2, <1>3, Elements
  <2>2. CASE i <= m
    <3>1. x = s[i] /\ i \in 1 .. Len(s)
      BY <1>1, <1>2, <2>1, <2>2
    <3> QED
      BY <3>1, Elements
  <2>3. CASE ~(i <= m)
    <3>1. x = t[i - m] /\ i - m \in 1 .. Len(t)
      BY <1>1, <1>2, <2>1, <2>3
    <3> QED
      BY <3>1, Elements
  <2> QED
    BY <2>2, <2>3
<1>4. ASSUME NEW x, x \in ToSet(s) PROVE x \in ToSet(q)
  <2>1. PICK i \in 1 .. Len(s) : x = s[i]
    BY <1>4, Elements
  <2>2. i \in 1 .. Len(q) /\ x = q[i]
    BY <1>1, <1>2, <2>1
  <2> QED
    BY <1>2, <2>2, Elements
<1>5. ASSUME NEW x, x \in ToSet(t) PROVE x \in ToSet(q)
  <2>1. PICK i \in 1 .. Len(t) : x = t[i]
    BY <1>5, Elements
  <2>2. i + m \in 1 .. Len(q) /\ x = q[i + m]
    BY <1>1, <1>2, <2>1
  <2> QED
    BY <1>2, <2>2, Elements
<1> QED
  BY <1>1, <1>3, <1>4, <1>5

\* Two lists in a row have an element twice only if one of them has, or both have it.
LEMMA ConcatInjective ==
  ASSUME NEW S, NEW s \in Seq(S), NEW t \in Seq(S), IsInjective(s), IsInjective(t), Disjoint(s, t)
  PROVE  IsInjective(s \o t)
<1>1. PICK q, m, n : q = s \o t /\ m = Len(s) /\ n = Len(t)
  OBVIOUS
<1>2. /\ q \in Seq(S) /\ m \in Nat /\ n \in Nat /\ Len(q) = m + n
      /\ \A i \in 1 .. m + n : q[i] = IF i <= m THEN s[i] ELSE t[i - m]
  BY <1>1, ConcatProperties
<1>3. DOMAIN q = 1 .. m + n /\ DOMAIN s = 1 .. m /\ DOMAIN t = 1 .. n
  BY <1>1, <1>2
<1>4. ASSUME NEW i \in 1 .. m, NEW j \in 1 .. n PROVE s[i] # t[j]
  <2>1. s[i] \in ToSet(s) /\ t[j] \in ToSet(t)
    BY <1>3 DEF ToSet
  <2> QED
    BY <2>1 DEF Disjoint
<1>5. ASSUME NEW a \in 1 .. m + n, NEW b \in 1 .. m + n, q[a] = q[b] PROVE a = b
  <2>1. CASE a <= m /\ b <= m
    <3>1. s[a] = s[b] /\ a \in DOMAIN s /\ b \in DOMAIN s
      BY <1>2, <1>3, <1>5, <2>1
    <3> QED
      BY <3>1 DEF IsInjective
  <2>2. CASE a <= m /\ ~(b <= m)
    <3>1. s[a] = t[b - m] /\ a \in 1 .. m /\ b - m \in 1 .. n
      BY <1>2, <1>5, <2>2
    <3> QED
      BY <1>4, <3>1
  <2>3. CASE ~(a <= m) /\ b <= m
    <3>1. s[b] = t[a - m] /\ b \in 1 .. m /\ a - m \in 1 .. n
      BY <1>2, <1>5, <2>3
    <3> QED
      BY <1>4, <3>1
  <2>4. CASE ~(a <= m) /\ ~(b <= m)
    <3>1. t[a - m] = t[b - m] /\ a - m \in DOMAIN t /\ b - m \in DOMAIN t
      BY <1>2, <1>3, <1>5, <2>4
    <3>2. a - m = b - m
      BY <3>1 DEF IsInjective
    <3> QED
      BY <1>2, <3>2
  <2> QED
    BY <2>1, <2>2, <2>3, <2>4
<1> QED
  BY <1>1, <1>3, <1>5 DEF IsInjective

\* The elements of the first r lists.
FlattenElements(lists, flat, r) ==
    \A x : x \in ToSet(flat[r]) <=> \E i \in 1 .. r : x \in ToSet(lists[i])

\* The lists that FlattenSeq() has appended so far.
LEMMA FlattenPrefixes ==
  ASSUME NEW S, NEW lists \in Seq(Seq(S)), lists # <<>>,
         NEW flat, Flattening(flat, lists), \A r \in 1 .. Len(lists) : flat[r] \in Seq(S)
  PROVE  \A r \in 1 .. Len(lists) : FlattenElements(lists, flat, r)
<1> DEFINE A == {r \in 1 .. Len(lists) : ~FlattenElements(lists, flat, r)}
<1>1. SUFFICES ASSUME A # {} PROVE FALSE
  OBVIOUS
<1>2. A \in SUBSET Nat
  OBVIOUS
<1>3. PICK m \in A : \A a \in A : ~(a < m)
  BY <1>1, <1>2, LeastNumber
<1>4. m \in 1 .. Len(lists) /\ ~FlattenElements(lists, flat, m)
  OBVIOUS
<1>5. CASE m = 1
  <2>1. flat[1] = lists[1]
    BY DEF Flattening
  <2>2. \A i \in 1 .. 1 : i = 1
    OBVIOUS
  <2>3. 1 \in 1 .. 1
    OBVIOUS
  <2>4. FlattenElements(lists, flat, 1)
    BY <2>1, <2>2, <2>3, Zenon DEF FlattenElements
  <2> QED
    BY <1>4, <1>5, <2>4
<1>6. CASE m # 1
  <2>1. m - 1 \in 1 .. Len(lists) /\ m - 1 < m /\ m \in 2 .. Len(lists)
    BY <1>4, <1>6
  <2>2. FlattenElements(lists, flat, m - 1)
    BY <1>3, <2>1
  <2>3. flat[m] = flat[m - 1] \o lists[m]
    BY <2>1 DEF Flattening
  <2>4. PICK s, t : s = flat[m - 1] /\ t = lists[m]
    OBVIOUS
  <2>5. s \in Seq(S) /\ t \in Seq(S)
    BY <1>4, <2>1, <2>4
  <2>6. \A x : x \in ToSet(s \o t) <=> x \in ToSet(s) \/ x \in ToSet(t)
    BY <2>5, ConcatElements
  <2>7. \A i : i \in 1 .. m <=> i \in 1 .. m - 1 \/ i = m
    BY <1>4
  <2>8. \A x : x \in ToSet(flat[m]) <=> x \in ToSet(flat[m - 1]) \/ x \in ToSet(lists[m])
    BY <2>3, <2>4, <2>6, Zenon
  <2>9. \A x : x \in ToSet(flat[m - 1]) <=> \E i \in 1 .. m - 1 : x \in ToSet(lists[i])
    BY <2>2 DEF FlattenElements
  <2>10. FlattenElements(lists, flat, m)
    BY <2>7, <2>8, <2>9, Zenon DEF FlattenElements
  <2> QED
    BY <1>4, <2>10
<1> QED
  BY <1>5, <1>6

\* The elements of a flattened list are those of its parts.
LEMMA FlatElements ==
  ASSUME NEW S, NEW lists \in Seq(Seq(S))
  PROVE  \A x : x \in ToSet(FlattenSeq(lists)) <=> \E i \in 1 .. Len(lists) : x \in ToSet(lists[i])
<1>1. CASE lists = <<>>
  <2>1. FlattenSeq(lists) = <<>> /\ Len(lists) = 0
    BY <1>1 DEF FlattenSeq
  <2>2. \A x : x \notin ToSet(<<>>)
    BY DEF ToSet
  <2>3. \A i : i \notin 1 .. Len(lists)
    BY <2>1
  <2> QED
    BY <2>1, <2>2, <2>3, Zenon
<1>2. CASE lists # <<>>
  <2>1. PICK flat : /\ FlattenSeq(lists) = flat[Len(lists)]
                    /\ Flattening(flat, lists)
                    /\ \A r \in 1 .. Len(lists) : flat[r] \in Seq(S)
    BY <1>2, FlattenSteps
  <2>2. Len(lists) \in 1 .. Len(lists)
    BY <1>2
  <2>3. \A r \in 1 .. Len(lists) : FlattenElements(lists, flat, r)
    BY <1>2, <2>1, FlattenPrefixes
  <2>4. FlattenElements(lists, flat, Len(lists))
    BY <2>2, <2>3
  <2> QED
    BY <2>1, <2>4 DEF FlattenElements
<1> QED
  BY <1>1, <1>2

\* It has no element twice if its parts have none twice and none in common.
Separate(lists) ==
    /\ \A i \in 1 .. Len(lists) : IsInjective(lists[i])
    /\ \A i, j \in 1 .. Len(lists) : i # j => Disjoint(lists[i], lists[j])

\* Lists that are separate make one without repetition.
LEMMA FlatInjective ==
  ASSUME NEW S, NEW lists \in Seq(Seq(S)), Separate(lists)
  PROVE  IsInjective(FlattenSeq(lists))
<1>1. CASE lists = <<>>
  <2>1. FlattenSeq(lists) = <<>>
    BY <1>1 DEF FlattenSeq
  <2> QED
    BY <2>1 DEF IsInjective
<1>2. CASE lists # <<>>
  <2>1. PICK flat : /\ FlattenSeq(lists) = flat[Len(lists)]
                    /\ Flattening(flat, lists)
                    /\ \A r \in 1 .. Len(lists) : flat[r] \in Seq(S)
    BY <1>2, FlattenSteps
  <2>2. \A r \in 1 .. Len(lists) : FlattenElements(lists, flat, r)
    BY <1>2, <2>1, FlattenPrefixes
  <2> DEFINE A == {r \in 1 .. Len(lists) : ~IsInjective(flat[r])}
  <2>3. A = {}
    <3>1. SUFFICES ASSUME A # {} PROVE FALSE
      OBVIOUS
    <3>2. A \in SUBSET Nat
      OBVIOUS
    <3>3. PICK m \in A : \A a \in A : ~(a < m)
      BY <3>1, <3>2, LeastNumber
    <3>4. m \in 1 .. Len(lists) /\ ~IsInjective(flat[m])
      OBVIOUS
    <3>5. m # 1
      <4>1. flat[1] = lists[1]
        BY <2>1 DEF Flattening
      <4>2. m = 1 => IsInjective(lists[1])
        BY <3>4 DEF Separate
      <4> QED
        BY <3>4, <4>1, <4>2
    <3>6. m - 1 \in 1 .. Len(lists) /\ m - 1 < m /\ m \in 2 .. Len(lists)
      BY <3>4, <3>5
    <3>7. IsInjective(flat[m - 1]) /\ IsInjective(lists[m])
      BY <3>3, <3>4, <3>6 DEF Separate
    <3>8. flat[m] = flat[m - 1] \o lists[m]
      BY <2>1, <3>6 DEF Flattening
    <3>9. Disjoint(flat[m - 1], lists[m])
      <4>1. \A x : x \in ToSet(flat[m - 1]) <=> \E i \in 1 .. m - 1 : x \in ToSet(lists[i])
        BY <2>2, <3>6 DEF FlattenElements
      <4>2. \A i \in 1 .. m - 1 : i \in 1 .. Len(lists) /\ i # m
        BY <3>6
      <4>3. \A i \in 1 .. m - 1 : Disjoint(lists[i], lists[m])
        BY <3>4, <4>2 DEF Separate
      <4> QED
        BY <4>1, <4>3, Zenon DEF Disjoint
    <3>10. PICK s, t : s = flat[m - 1] /\ t = lists[m]
      OBVIOUS
    <3>11. s \in Seq(S) /\ t \in Seq(S)
      BY <2>1, <3>4, <3>6, <3>10
    <3>12. IsInjective(s) /\ IsInjective(t) /\ Disjoint(s, t)
      BY <3>7, <3>9, <3>10, Zenon
    <3>13. IsInjective(s \o t)
      BY <3>11, <3>12, ConcatInjective
    <3> QED
      BY <3>4, <3>8, <3>10, <3>13, Zenon
  <2>4. Len(lists) \in 1 .. Len(lists)
    BY <1>2
  <2> QED
    BY <2>1, <2>3, <2>4
<1> QED
  BY <1>1, <1>2

(***************************************************************************)
(* check_device() and scan_bus().  They call check_function() for the      *)
(* functions that exist and are not behind a gap, each once.               *)
(***************************************************************************)
\* The functions check_device() gets to.
Visited(space) == {a \in ImplementedFunctions(space) : ~BehindGap(space, a)}
\* Addresses are a bus of 8 bits, a device of 5 and a function of 3.
Addressed(space) == DOMAIN space \subseteq (0..255) \X (0..31) \X (0..7)
\* What the nested calls of scan_bus() return for each bus.
Below(space) == [Buses(space) -> Seq(DOMAIN space)]

\* check_function() gives a list of addresses.
LEMMA FunctionLists ==
  ASSUME NEW space, NEW below \in Below(space), NEW a \in DOMAIN space
  PROVE  check_function(space, below, a) \in Seq(DOMAIN space)
<1>1. space[a].secondary \in Buses(space)
  BY DEF Buses
<1>2. below[space[a].secondary] \in Seq(DOMAIN space)
  BY <1>1 DEF Below
<1>3. <<a>> \in Seq(DOMAIN space)
  OBVIOUS
<1> QED
  BY <1>2, <1>3, Zenon DEF check_function

\* The loop over the functions ends where one is missing.
LEMMA LastFunction ==
  ASSUME NEW space, NEW bus, NEW device
  PROVE  /\ OtherFunctions(space, bus, device) \in 0..7
         /\ \A i \in 1..7 : i <= OtherFunctions(space, bus, device)
                              <=> \A j \in 1 .. i : Exists(space, <<bus, device, j>>)
<1>1. PICK A : A = {i \in 1 .. 8 : i = 8 \/ ~Exists(space, <<bus, device, i>>)}
  OBVIOUS
<1>2. A \in SUBSET Nat /\ 8 \in A
  BY <1>1
<1>3. PICK m : m = Min(A)
  OBVIOUS
<1>4. m \in A /\ \A a \in A : m <= a
  BY <1>2, <1>3, MinIsLeast
<1>5. m \in 1 .. 8
  BY <1>1, <1>4
<1>6. OtherFunctions(space, bus, device) = m - 1
  BY <1>1, <1>3 DEF OtherFunctions, MAX_FUNCTIONS_PER_DEVICE
<1>7. ASSUME NEW i \in 1..7, i <= m - 1, NEW j \in 1 .. i PROVE Exists(space, <<bus, device, j>>)
  <2>1. j \in 1 .. 8 /\ ~(m <= j) /\ j # 8
    BY <1>5, <1>7
  <2>2. j \notin A
    BY <1>4, <2>1
  <2> QED
    BY <1>1, <2>1, <2>2
<1>8. ASSUME NEW i \in 1..7, \A j \in 1 .. i : Exists(space, <<bus, device, j>>) PROVE i <= m - 1
  <2> SUFFICES ASSUME ~(i <= m - 1) PROVE FALSE
    OBVIOUS
  <2>1. m \in 1 .. i /\ m # 8
    BY <1>5
  <2>2. ~Exists(space, <<bus, device, m>>)
    BY <1>1, <1>4, <2>1
  <2> QED
    BY <1>8, <2>1, <2>2
<1> QED
  BY <1>5, <1>6, <1>7, <1>8

\* A bus, a device and a function.
LEMMA AddressParts ==
  ASSUME NEW space, Addressed(space), NEW a \in Visited(space)
  PROVE  a[2] \in 0..31 /\ a[3] \in 0..7 /\ a = <<a[1], a[2], a[3]>>
<1>1. a \in (0..255) \X (0..31) \X (0..7)
  BY DEF Visited, ImplementedFunctions, Addressed
<1> QED
  BY <1>1

\* check_device() calls check_function() for the functions it gets to, and for no others.
LEMMA VisitedFunctions ==
  ASSUME NEW space, Addressed(space), NEW bus, NEW device
  PROVE  /\ <<bus, device, 0>> \in Visited(space) <=> Exists(space, <<bus, device, 0>>)
         /\ \A i \in 1..7 : <<bus, device, i>> \in Visited(space) <=>
                              /\ Exists(space, <<bus, device, 0>>)
                              /\ has_multiple_functions(space, <<bus, device, 0>>)
                              /\ i <= OtherFunctions(space, bus, device)
<1>2. ASSUME NEW i
      PROVE  <<bus, device, i>> \in ImplementedFunctions(space) <=>
               /\ Exists(space, <<bus, device, i>>) /\ Exists(space, <<bus, device, 0>>)
               /\ i = 0 \/ has_multiple_functions(space, <<bus, device, 0>>)
  <2>1. PICK a : a = <<bus, device, i>>
    OBVIOUS
  <2>2. a[1] = bus /\ a[2] = device /\ a[3] = i
    BY <2>1
  <2>3. a \in ImplementedFunctions(space) <=>
          /\ Exists(space, a) /\ Exists(space, <<a[1], a[2], 0>>)
          /\ a[3] = 0 \/ has_multiple_functions(space, <<a[1], a[2], 0>>)
    BY Zenon DEF ImplementedFunctions, Exists
  <2> QED
    BY <2>1, <2>2, <2>3, Zenon
<1>3. ASSUME NEW i
      PROVE  BehindGap(space, <<bus, device, i>>) <=>
               \E j \in 1 .. i : ~Exists(space, <<bus, device, j>>)
  <2>1. PICK a : a = <<bus, device, i>>
    OBVIOUS
  <2>2. a[1] = bus /\ a[2] = device /\ a[3] = i
    BY <2>1
  <2>3. BehindGap(space, a) <=> \E j \in 1 .. a[3] : ~Exists(space, <<a[1], a[2], j>>)
    BY Zenon DEF BehindGap
  <2> QED
    BY <2>1, <2>2, <2>3, Zenon
<1>4. <<bus, device, 0>> \in Visited(space) <=> Exists(space, <<bus, device, 0>>)
  <2>1. \A j : j \notin 1 .. 0
    OBVIOUS
  <2> QED
    BY <1>2, <1>3, <2>1, Zenon DEF Visited
<1>5. ASSUME NEW i \in 1..7
      PROVE  <<bus, device, i>> \in Visited(space) <=>
               /\ Exists(space, <<bus, device, 0>>)
               /\ has_multiple_functions(space, <<bus, device, 0>>)
               /\ i <= OtherFunctions(space, bus, device)
  <2>1. i # 0 /\ i \in 1 .. i
    OBVIOUS
  <2>2. i <= OtherFunctions(space, bus, device) <=> \A j \in 1 .. i : Exists(space, <<bus, device, j>>)
    BY LastFunction
  <2> QED
    BY <1>2, <1>3, <2>1, <2>2, Zenon DEF Visited
<1> QED
  BY <1>4, <1>5, Zenon

\* The functions of a set contribute different devices, each once.
Apart(space, below, F) ==
    /\ \A a \in F : IsInjective(check_function(space, below, a))
    /\ \A a, b \in F : a # b => Disjoint(check_function(space, below, a), check_function(space, below, b))

\* Those of one device, and of one bus.
VisitedOf(space, bus, device) == {a \in Visited(space) : a[1] = bus /\ a[2] = device}

\* What check_device() finds.
LEMMA DeviceElements ==
  ASSUME NEW space, Addressed(space), NEW below \in Below(space), NEW bus, NEW device
  PROVE  /\ check_device(space, below, bus, device) \in Seq(DOMAIN space)
         /\ \A x : x \in ToSet(check_device(space, below, bus, device)) <=>
                     \E a \in VisitedOf(space, bus, device) : x \in ToSet(check_function(space, below, a))
         /\ Apart(space, below, VisitedOf(space, bus, device)) =>
              IsInjective(check_device(space, below, bus, device))
<1> DEFINE first == <<bus, device, 0>>
           fn(i) == check_function(space, below, <<bus, device, i>>)
           S == DOMAIN space
           V == VisitedOf(space, bus, device)
<1>1. /\ \A a \in V : \E i \in 0..7 : a = <<bus, device, i>>
      /\ first \in V <=> Exists(space, first)
      /\ \A i \in 1..7 : <<bus, device, i>> \in V <=>
           /\ Exists(space, first) /\ has_multiple_functions(space, first)
           /\ i <= OtherFunctions(space, bus, device)
  <2>1. \A i : <<bus, device, i>> \in V <=> <<bus, device, i>> \in Visited(space)
    BY DEF VisitedOf
  <2>2. \A a \in V : \E i \in 0..7 : a = <<bus, device, i>>
    <3>1. \A a \in V : a \in Visited(space) /\ a[1] = bus /\ a[2] = device
      BY DEF VisitedOf
    <3> HIDE DEF V
    <3>2. ASSUME NEW a \in V PROVE \E i \in 0..7 : a = <<bus, device, i>>
      <4>1. a[3] \in 0..7 /\ a = <<a[1], a[2], a[3]>>
        BY <3>1, AddressParts
      <4> QED
        BY <3>1, <4>1
    <3> QED
      BY <3>2, Zenon
  <2> HIDE DEF V
  <2>3. first \in Visited(space) <=> Exists(space, first)
    BY VisitedFunctions
  <2>4. \A i \in 1..7 : <<bus, device, i>> \in Visited(space) <=>
           /\ Exists(space, first) /\ has_multiple_functions(space, first)
           /\ i <= OtherFunctions(space, bus, device)
    BY VisitedFunctions
  <2> QED
    BY <2>1, <2>2, <2>3, <2>4, Zenon
<1>2. \A a \in V : a \in S /\ check_function(space, below, a) \in Seq(S)
  <2>1. \A a \in V : a \in S
    BY DEF VisitedOf, Visited, ImplementedFunctions
  <2> QED
    BY <2>1, FunctionLists
<1> HIDE DEF V
<1>3. CASE ~Exists(space, first)
  <2>1. check_device(space, below, bus, device) = <<>>
    BY <1>3 DEF check_device
  <2>2. V = {}
    <3>1. \A i \in 0..7 : i = 0 \/ i \in 1..7
      OBVIOUS
    <3> QED
      BY <1>1, <1>3, <3>1, Zenon
  <2>3. ToSet(<<>>) = {} /\ IsInjective(<<>>) /\ <<>> \in Seq(S)
    BY DEF ToSet, IsInjective
  <2> QED
    BY <2>1, <2>2, <2>3, Zenon DEF V
<1>4. CASE Exists(space, first) /\ ~has_multiple_functions(space, first)
  <2>1. check_device(space, below, bus, device) = fn(0) \o <<>>
    BY <1>4 DEF check_device
  <2>2. V = {first}
    <3>1. \A i \in 0..7 : i = 0 \/ i \in 1..7
      OBVIOUS
    <3> QED
      BY <1>1, <1>4, <3>1, Zenon
  <2>3. PICK q : q = fn(0)
    OBVIOUS
  <2>4. q \in Seq(S)
    BY <1>2, <2>2, <2>3
  <2>5. check_device(space, below, bus, device) = q
    BY <2>1, <2>3, <2>4, ConcatEmptySeq
  <2> QED
    BY <2>2, <2>3, <2>4, <2>5, Zenon DEF V, Apart
<1>5. CASE Exists(space, first) /\ has_multiple_functions(space, first)
  <2>1. PICK k : k = OtherFunctions(space, bus, device)
    OBVIOUS
  <2>2. k \in 0..7
    BY <2>1, LastFunction
  <2>3. PICK lists : lists = [i \in 1 .. k |-> fn(i)]
    OBVIOUS
  <2>4. PICK q : q = fn(0)
    OBVIOUS
  <2>5. check_device(space, below, bus, device) = q \o FlattenSeq(lists)
    BY <1>5, <2>1, <2>3, <2>4 DEF check_device
  <2>6. \A i \in 1 .. k : i \in 1..7 /\ i <= k /\ i # 0
    BY <2>2
  <2>7. first \in V /\ \A i \in 1 .. k : <<bus, device, i>> \in V
    BY <1>1, <1>5, <2>1, <2>6, Zenon
  <2>8. \A a \in V : a = first \/ \E i \in 1 .. k : a = <<bus, device, i>>
    <3>1. ASSUME NEW i \in 0..7, <<bus, device, i>> \in V PROVE i = 0 \/ i \in 1 .. k
      <4>1. i = 0 \/ i \in 1..7
        OBVIOUS
      <4>2. i \in 1..7 => i <= k
        BY <1>1, <2>1, <3>1
      <4> QED
        BY <2>2, <4>1, <4>2
    <3> QED
      BY <1>1, <3>1, Zenon
  <2>9. q \in Seq(S)
    BY <1>2, <2>4, <2>7
  <2>10. lists \in Seq(Seq(S)) /\ Len(lists) = k
    <3>1. \A i \in 1 .. k : lists[i] \in Seq(S)
      BY <1>2, <2>3, <2>7
    <3>2. lists = [i \in 1 .. k |-> lists[i]] /\ k \in Nat
      BY <2>2, <2>3
    <3>3. lists \in Seq(Seq(S))
      BY <3>1, <3>2, MadeLists
    <3> QED
      BY <2>2, <2>3, <3>3
  <2>11. PICK flat : flat = FlattenSeq(lists)
    OBVIOUS
  <2>12. flat \in Seq(S)
    BY <2>10, <2>11, FlattenType
  <2>13. \A x : x \in ToSet(flat) <=> \E i \in 1 .. k : x \in ToSet(lists[i])
    BY <2>10, <2>11, FlatElements
  <2>14. \A i \in 1 .. k : lists[i] = fn(i)
    BY <2>3
  <2>15. \A x : x \in ToSet(q \o flat) <=> x \in ToSet(q) \/ x \in ToSet(flat)
    BY <2>9, <2>12, ConcatElements
  <2>16. q \o flat \in Seq(S)
    BY <2>9, <2>12, ConcatProperties
  <2>17. \A x : x \in ToSet(q \o flat) <=> \E a \in V : x \in ToSet(check_function(space, below, a))
    <3>1. ASSUME NEW x, NEW a \in V, x \in ToSet(check_function(space, below, a))
          PROVE  x \in ToSet(q \o flat)
      <4>1. CASE a = first
        BY <2>4, <2>15, <3>1, <4>1
      <4>2. CASE a # first
        <5>1. PICK i \in 1 .. k : a = <<bus, device, i>>
          BY <2>8, <4>2
        <5>2. x \in ToSet(lists[i])
          BY <2>14, <3>1, <5>1
        <5> QED
          BY <2>13, <2>15, <5>2
      <4> QED
        BY <4>1, <4>2
    <3>2. ASSUME NEW x, x \in ToSet(q \o flat)
          PROVE  \E a \in V : x \in ToSet(check_function(space, below, a))
      BY <2>4, <2>7, <2>13, <2>14, <2>15, <3>2, Zenon
    <3> QED
      BY <3>1, <3>2, Zenon
  <2>18. ASSUME Apart(space, below, V) PROVE IsInjective(q \o flat)
    <3>1. IsInjective(q) /\ \A i \in 1 .. k : IsInjective(lists[i])
      BY <2>4, <2>7, <2>14, <2>18 DEF Apart
    <3>2. \A i, j \in 1 .. k : i # j => <<bus, device, i>> # <<bus, device, j>>
      OBVIOUS
    <3>3. \A i, j \in 1 .. k : i # j => Disjoint(lists[i], lists[j])
      BY <2>7, <2>14, <2>18, <3>2 DEF Apart
    <3>4. Separate(lists)
      BY <2>10, <3>1, <3>3 DEF Separate
    <3>5. IsInjective(flat)
      BY <2>10, <2>11, <3>4, FlatInjective
    <3>6. \A i \in 1 .. k : first # <<bus, device, i>>
      BY <2>6
    <3>7. \A i \in 1 .. k : Disjoint(q, lists[i])
      BY <2>4, <2>7, <2>14, <2>18, <3>6 DEF Apart
    <3>8. Disjoint(q, flat)
      BY <2>13, <3>7, Zenon DEF Disjoint
    <3> QED
      BY <2>9, <2>12, <3>1, <3>5, <3>8, ConcatInjective
  <2> QED
    BY <2>5, <2>11, <2>16, <2>17, <2>18 DEF V
<1> QED
  BY <1>3, <1>4, <1>5

VisitedOn(space, bus) == {a \in Visited(space) : a[1] = bus}

\* What scan_bus() finds, given what its nested calls find.
LEMMA BusElements ==
  ASSUME NEW space, Addressed(space), NEW below \in Below(space), NEW bus
  PROVE  /\ DevicesOn(space, below, bus) \in Seq(DOMAIN space)
         /\ \A x : x \in ToSet(DevicesOn(space, below, bus)) <=>
                     \E a \in VisitedOn(space, bus) : x \in ToSet(check_function(space, below, a))
         /\ Apart(space, below, VisitedOn(space, bus)) => IsInjective(DevicesOn(space, below, bus))
<1> DEFINE S == DOMAIN space
           V == VisitedOn(space, bus)
           W(i) == VisitedOf(space, bus, i - 1)
           cf(a) == check_function(space, below, a)
<1>1. PICK lists : lists = [i \in 1 .. 32 |-> check_device(space, below, bus, i - 1)]
  OBVIOUS
<1>2. DevicesOn(space, below, bus) = FlattenSeq(lists)
  BY <1>1 DEF DevicesOn, MAX_DEVICES_PER_BUS
<1>3. ASSUME NEW i \in 1 .. 32
      PROVE  /\ lists[i] \in Seq(S)
             /\ \A x : x \in ToSet(lists[i]) <=> \E a \in W(i) : x \in ToSet(cf(a))
             /\ Apart(space, below, W(i)) => IsInjective(lists[i])
  <2>1. lists[i] = check_device(space, below, bus, i - 1)
    BY <1>1
  <2>2. PICK d : d = i - 1
    OBVIOUS
  <2>3. /\ check_device(space, below, bus, d) \in Seq(S)
        /\ \A x : x \in ToSet(check_device(space, below, bus, d)) <=>
                    \E a \in VisitedOf(space, bus, d) : x \in ToSet(cf(a))
        /\ Apart(space, below, VisitedOf(space, bus, d)) => IsInjective(check_device(space, below, bus, d))
    BY DeviceElements
  <2> QED
    BY <2>1, <2>2, <2>3, Zenon
<1>4. lists \in Seq(Seq(S)) /\ Len(lists) = 32
  <2>1. \A i \in 1 .. 32 : lists[i] \in Seq(S)
    BY <1>3
  <2>2. lists = [i \in 1 .. 32 |-> lists[i]] /\ 32 \in Nat
    BY <1>1
  <2>3. lists \in Seq(Seq(S))
    BY <2>1, <2>2, MadeLists
  <2> QED
    BY <1>1, <2>3
<1>5. \A x : x \in ToSet(FlattenSeq(lists)) <=> \E i \in 1 .. 32 : x \in ToSet(lists[i])
  BY <1>4, FlatElements
<1>6. ASSUME NEW a \in V PROVE \E i \in 1 .. 32 : a \in W(i)
  <2>1. a \in Visited(space) /\ a[1] = bus
    BY DEF VisitedOn
  <2>2. a[2] \in 0..31
    BY <2>1, AddressParts
  <2>3. PICK k : k = a[2] + 1
    OBVIOUS
  <2>4. k \in 1 .. 32 /\ k - 1 = a[2]
    BY <2>2, <2>3
  <2>5. a \in W(k)
    BY <2>1, <2>4 DEF VisitedOf
  <2> QED
    BY <2>4, <2>5
<1>7. \A i \in 1 .. 32 : \A a \in W(i) : a \in V
  BY DEF VisitedOf, VisitedOn
<1>8. \A i, j \in 1 .. 32 : i # j => \A a \in W(i), b \in W(j) : a # b
  <2> SUFFICES ASSUME NEW i \in 1 .. 32, NEW j \in 1 .. 32, i # j, NEW a \in W(i), NEW b \in W(j), a = b
               PROVE  FALSE
    BY Zenon
  <2>1. a[2] = i - 1 /\ b[2] = j - 1
    BY DEF VisitedOf
  <2> QED
    BY <2>1
<1> HIDE DEF V, W
<1>9. FlattenSeq(lists) \in Seq(S)
  BY <1>4, FlattenType
<1>10. \A x : x \in ToSet(FlattenSeq(lists)) <=> \E a \in V : x \in ToSet(cf(a))
  BY <1>3, <1>5, <1>6, <1>7, Zenon
<1>11. ASSUME Apart(space, below, V) PROVE IsInjective(FlattenSeq(lists))
  <2>1. \A i \in 1 .. 32 : Apart(space, below, W(i))
    BY <1>7, <1>11, Zenon DEF Apart
  <2>2. \A i \in 1 .. 32 : IsInjective(lists[i])
    BY <1>3, <2>1
  <2>3. ASSUME NEW i \in 1 .. 32, NEW j \in 1 .. 32, i # j, NEW x, x \in ToSet(lists[i]), x \in ToSet(lists[j])
        PROVE  FALSE
    <3>1. PICK a \in W(i) : x \in ToSet(cf(a))
      BY <1>3, <2>3, Zenon
    <3>2. PICK b \in W(j) : x \in ToSet(cf(b))
      BY <1>3, <2>3, Zenon
    <3>3. a \in V /\ b \in V /\ a # b
      BY <1>7, <1>8, <2>3
    <3> QED
      BY <1>11, <3>1, <3>2, <3>3, Zenon DEF Apart, Disjoint
  <2>4. \A i, j \in 1 .. 32 : i # j => Disjoint(lists[i], lists[j])
    BY <2>3, Zenon DEF Disjoint
  <2>5. Separate(lists)
    BY <1>4, <2>2, <2>4 DEF Separate
  <2> QED
    BY <1>4, <2>5, FlatInjective
<1> QED
  BY <1>2, <1>9, <1>10, <1>11, Zenon DEF V

\* The calls of scan_bus(), by how deep they are nested.
Nesting(space, nested, n) ==
    /\ nested[0] = [b \in Buses(space) |-> <<>>]
    /\ \A d \in 1 .. n : nested[d] = [b \in Buses(space) |-> DevicesOn(space, nested[d - 1], b)]
    /\ \A d \in 0 .. n : nested[d] \in Below(space)

\* The function that scan_bus() is defined by.
LEMMA NestedCalls ==
  ASSUME NEW space, Addressed(space), NEW bus, Cardinality(Buses(space)) \in Nat
  PROVE  \E nested : /\ scan_bus(space, bus) = nested[Cardinality(Buses(space))][bus]
                     /\ Nesting(space, nested, Cardinality(Buses(space)))
<1> DEFINE n == Cardinality(Buses(space))
           B == Buses(space)
           On(x) == [b \in B |-> DevicesOn(space, x, b)]
           D(nested) == nested = [d \in 0 .. n |->
                                    [b \in B |-> IF d = 0 THEN <<>> ELSE DevicesOn(space, nested[d - 1], b)]]
           c == CHOOSE nested : D(nested)
           S == Below(space)
<1>1. PICK first : first = [b \in B |-> <<>>]
  OBVIOUS
<1>2. first \in S
  <2>1. <<>> \in Seq(DOMAIN space)
    OBVIOUS
  <2> QED
    BY <1>1, <2>1 DEF Below
<1>3. \A x \in S : On(x) \in S
  <2>1. \A x \in S, b \in B : DevicesOn(space, x, b) \in Seq(DOMAIN space)
    BY BusElements
  <2> QED
    BY <2>1, Zenon DEF Below
<1>4. PICK F : F = [d \in 0 + 1 .. n |-> [x \in S |-> On(x)]]
  OBVIOUS
<1>5. n \in Nat /\ 0 <= n /\ 0 \in Nat /\ \A r : r \in 1 .. n <=> r \in 0 + 1 .. n
  OBVIOUS
<1> HIDE DEF On, n, S, B
<1>6. /\ F \in [0 + 1 .. n -> [S -> S]]
      /\ \A i \in 0 + 1 .. n, x \in S : F[i][x] = On(x)
  BY <1>3, <1>4, Zenon
<1>7. PICK h : Defined(h, first, F, 0, n)
  BY <1>5, StepsExist
<1>8. ASSUME NEW r \in 0 .. n PROVE h[r] = IF r = 0 THEN first ELSE F[r][h[r - 1]]
  BY <1>7 DEF Defined
<1>9. Steps(h, S, first, F, 0, n)
  <2>1. \A r \in 0 + 1 .. n : r \in 0 .. n /\ r # 0
    BY <1>5
  <2>2. h[0] = first
    BY <1>5, <1>8
  <2>3. \A r \in 0 + 1 .. n : h[r] = F[r][h[r - 1]]
    BY <1>8, <2>1
  <2> QED
    BY <2>2, <2>3 DEF Steps
<1>10. \A r \in 0 .. n : h[r] \in S
  BY <1>2, <1>5, <1>6, <1>9, StepsStay
<1>11. ASSUME NEW r \in 0 .. n PROVE h[r] = IF r = 0 THEN first ELSE On(h[r - 1])
  <2>1. CASE r = 0
    BY <1>8, <2>1
  <2>2. CASE r # 0
    <3>1. r \in 0 + 1 .. n /\ r - 1 \in 0 .. n
      BY <1>5, <2>2
    <3>2. F[r][h[r - 1]] = On(h[r - 1])
      BY <1>6, <1>10, <3>1
    <3> QED
      BY <1>8, <2>2, <3>2
  <2> QED
    BY <2>1, <2>2
<1>12. \A f, r : [b \in B |-> IF r = 0 THEN <<>> ELSE DevicesOn(space, f, b)] =
                   IF r = 0 THEN first ELSE On(f)
  BY <1>1, Zenon DEF On
<1>13. D(h)
  <2>1. h = [r \in 0 .. n |-> h[r]]
    BY <1>7 DEF Defined
  <2>2. \A r \in 0 .. n : h[r] = [b \in B |-> IF r = 0 THEN <<>> ELSE DevicesOn(space, h[r - 1], b)]
    BY <1>11, <1>12, ZenonT(30)
  <2> QED
    BY <2>1, <2>2, Zenon
<1>14. D(c)
  BY <1>13, Zenon
<1>15. scan_bus(space, bus) = c[n][bus]
  BY Zenon DEF scan_bus, n, B
<1> HIDE DEF c
<1>16. \A r \in 0 .. n : c[r] = [b \in B |-> IF r = 0 THEN <<>> ELSE DevicesOn(space, c[r - 1], b)]
  BY <1>14, Zenon
<1>17. \A r \in 0 .. n : c[r] = IF r = 0 THEN first ELSE On(c[r - 1])
  BY <1>12, <1>16, ZenonT(30)
<1> HIDE DEF D
<1>18. Steps(c, S, first, F, 0, n)
  <2>1. c[0] = first
    BY <1>5, <1>17
  <2>2. ASSUME NEW r \in 0 + 1 .. n, c[r - 1] \in S PROVE c[r] = F[r][c[r - 1]]
    <3>1. r \in 0 .. n /\ r # 0
      BY <1>5
    <3>2. c[r] = On(c[r - 1])
      BY <1>17, <3>1, Zenon
    <3>3. F[r][c[r - 1]] = On(c[r - 1])
      BY <1>6, <2>2
    <3> QED
      BY <3>2, <3>3, Zenon
  <2> QED
    BY <2>1, <2>2 DEF Steps
<1>19. \A r \in 0 .. n : c[r] \in S
  BY <1>2, <1>5, <1>6, <1>18, StepsStay
<1>20. Nesting(space, c, n)
  <2>1. c[0] = [b \in B |-> <<>>]
    BY <1>1, <1>5, <1>17
  <2>2. ASSUME NEW d \in 1 .. n PROVE c[d] = [b \in B |-> DevicesOn(space, c[d - 1], b)]
    <3>1. d \in 0 .. n /\ d # 0
      BY <1>5
    <3> QED
      BY <1>17, <3>1, Zenon DEF On
  <2> QED
    BY <1>19, <2>1, <2>2, Zenon DEF Nesting, B, S
<1> QED
  BY <1>15, <1>20, Zenon DEF n

(***************************************************************************)
(* Depth.  scan_bus() calls itself for the bus behind a bridge.  On a tree *)
(* of buses, where each bridge leads one level down, the calls end before  *)
(* the levels do, and no device is below two buses of one level.           *)
(***************************************************************************)
\* A numbering of the buses by how many bridges are above them.
Levels(space, level) ==
    /\ level \in [Buses(space) -> Nat]
    /\ \A a \in Bridges(space) : level[space[a].secondary] = level[a[1]] + 1
    /\ \A a, b \in Bridges(space) : space[a].secondary = space[b].secondary => a = b

\* A set of buses with all buses below them.
ClosedUnder(space, S) == \A b \in S, c \in Buses(space) : Leads(space, b, c) => c \in S

\* What a device that is found on a bus or below it is.
IsBelow(space, level, bus, x) ==
    /\ x \in ImplementedFunctions(space) /\ space[x].type # "bridge"
    /\ level[x[1]] >= level[bus]
    /\ \A S \in SUBSET Buses(space) : bus \in S /\ ClosedUnder(space, S) => x[1] \in S

\* What has been found is there, and is found once.
SoundLists(space, level, lists) ==
    \A b \in Buses(space) :
        /\ IsInjective(lists[b])
        /\ \A x \in ToSet(lists[b]) : IsBelow(space, level, b, x)
        /\ \A c \in Buses(space) : b # c /\ level[b] = level[c] => Disjoint(lists[b], lists[c])

\* Devices are on buses, and bridges lead to buses.
LEMMA VisitedBuses ==
  ASSUME NEW space, NEW a \in Visited(space)
  PROVE  /\ a \in DOMAIN space /\ a \in ImplementedFunctions(space)
         /\ a[1] \in Buses(space) /\ space[a].secondary \in Buses(space)
         /\ space[a].type = "bridge" => a \in Bridges(space)
BY DEF Visited, ImplementedFunctions, Buses, Bridges

\* A function contributes itself, or what is below the bridge it is.
LEMMA FunctionFinds ==
  ASSUME NEW space, NEW level, Levels(space, level), NEW below \in Below(space),
         SoundLists(space, level, below), NEW a \in Visited(space)
  PROVE  /\ IsInjective(check_function(space, below, a))
         /\ \A x \in ToSet(check_function(space, below, a)) : IsBelow(space, level, a[1], x)
<1>1. /\ a \in DOMAIN space /\ a \in ImplementedFunctions(space)
      /\ a[1] \in Buses(space) /\ space[a].secondary \in Buses(space)
      /\ space[a].type = "bridge" => a \in Bridges(space)
  BY VisitedBuses
<1>2. CASE space[a].type # "bridge"
  <2>1. check_function(space, below, a) = <<a>>
    BY <1>2 DEF check_function
  <2>2. IsInjective(<<a>>) /\ ToSet(<<a>>) = {a}
    BY DEF IsInjective, ToSet
  <2>3. level[a[1]] \in Nat
    BY <1>1 DEF Levels
  <2>4. level[a[1]] >= level[a[1]]
    BY <2>3
  <2>5. IsBelow(space, level, a[1], a)
    BY <1>1, <1>2, <2>4, Zenon DEF IsBelow
  <2> QED
    BY <2>1, <2>2, <2>5, Zenon
<1>3. CASE space[a].type = "bridge"
  <2>1. PICK c : c = space[a].secondary
    OBVIOUS
  <2>2. c \in Buses(space) /\ a \in Bridges(space) /\ level[c] = level[a[1]] + 1
    BY <1>1, <1>3, <2>1 DEF Levels
  <2>3. check_function(space, below, a) = below[c]
    BY <1>3, <2>1 DEF check_function
  <2>4. IsInjective(below[c])
    BY <2>2 DEF SoundLists
  <2>5. Leads(space, a[1], c)
    BY <2>1, <2>2 DEF Leads
  <2>6. ASSUME NEW x \in ToSet(below[c]) PROVE IsBelow(space, level, a[1], x)
    <3>1. IsBelow(space, level, c, x)
      BY <2>2 DEF SoundLists
    <3>2. x \in ImplementedFunctions(space) /\ space[x].type # "bridge" /\ level[x[1]] >= level[c]
      BY <3>1 DEF IsBelow
    <3>3. x[1] \in Buses(space)
      BY <3>2 DEF ImplementedFunctions, Buses
    <3>4. level[x[1]] \in Nat /\ level[a[1]] \in Nat
      BY <1>1, <3>3 DEF Levels
    <3>5. level[x[1]] >= level[a[1]]
      BY <2>2, <3>2, <3>4
    <3>6. ASSUME NEW S \in SUBSET Buses(space), a[1] \in S, ClosedUnder(space, S) PROVE x[1] \in S
      <4>1. c \in S
        BY <2>2, <2>5, <3>6 DEF ClosedUnder
      <4> QED
        BY <3>1, <3>6, <4>1 DEF IsBelow
    <3> QED
      BY <3>2, <3>5, <3>6, Zenon DEF IsBelow
  <2> QED
    BY <2>3, <2>4, <2>6
<1> QED
  BY <1>2, <1>3

\* Two functions on the same level lead to different devices.
LEMMA FunctionsApart ==
  ASSUME NEW space, NEW level, Levels(space, level), NEW below \in Below(space),
         SoundLists(space, level, below), NEW a \in Visited(space), NEW b \in Visited(space), a # b,
         level[a[1]] = level[b[1]]
  PROVE  Disjoint(check_function(space, below, a), check_function(space, below, b))
<1>1. ASSUME NEW f \in Visited(space), space[f].type = "bridge",
             NEW x, x \in ToSet(check_function(space, below, f))
      PROVE  level[x[1]] >= level[f[1]] + 1
  <2>1. PICK c : c = space[f].secondary
    OBVIOUS
  <2>2. c \in Buses(space) /\ level[c] = level[f[1]] + 1
    BY <1>1, <2>1, VisitedBuses DEF Levels
  <2>3. x \in ToSet(below[c])
    BY <1>1, <2>1 DEF check_function
  <2>4. IsBelow(space, level, c, x)
    BY <2>2, <2>3 DEF SoundLists
  <2> QED
    BY <2>2, <2>4 DEF IsBelow
<1>2. ASSUME NEW f \in Visited(space), space[f].type # "bridge",
             NEW x, x \in ToSet(check_function(space, below, f))
      PROVE  x = f
  <2>1. check_function(space, below, f) = <<f>>
    BY <1>2 DEF check_function
  <2>2. ToSet(<<f>>) = {f}
    BY DEF ToSet
  <2> QED
    BY <1>2, <2>1, <2>2, Zenon
<1>3. SUFFICES ASSUME NEW x, x \in ToSet(check_function(space, below, a)),
                      x \in ToSet(check_function(space, below, b))
               PROVE  FALSE
  BY Zenon DEF Disjoint
<1>4. level[a[1]] \in Nat /\ level[b[1]] \in Nat
  BY VisitedBuses DEF Levels
<1>5. CASE space[a].type # "bridge" /\ space[b].type # "bridge"
  BY <1>2, <1>3, <1>5
<1>6. CASE space[a].type = "bridge" /\ space[b].type # "bridge"
  <2>1. x = b
    BY <1>2, <1>3, <1>6
  <2>2. level[b[1]] >= level[a[1]] + 1
    BY <1>1, <1>3, <1>6, <2>1
  <2> QED
    BY <1>4, <2>2
<1>7. CASE space[a].type # "bridge" /\ space[b].type = "bridge"
  <2>1. x = a
    BY <1>2, <1>3, <1>7
  <2>2. level[a[1]] >= level[b[1]] + 1
    BY <1>1, <1>3, <1>7, <2>1
  <2> QED
    BY <1>4, <2>2
<1>8. CASE space[a].type = "bridge" /\ space[b].type = "bridge"
  <2>1. PICK c, d : c = space[a].secondary /\ d = space[b].secondary
    OBVIOUS
  <2>2. a \in Bridges(space) /\ b \in Bridges(space) /\ c \in Buses(space) /\ d \in Buses(space)
    BY <1>8, <2>1, VisitedBuses
  <2>3. c # d /\ level[c] = level[d]
    BY <2>1, <2>2 DEF Levels
  <2>4. x \in ToSet(below[c]) /\ x \in ToSet(below[d])
    BY <1>3, <1>8, <2>1 DEF check_function
  <2> QED
    BY <2>2, <2>3, <2>4 DEF SoundLists, Disjoint
<1> QED
  BY <1>5, <1>6, <1>7, <1>8

\* One more level.
LEMMA SoundStep ==
  ASSUME NEW space, Addressed(space), NEW level, Levels(space, level), NEW below \in Below(space),
         SoundLists(space, level, below)
  PROVE  SoundLists(space, level, [b \in Buses(space) |-> DevicesOn(space, below, b)])
<1>1. PICK lists : lists = [b \in Buses(space) |-> DevicesOn(space, below, b)]
  OBVIOUS
<1>2. ASSUME NEW b \in Buses(space)
      PROVE  /\ \A x : x \in ToSet(lists[b]) <=>
                         \E a \in VisitedOn(space, b) : x \in ToSet(check_function(space, below, a))
             /\ Apart(space, below, VisitedOn(space, b)) => IsInjective(lists[b])
  <2>1. lists[b] = DevicesOn(space, below, b)
    BY <1>1
  <2>2. /\ \A x : x \in ToSet(DevicesOn(space, below, b)) <=>
                    \E a \in VisitedOn(space, b) : x \in ToSet(check_function(space, below, a))
        /\ Apart(space, below, VisitedOn(space, b)) => IsInjective(DevicesOn(space, below, b))
    BY BusElements
  <2> QED
    BY <2>1, <2>2, Zenon
<1>3. \A b : \A a \in VisitedOn(space, b) : a \in Visited(space) /\ a[1] = b
  BY DEF VisitedOn
<1>4. ASSUME NEW b \in Buses(space) PROVE IsInjective(lists[b])
  <2>1. \A a \in VisitedOn(space, b) : IsInjective(check_function(space, below, a))
    BY <1>3, FunctionFinds
  <2>2. \A a, f \in VisitedOn(space, b) : a # f =>
          Disjoint(check_function(space, below, a), check_function(space, below, f))
    BY <1>3, FunctionsApart
  <2> QED
    BY <1>2, <2>1, <2>2, Zenon DEF Apart
<1>5. ASSUME NEW b \in Buses(space), NEW x \in ToSet(lists[b]) PROVE IsBelow(space, level, b, x)
  <2>1. PICK a \in VisitedOn(space, b) : x \in ToSet(check_function(space, below, a))
    BY <1>2, Zenon
  <2> QED
    BY <1>3, <2>1, FunctionFinds
<1>6. ASSUME NEW b \in Buses(space), NEW c \in Buses(space), b # c, level[b] = level[c]
      PROVE  Disjoint(lists[b], lists[c])
  <2> SUFFICES ASSUME NEW x, x \in ToSet(lists[b]), x \in ToSet(lists[c]) PROVE FALSE
    BY Zenon DEF Disjoint
  <2>1. PICK a \in VisitedOn(space, b) : x \in ToSet(check_function(space, below, a))
    BY <1>2, Zenon
  <2>2. PICK f \in VisitedOn(space, c) : x \in ToSet(check_function(space, below, f))
    BY <1>2, Zenon
  <2>3. a \in Visited(space) /\ f \in Visited(space) /\ a # f /\ level[a[1]] = level[f[1]]
    BY <1>3, <1>6
  <2>4. Disjoint(check_function(space, below, a), check_function(space, below, f))
    BY <2>3, FunctionsApart
  <2> QED
    BY <2>1, <2>2, <2>4 DEF Disjoint
<1>7. SoundLists(space, level, lists)
  BY <1>4, <1>5, <1>6, Zenon DEF SoundLists
<1> QED
  BY <1>1, <1>7

\* At every depth, what has been found is there and is found once.
LEMMA SoundNesting ==
  ASSUME NEW space, Addressed(space), NEW level, Levels(space, level), NEW n \in Nat,
         NEW nested, Nesting(space, nested, n)
  PROVE  \A d \in 0 .. n : SoundLists(space, level, nested[d])
<1> DEFINE A == {d \in 0 .. n : ~SoundLists(space, level, nested[d])}
<1>1. SUFFICES ASSUME A # {} PROVE FALSE
  OBVIOUS
<1>2. A \in SUBSET Nat
  OBVIOUS
<1>3. PICK m \in A : \A a \in A : ~(a < m)
  BY <1>1, <1>2, LeastNumber
<1>4. m \in 0 .. n /\ ~SoundLists(space, level, nested[m])
  OBVIOUS
<1>5. CASE m = 0
  <2>1. \A b \in Buses(space) : nested[0][b] = <<>>
    BY DEF Nesting
  <2>2. IsInjective(<<>>) /\ \A x : x \notin ToSet(<<>>)
    BY DEF IsInjective, ToSet
  <2>3. SoundLists(space, level, nested[0])
    BY <2>1, <2>2, Zenon DEF SoundLists, Disjoint
  <2> QED
    BY <1>4, <1>5, <2>3
<1>6. CASE m # 0
  <2>1. m - 1 \in 0 .. n /\ m - 1 < m /\ m \in 1 .. n
    BY <1>4, <1>6
  <2>2. PICK below : below = nested[m - 1]
    OBVIOUS
  <2>3. below \in Below(space) /\ SoundLists(space, level, below)
    BY <1>3, <2>1, <2>2 DEF Nesting
  <2>4. nested[m] = [b \in Buses(space) |-> DevicesOn(space, below, b)]
    BY <2>1, <2>2 DEF Nesting
  <2>5. SoundLists(space, level, nested[m])
    BY <2>3, <2>4, SoundStep
  <2> QED
    BY <1>4, <2>5
<1> QED
  BY <1>5, <1>6

\* Where no bridge is behind a gap, what is found on a bus is found from bus 0.
LEMMA CompleteNesting ==
  ASSUME NEW space, Addressed(space), NEW level, Levels(space, level), level[0] = 0, NEW n \in Nat,
         \A b \in Buses(space) : level[b] < n, 0 \in Buses(space),
         NEW nested, Nesting(space, nested, n), \A a \in Bridges(space) : ~BehindGap(space, a),
         NEW bus \in ConnectedBuses(space)
  PROVE  /\ n - level[bus] \in 1 .. n /\ bus \in Buses(space)
         /\ ToSet(nested[n - level[bus]][bus]) \subseteq ToSet(nested[n][0])
<1> DEFINE V == {b \in Buses(space) : ToSet(nested[n - level[b]][b]) \subseteq ToSet(nested[n][0])}
<1>1. \A b \in Buses(space) : level[b] \in Nat /\ n - level[b] \in 1 .. n
  <2>1. \A b \in Buses(space) : level[b] \in Nat
    BY DEF Levels
  <2> QED
    BY <2>1
<1>2. 0 \in V
  <2>1. n - level[0] = n
    OBVIOUS
  <2> QED
    BY <2>1, Zenon
<1>3. ASSUME NEW b \in V, NEW c \in Buses(space), Leads(space, b, c) PROVE c \in V
  <2>1. PICK a \in Bridges(space) : a[1] = b /\ space[a].secondary = c
    BY <1>3 DEF Leads
  <2>2. a \in VisitedOn(space, b) /\ space[a].type = "bridge"
    BY <2>1 DEF VisitedOn, Visited, Bridges
  <2>3. PICK d : d = n - level[b]
    OBVIOUS
  <2>4. d \in 1 .. n /\ d - 1 = n - level[c] /\ d - 1 \in 0 .. n
    <3>1. level[c] = level[b] + 1
      BY <2>1 DEF Levels
    <3>2. b \in Buses(space)
      OBVIOUS
    <3> QED
      BY <1>1, <2>3, <3>1, <3>2
  <2>5. PICK below : below = nested[d - 1]
    OBVIOUS
  <2>6. below \in Below(space) /\ nested[d][b] = DevicesOn(space, below, b)
    <3>1. nested[d] = [y \in Buses(space) |-> DevicesOn(space, below, y)]
      BY <2>4, <2>5 DEF Nesting
    <3>2. below \in Below(space)
      BY <2>4, <2>5 DEF Nesting
    <3>3. b \in Buses(space)
      OBVIOUS
    <3> QED
      BY <3>1, <3>2, <3>3
  <2>7. check_function(space, below, a) = below[c]
    BY <2>1, <2>2 DEF check_function
  <2>8. \A x : x \in ToSet(DevicesOn(space, below, b)) <=>
                 \E f \in VisitedOn(space, b) : x \in ToSet(check_function(space, below, f))
    BY <2>6, BusElements
  <2>9. ToSet(below[c]) \subseteq ToSet(nested[d][b])
    BY <2>2, <2>6, <2>7, <2>8, Zenon
  <2>10. ToSet(nested[d][b]) \subseteq ToSet(nested[n][0])
    BY <2>3
  <2>11. ToSet(nested[n - level[c]][c]) \subseteq ToSet(nested[n][0])
    BY <2>4, <2>5, <2>9, <2>10, Zenon
  <2> QED
    BY <2>11, Zenon
<1>4. V \in SUBSET Buses(space)
  OBVIOUS
<1> HIDE DEF V
<1>5. 0 \in V /\ \A b \in V, c \in Buses(space) : Leads(space, b, c) => c \in V
  BY <1>2, <1>3, Zenon
<1>6. bus \in V
  BY <1>4, <1>5, Zenon DEF ConnectedBuses
<1>7. bus \in Buses(space)
  BY <1>4, <1>6
<1> QED
  BY <1>1, <1>6, <1>7, Zenon DEF V

\* The buses are numbered with 8 bits.
LEMMA BusesFinite ==
  ASSUME NEW space, Addressed(space), \A a \in DOMAIN space : space[a].secondary \in 0..255
  PROVE  Cardinality(Buses(space)) \in Nat /\ 0 \in Buses(space)
<1>1. \A a \in DOMAIN space : a[1] \in 0..255
  BY DEF Addressed
<1>2. Buses(space) \subseteq 0..255
  BY <1>1 DEF Buses
<1>3. IsFiniteSet(0..255)
  <2>1. \A a, b \in Int : IsFiniteSet(a .. b)
    BY FS_Interval
  <2>2. 0 \in Int /\ 255 \in Int
    OBVIOUS
  <2> QED
    BY <2>1, <2>2, Zenon
<1>4. IsFiniteSet(Buses(space))
  BY <1>2, <1>3, FS_Subset
<1> QED
  BY <1>4, FS_CardinalityType DEF Buses

\* What a scan finds.
FindsEachDevice(space, devices) ==
    /\ IsInjective(devices)
    /\ ToSet(devices) \subseteq Endpoints(space)
    /\ \A a \in Endpoints(space) \ ToSet(devices) :
           \E b \in ImplementedFunctions(space) :
               BehindGap(space, b) /\ (b = a \/ space[b].type = "bridge")

\* On a tree of buses the scan finds each device it can get to, and finds it once.
LEMMA ScanFinds ==
  ASSUME NEW space, Addressed(space), \A a \in DOMAIN space : space[a].secondary \in 0..255,
         BridgesFormTree(space)
  PROVE  FindsEachDevice(space, scan_bus(space, 0))
<1>1. PICK n : n = Cardinality(Buses(space))
  OBVIOUS
<1>2. n \in Nat /\ 0 \in Buses(space)
  BY <1>1, BusesFinite
<1>3. PICK level \in [Buses(space) -> 0 .. n - 1] :
        level[0] = 0 /\ \A a \in Bridges(space) : level[space[a].secondary] = level[a[1]] + 1
  BY <1>1, Zenon DEF BridgesFormTree
<1>4. Levels(space, level) /\ \A b \in Buses(space) : level[b] < n
  <2>1. \A b \in Buses(space) : level[b] \in Nat /\ level[b] < n
    BY <1>2, <1>3
  <2>2. level \in [Buses(space) -> Nat]
    BY <1>3, <2>1
  <2>3. \A a, b \in Bridges(space) : space[a].secondary = space[b].secondary => a = b
    BY Zenon DEF BridgesFormTree
  <2> QED
    BY <1>3, <2>1, <2>2, <2>3 DEF Levels
<1>5. PICK nested : scan_bus(space, 0) = nested[n][0] /\ Nesting(space, nested, n)
  BY <1>1, <1>2, NestedCalls
<1>6. PICK devices : devices = nested[n][0]
  OBVIOUS
<1>7. SoundLists(space, level, nested[n])
  BY <1>2, <1>4, <1>5, SoundNesting
<1>8. IsInjective(devices)
  BY <1>2, <1>6, <1>7 DEF SoundLists
<1>9. ASSUME NEW x \in ToSet(devices) PROVE x \in Endpoints(space)
  <2>1. IsBelow(space, level, 0, x)
    BY <1>2, <1>6, <1>7 DEF SoundLists
  <2>2. x \in ImplementedFunctions(space) /\ space[x].type # "bridge"
    BY <2>1 DEF IsBelow
  <2>3. x[1] \in Buses(space)
    BY <2>2 DEF ImplementedFunctions, Buses
  <2>4. \A S \in SUBSET Buses(space) :
          0 \in S /\ (\A b \in S, c \in Buses(space) : Leads(space, b, c) => c \in S) => x[1] \in S
    BY <2>1, Zenon DEF IsBelow, ClosedUnder
  <2>5. x[1] \in ConnectedBuses(space)
    BY <2>3, <2>4, Zenon DEF ConnectedBuses
  <2> QED
    BY <2>2, <2>5 DEF Endpoints
<1>10. ASSUME NEW e \in Endpoints(space),
              \A b \in ImplementedFunctions(space) :
                  ~(BehindGap(space, b) /\ (b = e \/ space[b].type = "bridge"))
       PROVE  e \in ToSet(devices)
  <2>1. e \in ImplementedFunctions(space) /\ e[1] \in ConnectedBuses(space) /\ space[e].type # "bridge"
    BY DEF Endpoints
  <2>2. \A a \in Bridges(space) : ~BehindGap(space, a)
    BY <1>10 DEF Bridges
  <2>3. e \in VisitedOn(space, e[1])
    BY <1>10, <2>1 DEF VisitedOn, Visited
  <2>4. PICK bus : bus = e[1]
    OBVIOUS
  <2>5. /\ n - level[bus] \in 1 .. n /\ bus \in Buses(space)
        /\ ToSet(nested[n - level[bus]][bus]) \subseteq ToSet(nested[n][0])
    BY <1>2, <1>3, <1>4, <1>5, <2>1, <2>2, <2>4, CompleteNesting
  <2>6. PICK d, below : d = n - level[bus] /\ below = nested[d - 1]
    OBVIOUS
  <2>7. d \in 1 .. n /\ d - 1 \in 0 .. n
    BY <1>2, <2>5, <2>6
  <2>8. below \in Below(space) /\ nested[d] = [b \in Buses(space) |-> DevicesOn(space, below, b)]
    BY <1>5, <2>6, <2>7 DEF Nesting
  <2>9. nested[d][bus] = DevicesOn(space, below, bus)
    BY <2>5, <2>8
  <2>10. \A x : x \in ToSet(DevicesOn(space, below, bus)) <=>
                  \E f \in VisitedOn(space, bus) : x \in ToSet(check_function(space, below, f))
    BY <2>8, BusElements
  <2>11. e \in ToSet(check_function(space, below, e))
    <3>1. check_function(space, below, e) = <<e>>
      BY <2>1 DEF check_function
    <3>2. ToSet(<<e>>) = {e}
      BY DEF ToSet
    <3> QED
      BY <3>1, <3>2, Zenon
  <2>12. e \in ToSet(nested[d][bus])
    BY <2>3, <2>4, <2>9, <2>10, <2>11, Zenon
  <2> QED
    BY <1>6, <2>5, <2>6, <2>12, Zenon
<1>11. FindsEachDevice(space, devices)
  BY <1>8, <1>9, <1>10, Zenon DEF FindsEachDevice
<1> QED
  BY <1>5, <1>6, <1>11

(***************************************************************************)
(* The scan in the driver.                                                 *)
(***************************************************************************)
\* The driver looks for its card in what the scan has returned.
ScanKept == driver.at = "find" => driver.devices = scan(machine.pci)

\* Nothing has been scanned at first.
LEMMA ScanInit == Init => ScanKept
<1> SUFFICES ASSUME Init PROVE ScanKept
  OBVIOUS
<1>1. driver.at = "pci"
  BY DEF Init
<1> QED
  BY <1>1 DEF ScanKept

\* The card has no part in it.
LEMMA ScanCard == ScanKept /\ Card => ScanKept'
<1> SUFFICES ASSUME ScanKept, Card PROVE ScanKept'
  OBVIOUS
<1> USE DEF ScanKept
<1>1. CASE AckCrst
  BY <1>1 DEF AckCrst
<1>2. CASE AckCorbrun
  BY <1>2 DEF AckCorbrun
<1>3. CASE AckCorbrprst
  BY <1>3 DEF AckCorbrprst
<1>4. CASE AckSrst
  BY <1>4 DEF AckSrst
<1>5. CASE FetchCommand
  BY <1>5 DEF FetchCommand
<1>6. CASE AnswerCommand
  BY <1>6 DEF AnswerCommand
<1>7. CASE CompleteBuffer
  BY <1>7 DEF CompleteBuffer
<1> QED
  BY <1>1, <1>2, <1>3, <1>4, <1>5, <1>6, <1>7 DEF Card

\* init_pci() keeps what the scan returns.
LEMMA ScanDriver == ScanKept /\ Shapes /\ Driver => ScanKept'
<1> SUFFICES ASSUME ScanKept, Shapes, Driver PROVE ScanKept'
  OBVIOUS
<1> USE DEF ScanKept, Shapes, DriverFields, At, Goto, Sdctl, Panic
<1>1. CASE init_pci
  <2>1. CASE ScanPanics(machine.pci)
    BY <1>1, <2>1 DEF init_pci
  <2>2. CASE ~ScanPanics(machine.pci)
    <3>1. PICK devices : devices = scan(machine.pci)
      OBVIOUS
    <3>2. /\ driver' = [driver EXCEPT !.at = "find", !.waited = 0, !.devices = devices]
          /\ machine' = machine
      BY <1>1, <2>2, <3>1 DEF init_pci
    <3>3. driver'.devices = devices
      BY <3>2
    <3> QED
      BY <3>1, <3>2, <3>3
  <2> QED
    BY <2>1, <2>2
<1>2. CASE find_ihda_device
  BY <1>2 DEF find_ihda_device
<1>3. CASE connect_device_to_apic
  BY <1>3 DEF connect_device_to_apic
<1>4. CASE reset
  BY <1>4 DEF reset
<1>5. CASE configure
  BY <1>5 DEF configure
<1>6. CASE stop_corb_dma
  BY <1>6 DEF stop_corb_dma
<1>7. CASE init_corb
  BY <1>7 DEF init_corb
<1>8. CASE init_rirb
  BY <1>8 DEF init_rirb
<1>9. CASE start_corb
  BY <1>9 DEF start_corb
<1>10. CASE start_rirb
  BY <1>10 DEF start_rirb
<1>11. CASE test_corb_and_rirb
  BY <1>11 DEF test_corb_and_rirb
<1>12. CASE CheckResponses
  BY <1>12 DEF CheckResponses
<1>13. CASE Stream_new
  BY <1>13 DEF Stream_new
<1>14. CASE sdctl_read
  BY <1>14 DEF sdctl_read
<1>15. CASE sdctl_write
  <2>1. driver.op \in {"clear_run", "set_srst", "clear_srst", "set_id", "run"}
    BY <1>15 DEF sdctl_write
  <2>2. driver'.at \in {"sdctl_read", "srst_wait", "srst_clear_wait", "fill", "test_dma", "done"}
    BY <1>15, <2>1 DEF sdctl_write, AfterSdctl
  <2> QED
    BY <2>2
<1>16. CASE srst_is_set
  BY <1>16 DEF srst_is_set
<1>17. CASE srst_is_clear
  BY <1>17 DEF srst_is_clear
<1>18. CASE configure_sd
  BY <1>18 DEF configure_sd
<1>19. CASE test_dma_position_buffer
  BY <1>19 DEF test_dma_position_buffer
<1>20. CASE write_command_to_icoi
  BY <1>20 DEF write_command_to_icoi
<1>21. CASE icsts_read
  BY <1>21 DEF icsts_read
<1>22. CASE set_immediate_command_busy_bit
  BY <1>22 DEF set_immediate_command_busy_bit
<1>23. CASE result_is_valid
  BY <1>23 DEF result_is_valid
<1>24. CASE read_response_from_icii
  BY <1>24 DEF read_response_from_icii
<1>25. CASE CommandsDone
  BY <1>25 DEF CommandsDone
<1>26. CASE demo_bachelor_presentation
  BY <1>26 DEF demo_bachelor_presentation
<1>27. CASE configure_codec_for_line_out_playback
  BY <1>27 DEF configure_codec_for_line_out_playback
<1>28. CASE TimeOut
  BY <1>28 DEF TimeOut
<1> QED
  BY <1>1, <1>2, <1>3, <1>4, <1>5, <1>6, <1>7, <1>8, <1>9, <1>10, <1>11, <1>12, <1>13, <1>14,
     <1>15, <1>16, <1>17, <1>18, <1>19, <1>20, <1>21, <1>22, <1>23, <1>24, <1>25, <1>26, <1>27, <1>28 DEF Driver

\* Nor has time.
LEMMA ScanTick == ScanKept /\ Shapes /\ (Tick \/ UNCHANGED vars) => ScanKept'
BY DEF ScanKept, Shapes, DriverFields, Waiting, Tick, vars

\* On every machine whose buses the firmware has numbered as a tree, the scan finds each endpoint
\* exactly once, whatever the order of the buses and however deep they are, unless it is behind a
\* gap in the functions of a device, or a bridge on the way is.
THEOREM EachDeviceIsFound == Spec => []ScanFindsEachDevice
<1>1. CommandInFlight /\ ScanKept /\ [Next]_vars => (CommandInFlight /\ ScanKept)'
  <2>1. CommandInFlight => Shapes
    BY DEF CommandInFlight
  <2> QED
    BY <2>1, CommandCard, CommandDriver, CommandTick, ScanCard, ScanDriver, ScanTick DEF Next
<1>2. machine \in Machines /\ ScanKept => ScanFindsEachDevice
  <2> SUFFICES ASSUME machine \in Machines, ScanKept, driver.at = "find", Exists(machine.pci, Root)
               PROVE  FindsEachDevice(machine.pci, driver.devices)
    BY Zenon DEF ScanFindsEachDevice, FindsEachDevice
  <2>1. PICK space : space = machine.pci
    OBVIOUS
  <2>2. /\ Addressed(space) /\ \A a \in DOMAIN space : space[a].secondary \in 0..255
        /\ BridgesFormTree(space)
    BY <2>1, PciAssumption, ZenonT(30) DEF Addressed
  <2>3. driver.devices = scan_bus(space, 0)
    BY <2>1 DEF ScanKept, scan
  <2>4. FindsEachDevice(space, scan_bus(space, 0))
    BY <2>2, ScanFinds
  <2> QED
    BY <2>1, <2>3, <2>4, Zenon
<1>3. SoundInvariant => machine \in Machines
  BY DEF SoundInvariant, Registers
<1>4. Init => SoundInvariant
  BY CommandInit, EngineInit, RegistersInit, BuffersInit, CommandsInit DEF SoundInvariant
<1> QED
  BY <1>1, <1>2, <1>3, <1>4, CommandInit, ScanInit, SoundInductive, PTL DEF Spec
=============================================================================
