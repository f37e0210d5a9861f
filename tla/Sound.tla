------------------------------- MODULE Sound -------------------------------
(***************************************************************************)
(* The driver for Intel HD Audio sound cards (os/kernel/src/device/        *)
(* ihda_api.rs, ihda_controller.rs, ihda_codec.rs, ihda_pci.rs), which     *)
(* boot.rs starts before the scheduler runs, and the card it drives.       *)
(*                                                                         *)
(* The driver is sequential; the card works beside it.  A register access  *)
(* is a step of its own where the card can change the register between a   *)
(* read and the write that follows it.  The card is described by how the   *)
(* driver uses it: bits it acknowledges some time after they are written,  *)
(* status bits that are cleared by writing 1, commands it answers or not.  *)
(*                                                                         *)
(* A 32 bit value is the pair of its halves <<bits 31..16, bits 15..0>>.   *)
(***************************************************************************)
EXTENDS Integers, Sequences, SequencesExt, FiniteSets, TLC, PciBus

CONSTANTS
    Machines,       \* machines to run on: PCI configuration space, whether under QEMU, interrupt line,
                    \* size of the CORB, addresses of the codecs, their answers by command, and
                    \* the nodes from the line out jack back to a converter
    VectorLines,    \* interrupt lines for which there is an InterruptVector
    Timeout         \* bound standing for the timeouts, in ticks of the timer

ASSUME SoundAssumption == Timeout \in Nat

\* Buses, devices and functions have numbers of 8, 5 and 3 bits, and the firmware has numbered
\* the buses as a tree (no bridge leads back up, which would make the scan endless).
ASSUME PciAssumption ==
    \A m \in Machines :
        /\ DOMAIN m.pci \subseteq (0..255) \X (0..31) \X (0..7)
        /\ \A a \in DOMAIN m.pci : m.pci[a].secondary \in 0..255
        /\ BridgesFormTree(m.pci)

VARIABLES
    machine,    \* the machine, chosen at the start and then constant
    card,       \* registers of the controller
    sd,         \* registers of the first output stream descriptor
    codec,      \* what commands have set in the widgets: stream, format, amp, pin
    driver,     \* where the driver is, and its local variables
    found,      \* the codecs the scan has found, with their groups and widgets
    dma,        \* ranges of frames allocated for the card, in the order of allocation
    memory,     \* the buffer descriptor lists, by the address they start at
    panic       \* why the driver has panicked, or ""

vars == <<machine, card, sd, codec, driver, found, dma, memory, panic>>

\* f with another value at key, which may be new.
Put(f, key, value) == [k \in {key} \cup DOMAIN f |-> IF k = key THEN value ELSE f[k]]
-----------------------------------------------------------------------------
(* Commands (ihda_codec.rs). *)

Halves == 0..65535
Words == Halves \X Halves
Zero == <<0, 0>>

Node(address, id) == [codec |-> address, node |-> id]
Command(verb, node, payload) ==
    [verb |-> verb, codec |-> node.codec, node |-> node.node, payload |-> payload]

Verbs == {"GetParameter", "GetConnectionListEntry", "SetAmplifierGainMute", "SetStreamFormat",
          "SetChannelStreamId", "GetPinWidgetControl", "SetPinWidgetControl",
          "GetConfigurationDefault"}

Get == 3840                         \* 0xF00; the set commands are 0x7..
Set == 1792
Verb(cmd) ==
    [ GetParameter |-> Get, GetConnectionListEntry |-> Get + 2, SetAmplifierGainMute |-> 3,
      SetStreamFormat |-> 2, SetChannelStreamId |-> Set + 6, GetPinWidgetControl |-> Get + 7,
      SetPinWidgetControl |-> Set + 7, GetConfigurationDefault |-> Get + 28 ][cmd.verb]

Parameter ==
    [ VendorId |-> 0, RevisionId |-> 2, SubordinateNodeCount |-> 4, FunctionGroupType |-> 5,
      AudioFunctionGroupCapabilities |-> 8, AudioWidgetCapabilities |-> 9,
      SampleSizeRateCAPs |-> 10, SupportedStreamFormats |-> 11, PinCapabilities |-> 12,
      InputAmpCapabilities |-> 13, ConnectionListLength |-> 14, SupportedPowerStates |-> 15,
      ProcessingCapabilities |-> 16, GPIOCount |-> 17, OutputAmpCapabilities |-> 18 ]

GetParameter(node, parameter) == Command("GetParameter", node, Parameter[parameter])
IsParameter(cmd, parameter) == cmd.verb = "GetParameter" /\ cmd.payload = Parameter[parameter]

command_with_12bit_identifier_verb(cmd) ==
    << cmd.codec * 4096 + cmd.node * 16 + (Verb(cmd) \div 256),
       (Verb(cmd) % 256) * 256 + cmd.payload >>

command_with_4bit_identifier_verb(cmd) ==
    << cmd.codec * 4096 + cmd.node * 16 + Verb(cmd), cmd.payload >>

as_u32(cmd) == IF cmd.verb \in {"SetAmplifierGainMute", "SetStreamFormat"}
               THEN command_with_4bit_identifier_verb(cmd)
               ELSE command_with_12bit_identifier_verb(cmd)

\* payloads
AmpType == [Input |-> 1, Output |-> 2, Both |-> 3]
BothSides == 3

SetAmplifierGainMutePayload(type, gain) == AmpType[type] * 16384 + BothSides * 4096 + gain
SetChannelStreamIdPayload(channel, stream) == ((stream * 16) % 256) + channel
\* enable_input_and_output_amps(): bits 5 and 6 set, bit 7 and the voltage kept
SetPinWidgetControlPayload(raw) == ((raw[2] \div 128) % 2) * 128 + 64 + 32 + (raw[2] % 8)

\* StreamFormat::as_u16() and SetStreamFormatPayload::as_u16()
StreamFormat(channels) ==
    [channels |-> channels, bits |-> 16, divisor |-> 1, multiple |-> 1, rate |-> 48000, pcm |-> TRUE]
FormatAsU16(f) ==
    (IF f.pcm THEN 0 ELSE 32768) + (IF f.rate = 44100 THEN 16384 ELSE 0)
        + (f.multiple - 1) * 2048 + (f.divisor - 1) * 256
        + (CHOOSE code \in 0..4 : <<8, 16, 20, 24, 32>>[code + 1] = f.bits) * 16 + f.channels - 1

\* Addresses have 4 bits, of which 15 is no codec's, answers have 32, and codecs number their
\* nodes with 7, so that the sum of a first number and a count fits a u8.
ASSUME CodecsAssumption ==
    \A m \in Machines :
        /\ m.codecs \subseteq 0..14
        /\ \A raw \in DOMAIN m.answers : m.answers[raw] \in Words
        /\ \A c \in 0..14, n \in 0..255 :
               LET raw == as_u32(GetParameter(Node(c, n), "SubordinateNodeCount"))
               IN raw \in DOMAIN m.answers =>
                      (m.answers[raw][1] % 256) + (m.answers[raw][2] % 256) \in 0..255
-----------------------------------------------------------------------------
(* Responses. *)

WidgetTypes == <<"AudioOutput", "AudioInput", "AudioMixer", "AudioSelector", "PinComplex",
                 "PowerWidget", "VolumeKnobWidget", "BeepGeneratorWidget">>
WidgetType(raw) == LET type == (raw[1] \div 16) % 16
                   IN IF type = 15 THEN "VendorDefinedAudioWidget" ELSE WidgetTypes[type + 1]

\* ConfigurationDefaultResponse
port_connectivity(raw) == raw[1] \div 16384
gross_location(raw) == (raw[1] \div 4096) % 4
geometric_location(raw) == (raw[1] \div 256) % 16
default_device(raw) == (raw[1] \div 16) % 16
connection_type(raw) == raw[1] % 16

first_entry(raw) == raw[2] % 256
SubordinateNodes(raw) ==
    LET start == raw[1] % 256
    IN [i \in 1 .. raw[2] % 256 |-> start + i - 1]

\* Response::new() panics on values that are reserved.
Decodable(cmd, raw) ==
    /\ IsParameter(cmd, "FunctionGroupType") =>
           raw[2] % 256 \in {1, 2} \cup 128..255
    /\ IsParameter(cmd, "AudioWidgetCapabilities") =>
           (raw[1] \div 16) % 16 \in 0..7 \cup {15}
    /\ cmd.verb = "GetConfigurationDefault" =>
           /\ connection_type(raw) \notin {12, 13, 14}
           /\ default_device(raw) # 14
           /\ \/ geometric_location(raw) \in 0..6
              \/ geometric_location(raw) \in {7, 8} /\ gross_location(raw) # 2
              \/ geometric_location(raw) = 9 /\ gross_location(raw) = 1
    /\ cmd.verb = "GetPinWidgetControl" => raw[2] % 8 \in {0, 1, 2, 4, 5}
-----------------------------------------------------------------------------
(* The scan.  What is still to be asked is a sequence of commands; an       *)
(* answer puts the commands of the nodes it announces in front.             *)

Parameters(node, list) == [i \in DOMAIN list |-> GetParameter(node, list[i])]

MAX_AMOUNT_OF_CODECS == 15

scan_for_available_codecs(codecs) ==
    LET Queries(address) ==
            IF address \notin codecs THEN <<>>
            ELSE Parameters(Node(address, 0), <<"VendorId", "RevisionId", "SubordinateNodeCount">>)
    IN FlattenSeq([i \in 1 .. MAX_AMOUNT_OF_CODECS |-> Queries(i - 1)])

FunctionGroupQueries(node) ==
    Parameters(node, <<"FunctionGroupType", "AudioFunctionGroupCapabilities", "SampleSizeRateCAPs",
                       "SupportedStreamFormats", "InputAmpCapabilities", "OutputAmpCapabilities",
                       "SupportedPowerStates", "GPIOCount", "SubordinateNodeCount">>)

WidgetQueries(node, type) ==
    LET entries == <<Command("GetConnectionListEntry", node, 0)>>
        power   == <<"SupportedPowerStates", "ProcessingCapabilities">>
    IN CASE type = "AudioOutput" ->
              Parameters(node, <<"SampleSizeRateCAPs", "SupportedStreamFormats",
                                 "OutputAmpCapabilities">> \o power)
         [] type = "AudioInput" ->
              Parameters(node, <<"SampleSizeRateCAPs", "SupportedStreamFormats",
                                 "InputAmpCapabilities", "ConnectionListLength">> \o power)
         [] type = "AudioMixer" ->
              Parameters(node, <<"InputAmpCapabilities", "OutputAmpCapabilities",
                                 "ConnectionListLength">> \o power) \o entries
         [] type = "PinComplex" ->
              Parameters(node, <<"PinCapabilities", "InputAmpCapabilities", "OutputAmpCapabilities",
                                 "ConnectionListLength">> \o power)
                  \o <<Command("GetConfigurationDefault", node, 0)>> \o entries
         [] OTHER -> <<>>

FollowUps(cmd, raw) ==
    LET at == Node(cmd.codec, cmd.node)
        nodes == SubordinateNodes(raw)
        Below(i) == Node(cmd.codec, nodes[i])
    IN CASE IsParameter(cmd, "SubordinateNodeCount") /\ cmd.node = 0 ->
              FlattenSeq([i \in DOMAIN nodes |-> FunctionGroupQueries(Below(i))])
         [] IsParameter(cmd, "SubordinateNodeCount") /\ cmd.node # 0 ->
              [i \in DOMAIN nodes |-> GetParameter(Below(i), "AudioWidgetCapabilities")]
         [] IsParameter(cmd, "AudioWidgetCapabilities") -> WidgetQueries(at, WidgetType(raw))
         [] cmd.verb = "GetPinWidgetControl" ->
              <<Command("SetPinWidgetControl", at, SetPinWidgetControlPayload(raw))>>
         [] OTHER -> <<>>

\* What the scan remembers of an answer; the other responses are stored and never used.
Widget(node, type) == [node |-> node, type |-> type, config |-> Zero, first |-> 0]
Learnt(codecs, cmd, raw) ==
    LET c == Len(codecs)
        g == Len(codecs[c].groups)
        w == Len(codecs[c].groups[g])
    IN CASE IsParameter(cmd, "VendorId") ->
              Append(codecs, [address |-> cmd.codec, vendor_id |-> raw[1], device_id |-> raw[2],
                              groups |-> <<>>])
         [] IsParameter(cmd, "FunctionGroupType") ->
              [codecs EXCEPT ![c].groups = Append(@, <<>>)]
         [] IsParameter(cmd, "AudioWidgetCapabilities") ->
              [codecs EXCEPT ![c].groups[g] = Append(@, Widget(cmd.node, WidgetType(raw)))]
         [] cmd.verb = "GetConfigurationDefault" -> [codecs EXCEPT ![c].groups[g][w].config = raw]
         [] cmd.verb = "GetConnectionListEntry" ->
              [codecs EXCEPT ![c].groups[g][w].first = first_entry(raw)]
         [] OTHER -> codecs
-----------------------------------------------------------------------------
(* The path from the line out jack to a converter, and its configuration. *)

IsLineOutJack(widget) == /\ widget.type = "PinComplex"
                         /\ port_connectivity(widget.config) \in {0, 3}
                         /\ default_device(widget.config) = 0

\* Their positions in the list.
find_line_out_pin_widgets_connected_to_jack(widgets) ==
    {i \in DOMAIN widgets : IsLineOutJack(widgets[i])}

None == [node |-> -1, type |-> "None", config |-> Zero, first |-> 0]

get_predecessor(widgets, widget) ==
    LET here == {i \in DOMAIN widgets : widgets[i].node = widget.first}
    IN IF widget.type \in {"PinComplex", "AudioMixer"} /\ here # {} THEN widgets[Min(here)] ELSE None

\* The path, and None at its end.  A path longer than there are widgets has a cycle and
\* grows until the heap is exhausted: None is missing then.
find_widget_path_for_line_out_playback(widgets) ==
    LET pins == find_line_out_pin_widgets_connected_to_jack(widgets)
        at[i \in 1 .. Len(widgets) + 1] ==
            IF i = 1 THEN widgets[Min(pins)]
            ELSE IF at[i - 1] = None THEN None ELSE get_predecessor(widgets, at[i - 1])
    IN at

PathEnds(path) == \E i \in DOMAIN path : path[i] = None
OnPath(path) == SubSeq(path, 1, Min({i \in DOMAIN path : path[i] = None}) - 1)

configure_widget_for_line_out_playback(address, widget, stream) ==
    LET node == Node(address, widget.node)
        Amp(type, gain) ==
            Command("SetAmplifierGainMute", node, SetAmplifierGainMutePayload(type, gain))
    IN CASE widget.type = "AudioOutput" ->
              << Amp("Both", 100),
                 Command("SetChannelStreamId", node, SetChannelStreamIdPayload(0, stream.id)),
                 Command("SetStreamFormat", node, FormatAsU16(stream.format)) >>
         [] widget.type = "AudioMixer" -> << Amp("Input", 60) >>
         [] widget.type = "PinComplex" ->
              << Amp("Both", 100), Command("GetPinWidgetControl", node, 0) >>
         [] OTHER -> <<>>

\* variant: the format of the converter is left as it is
Bug_NoFormat(address, path, stream) ==
    SelectSeq(FlattenSeq([i \in DOMAIN path |->
                  configure_widget_for_line_out_playback(address, path[i], stream)]),
              LAMBDA cmd : cmd.verb # "SetStreamFormat")

PathCommands(address, path, stream) ==
    FlattenSeq([i \in DOMAIN path |->
                   configure_widget_for_line_out_playback(address, path[i], stream)])
-----------------------------------------------------------------------------
(* Buffers. *)

PAGE_SIZE == 4096
BDL_CAPACITY == 32

\* frames are never given back, so that each range begins where the last one ends
NextFrame(ranges) == IF ranges = <<>> THEN 1 ELSE Last(ranges).first + Last(ranges).count
Allocated(ranges, use, count) ==
    Append(ranges, [use |-> use, first |-> NextFrame(ranges), count |-> count])

\* CyclicBuffer::new(): an eighth of each buffer is used
CyclicBuffer(stream, start) ==
    LET buffer_size_in_bits == stream.pages * PAGE_SIZE
    IN [i \in 1 .. stream.buffers |->
           [address |-> start + (i - 1) * buffer_size_in_bits,
            length  |-> buffer_size_in_bits \div 8]]

TotalLength(list) ==
    LET sum[i \in 0 .. Len(list)] == IF i = 0 THEN 0 ELSE sum[i - 1] + list[i].length
    IN sum[Len(list)]

TestStream == [id |-> 2, format |-> StreamFormat(2), buffers |-> 2, pages |-> 512]
DemoStream == [id |-> 1, format |-> StreamFormat(2), buffers |-> 8, pages |-> 512]
-----------------------------------------------------------------------------
(* The card. *)

Bit(value) == [written |-> value, reads |-> value]
ResetDescriptor == [run |-> FALSE, srst |-> Bit(FALSE), sts |-> {}, id |-> 0, fmt |-> 0,
                    bdl |-> 0, cbl |-> 0, lvi |-> 0]
ResetCard == [crst |-> Bit(FALSE), interrupts |-> FALSE,
              corbrun |-> Bit(FALSE), corbrprst |-> Bit(FALSE), corb |-> 0, wp |-> 0, rp |-> 0,
              rirbrun |-> FALSE, rirb |-> 0, responses |-> <<>>, dpib |-> 0,
              icoi |-> Zero, icii |-> Zero, busy |-> FALSE, valid |-> FALSE, answered |-> Zero]
\* The firmware may have used the card: then it is not in reset, the first descriptor may
\* be running, and an answer may not have been collected.
UsedCard == [ResetCard EXCEPT !.crst = Bit(TRUE), !.corbrun = Bit(TRUE), !.corb = 9, !.wp = 1,
                              !.rp = 1, !.valid = TRUE]
UsedDescriptor == [ResetDescriptor EXCEPT !.run = TRUE, !.sts = {"BCIS"}, !.id = 1, !.fmt = 17]

Answer(raw) == IF raw \in DOMAIN machine.answers THEN machine.answers[raw] ELSE Zero

\* A codec takes a command apart: verbs beginning with 7 or F have 12 bits.
IsLong(raw) == raw[1] % 16 \in {7, 15}
VerbOf(raw) == IF IsLong(raw) THEN (raw[1] % 16) * 256 + (raw[2] \div 256) ELSE raw[1] % 16
PayloadOf(raw) == IF IsLong(raw) THEN raw[2] % 256 ELSE raw[2]
NodeOf(raw) == <<raw[1] \div 4096, (raw[1] \div 16) % 256>>

Executed(raw) ==
    LET Stored(f) == Put(f, NodeOf(raw), PayloadOf(raw))
    IN CASE VerbOf(raw) = 3 -> [codec EXCEPT !.amp = Stored(@)]
         [] VerbOf(raw) = 2 -> [codec EXCEPT !.format = Stored(@)]
         [] VerbOf(raw) = Set + 6 -> [codec EXCEPT !.stream = Stored(@)]
         [] VerbOf(raw) = Set + 7 -> [codec EXCEPT !.pin = Stored(@)]
         [] OTHER -> codec

\* The card acknowledges a bit some time after it is written.
AckCrst == /\ card.crst.reads # card.crst.written
           /\ card' = [card EXCEPT !.crst.reads = card.crst.written]
           /\ UNCHANGED <<machine, sd, codec, driver, found, dma, memory, panic>>

AckCorbrun == /\ card.corbrun.reads # card.corbrun.written
              /\ card' = [card EXCEPT !.corbrun.reads = card.corbrun.written]
              /\ UNCHANGED <<machine, sd, codec, driver, found, dma, memory, panic>>

AckCorbrprst == /\ card.corbrprst.reads # card.corbrprst.written
                /\ card' = [card EXCEPT !.corbrprst.reads = card.corbrprst.written,
                                        !.rp = IF card.corbrprst.written THEN 0 ELSE @]
                /\ UNCHANGED <<machine, sd, codec, driver, found, dma, memory, panic>>

\* Entering reset clears the descriptor; its run bit has to be cleared before.
AckSrst == /\ sd.srst.reads # sd.srst.written
           /\ sd' = IF sd.srst.written
                    THEN [ResetDescriptor EXCEPT !.srst = Bit(TRUE), !.run = sd.run]
                    ELSE [sd EXCEPT !.srst = Bit(FALSE)]
           /\ UNCHANGED <<machine, card, codec, driver, found, dma, memory, panic>>

\* The first entries of the CORB are the two commands of test_corb_and_rirb().
FetchCommand ==
    /\ card.corbrun.reads /\ card.rp < card.wp
    /\ card' = [card EXCEPT !.rp = @ + 1,
                            !.responses =
                                IF card.rirbrun /\ 0 \in machine.codecs
                                THEN Append(@, Answer(as_u32(GetParameter(Node(0, 0), "VendorId"))))
                                ELSE @]
    /\ UNCHANGED <<machine, sd, codec, driver, found, dma, memory, panic>>

AnswerCommand ==
    /\ card.busy /\ NodeOf(card.icoi)[1] \in machine.codecs
    /\ card' = [card EXCEPT !.busy = FALSE, !.valid = TRUE, !.icii = Answer(card.icoi),
                            !.answered = card.icoi]
    /\ codec' = Executed(card.icoi)
    /\ UNCHANGED <<machine, sd, driver, found, dma, memory, panic>>

\* a buffer has been played
CompleteBuffer ==
    /\ sd.run /\ "BCIS" \notin sd.sts
    /\ sd' = [sd EXCEPT !.sts = @ \cup {"BCIS"}]
    /\ UNCHANGED <<machine, card, codec, driver, found, dma, memory, panic>>

Card == \/ AckCrst \/ AckCorbrun \/ AckCorbrprst \/ AckSrst
        \/ FetchCommand \/ AnswerCommand \/ CompleteBuffer
-----------------------------------------------------------------------------
(* The driver. *)

At(label) == panic = "" /\ driver.at = label
Goto(label) == [driver EXCEPT !.at = label, !.waited = 0]
Sdctl(op) == [driver EXCEPT !.at = "sdctl_read", !.op = op, !.waited = 0]
Panic(why) == /\ panic' = why
              /\ UNCHANGED <<machine, card, sd, codec, driver, found, dma, memory>>

Supported == <<32902, 35872>>       \* 0x8086, 0x8c20
IHDA == <<4, 3>>                    \* the class and subclass of sound cards

Init ==
    /\ machine \in Machines
    /\ \/ card = ResetCard /\ sd = ResetDescriptor
       \/ card = UsedCard /\ sd = UsedDescriptor
    /\ codec = [amp |-> <<>>, format |-> <<>>, stream |-> <<>>, pin |-> <<>>]
    /\ driver = [at |-> "pci", devices |-> <<>>, op |-> "", stage |-> "test", read |-> sd, old_valid |-> FALSE,
                 waited |-> 0, stream |-> TestStream, bdl |-> 0, filled |-> {}, todo |-> <<>>]
    /\ found = <<>> /\ dma = <<>> /\ memory = <<>> /\ panic = ""

\* PciBus::scan(), before the driver starts.
init_pci ==
    /\ At("pci")
    /\ IF ScanPanics(machine.pci)
       THEN Panic("pci")
       ELSE /\ driver' = [Goto("find") EXCEPT !.devices = scan(machine.pci)]
            /\ UNCHANGED <<machine, card, sd, codec, found, dma, memory, panic>>

find_ihda_device ==
    /\ At("find")
    /\ LET cards == search_by_class(machine.pci, driver.devices, IHDA)
       IN IF \/ machine.qemu /\ cards # <<>>
             \/ ~machine.qemu /\ \E a \in ToSet(cards) : machine.pci[a].id = Supported
          THEN /\ driver' = Goto("connect")
               /\ UNCHANGED <<machine, card, sd, codec, found, dma, memory, panic>>
          ELSE Panic("device")

\* The card becomes a bus master and its registers are mapped.
connect_device_to_apic ==
    /\ At("connect")
    /\ IF machine.line \in VectorLines
       THEN /\ driver' = Goto("reset")
            /\ UNCHANGED <<machine, card, sd, codec, found, dma, memory, panic>>
       ELSE Panic("vector")

\* The bit is only ever set: a card that is out of reset stays as it is.
reset ==
    /\ At("reset")
    /\ card' = [card EXCEPT !.crst.written = TRUE]
    /\ driver' = Goto("reset_wait")
    /\ UNCHANGED <<machine, sd, codec, found, dma, memory, panic>>

configure ==
    /\ At("reset_wait") /\ card.crst.reads
    /\ card' = [card EXCEPT !.interrupts = TRUE]
    /\ driver' = Goto("stop_corb")
    /\ UNCHANGED <<machine, sd, codec, found, dma, memory, panic>>

stop_corb_dma ==
    /\ At("stop_corb")
    /\ card' = [card EXCEPT !.corbrun.written = FALSE]
    /\ driver' = Goto("stop_corb_wait")
    /\ UNCHANGED <<machine, sd, codec, found, dma, memory, panic>>

init_corb ==
    /\ At("stop_corb_wait") /\ ~card.corbrun.reads
    /\ IF machine.corbsize = 256
       THEN /\ dma' = Allocated(dma, "corb", 2)
            /\ card' = [card EXCEPT !.corb = NextFrame(dma), !.wp = 0, !.corbrprst.written = TRUE]
            /\ driver' = Goto("corbrp_wait")
            /\ UNCHANGED <<machine, sd, codec, found, memory, panic>>
       ELSE Panic("corbsize")

init_rirb ==
    /\ At("corbrp_wait") /\ card.corbrprst.reads
    /\ dma' = Allocated(dma, "rirb", 4)
    /\ card' = [card EXCEPT !.corbrprst.written = FALSE, !.rirbrun = FALSE,
                            !.rirb = NextFrame(dma), !.responses = <<>>]
    /\ driver' = Goto("start_corb")
    /\ UNCHANGED <<machine, sd, codec, found, memory, panic>>

start_corb ==
    /\ At("start_corb")
    /\ card' = [card EXCEPT !.corbrun.written = TRUE]
    /\ driver' = Goto("start_corb_wait")
    /\ UNCHANGED <<machine, sd, codec, found, dma, memory, panic>>

start_rirb ==
    /\ At("start_corb_wait") /\ card.corbrun.reads
    /\ card' = [card EXCEPT !.rirbrun = TRUE]
    /\ driver' = Goto("test_corb")
    /\ UNCHANGED <<machine, sd, codec, found, dma, memory, panic>>

test_corb_and_rirb ==
    /\ At("test_corb")
    /\ card' = [card EXCEPT !.wp = @ + 2]
    /\ driver' = Goto("test_rirb")
    /\ UNCHANGED <<machine, sd, codec, found, dma, memory, panic>>

\* After 200 ms the two entries are compared; one that is not answered yet holds what was
\* in the frame before.
CheckResponses ==
    LET full == Len(card.responses) >= 2
        good == card.responses[1] = card.responses[2] /\ card.responses[1] # Zero
    IN /\ At("test_rirb")
       /\ \/ /\ full => good
             /\ dma' = Allocated(dma, "positions", 1)          \* init_dma_position_buffer()
             /\ card' = [card EXCEPT !.dpib = NextFrame(dma)]
             /\ driver' = Goto("new_stream")
             /\ UNCHANGED <<machine, sd, codec, found, memory, panic>>
          \/ /\ full => ~good
             /\ Panic("test")

\* Stream::new(): both streams fit into a list of BDL_CAPACITY entries.
Stream_new ==
    LET buffers == Allocated(dma, "buffer", driver.stream.buffers * driver.stream.pages)
        bdl == NextFrame(buffers) * PAGE_SIZE
    IN /\ At("new_stream")
       /\ driver.stream.buffers <= BDL_CAPACITY
       /\ dma' = Allocated(buffers, "bdl", 1)
       /\ memory' = Put(memory, bdl, CyclicBuffer(driver.stream, NextFrame(dma) * PAGE_SIZE))
       /\ driver' = [Sdctl("clear_run") EXCEPT !.bdl = bdl]
       /\ UNCHANGED <<machine, card, sd, codec, found, panic>>

\* SDCTL is read and written as 32 bits together with SDSTS, whose bits are cleared by
\* writing 1.
sdctl_read ==
    /\ At("sdctl_read")
    /\ driver' = [Goto("sdctl_write") EXCEPT !.read = sd]
    /\ UNCHANGED <<machine, card, sd, codec, found, dma, memory, panic>>

\* variant: the run bit is set but never cleared
Bug_KeepsRunning(op, read) == op = "run" \/ read.run

stream_run_bit(op, read) == op = "run" \/ (op # "clear_run" /\ read.run)
stream_reset_bit(op, read) == op = "set_srst" \/ (op # "clear_srst" /\ read.srst.reads)

\* reset_stream(), set_stream_id() and run(), one access after the other
AfterSdctl(op) ==
    CASE op = "clear_run"  -> Sdctl("set_srst")
      [] op = "set_srst"   -> Goto("srst_wait")
      [] op = "clear_srst" -> Goto("srst_clear_wait")
      [] op = "set_id"     -> IF driver.stage = "test" THEN Sdctl("run") ELSE Goto("fill")
      [] op = "run"        -> IF driver.stage = "test" THEN Goto("test_dma") ELSE Goto("done")

sdctl_write ==
    /\ At("sdctl_write")
    /\ sd' = [sd EXCEPT !.run = stream_run_bit(driver.op, driver.read),
                        !.srst.written = stream_reset_bit(driver.op, driver.read),
                        !.id = IF driver.op = "set_id" THEN driver.stream.id ELSE driver.read.id,
                        !.sts = @ \ driver.read.sts]
    /\ driver' = AfterSdctl(driver.op)
    /\ UNCHANGED <<machine, card, codec, found, dma, memory, panic>>

srst_is_set ==
    /\ At("srst_wait") /\ sd.srst.reads
    /\ driver' = Sdctl("clear_srst")
    /\ UNCHANGED <<machine, card, sd, codec, found, dma, memory, panic>>

srst_is_clear ==
    /\ At("srst_clear_wait") /\ ~sd.srst.reads
    /\ driver' = IF driver.stage = "test_done"
                 THEN [Goto("command") EXCEPT !.stage = "scan",
                                              !.todo = scan_for_available_codecs(machine.codecs)]
                 ELSE Goto("configure_sd")
    /\ UNCHANGED <<machine, card, sd, codec, found, dma, memory, panic>>

\* set_bdl_pointer_address(), set_cyclic_buffer_lenght() and set_last_valid_index() panic
\* when the stream is running.
configure_sd ==
    /\ At("configure_sd")
    /\ IF sd.run
       THEN Panic("running")
       ELSE /\ sd' = [sd EXCEPT !.bdl = driver.bdl,
                                !.cbl = driver.stream.buffers
                                            * ((driver.stream.pages * PAGE_SIZE) \div 8),
                                !.lvi = driver.stream.buffers - 1,
                                !.fmt = FormatAsU16(driver.stream.format)]
            /\ driver' = Sdctl("set_id")
            /\ UNCHANGED <<machine, card, codec, found, dma, memory, panic>>

\* The position of the stream is read twice.  It has moved when the engine runs fast enough;
\* the positions of the other engines are asserted to be 0, which a frame that was never
\* written may or may not say.  The stream is reset after that.
test_dma_position_buffer ==
    /\ At("test_dma")
    /\ \/ /\ sd.run
          /\ driver' = [Sdctl("clear_run") EXCEPT !.stage = "test_done"]
          /\ UNCHANGED <<machine, card, sd, codec, found, dma, memory, panic>>
       \/ Panic("test")
-----------------------------------------------------------------------------
(* Commands that are sent immediately. *)

write_command_to_icoi ==
    /\ At("command") /\ driver.todo # <<>>
    /\ card' = [card EXCEPT !.icoi = as_u32(Head(driver.todo))]
    /\ driver' = Goto("icsts_read")
    /\ UNCHANGED <<machine, sd, codec, found, dma, memory, panic>>

icsts_read ==
    /\ At("icsts_read")
    /\ driver' = [Goto("icsts_write") EXCEPT !.old_valid = card.valid]
    /\ UNCHANGED <<machine, card, sd, codec, found, dma, memory, panic>>

\* variant: the status is written as it should be read
Bug_KeepsValid(old_valid) == card.valid \/ old_valid

\* writing back a 1 clears the bit
result_valid_after_write(old_valid) == card.valid /\ ~old_valid

set_immediate_command_busy_bit ==
    /\ At("icsts_write")
    /\ card' = [card EXCEPT !.busy = TRUE, !.valid = result_valid_after_write(driver.old_valid)]
    /\ driver' = Goto("icsts_wait")
    /\ UNCHANGED <<machine, sd, codec, found, dma, memory, panic>>

result_is_valid ==
    /\ At("icsts_wait") /\ card.valid
    /\ driver' = Goto("answer")
    /\ UNCHANGED <<machine, card, sd, codec, found, dma, memory, panic>>

read_response_from_icii ==
    LET cmd == Head(driver.todo)
    IN /\ At("answer")
       /\ IF Decodable(cmd, card.icii)
          THEN /\ found' = Learnt(found, cmd, card.icii)
               /\ driver' = [Goto("command") EXCEPT !.todo = FollowUps(cmd, card.icii) \o Tail(@)]
               /\ UNCHANGED <<machine, card, sd, codec, dma, memory, panic>>
          ELSE Panic("answer")

\* The scan is followed by demo_bachelor_presentation(), the configuration of the codec by run().
CommandsDone ==
    /\ At("command") /\ driver.todo = <<>>
    /\ driver' = IF driver.stage = "scan"
                 THEN [Goto("new_stream") EXCEPT !.stage = "demo", !.stream = DemoStream]
                 ELSE Sdctl("run")
    /\ UNCHANGED <<machine, card, sd, codec, found, dma, memory, panic>>

\* Every buffer is filled, and the caches are written back.
demo_bachelor_presentation ==
    /\ At("fill")
    /\ driver' = [Goto("codec") EXCEPT
                     !.filled = {entry.address : entry \in ToSet(memory[driver.bdl])}]
    /\ UNCHANGED <<machine, card, sd, codec, found, dma, memory, panic>>

Realtek == [vendor_id |-> 4332, device_id |-> 640]      \* 0x10EC, 0x280

configure_codec_for_line_out_playback ==
    LET first == found[1]
        widgets == first.groups[1]
        path == find_widget_path_for_line_out_playback(widgets)
    IN /\ At("codec")
       /\ CASE found = <<>> -> Panic("no codec")
            [] found # <<>> /\ ( \/ first.vendor_id # Realtek.vendor_id
                                 \/ first.device_id # Realtek.device_id
                                 \/ first.groups = <<>> ) -> Panic("codec")
            [] OTHER ->
                 IF find_line_out_pin_widgets_connected_to_jack(widgets) = {} \/ ~PathEnds(path)
                 THEN Panic("path")
                 ELSE /\ driver' = [Goto("command") EXCEPT
                                       !.todo = PathCommands(first.address, OnPath(path),
                                                             driver.stream)]
                      /\ UNCHANGED <<machine, card, sd, codec, found, dma, memory, panic>>
-----------------------------------------------------------------------------
(* Waiting. *)

Waiting == driver.at \in {"reset_wait", "stop_corb_wait", "corbrp_wait", "start_corb_wait",
                          "srst_wait", "srst_clear_wait", "icsts_wait"}

Tick ==
    /\ panic = "" /\ Waiting /\ driver.waited <= Timeout
    /\ driver' = [driver EXCEPT !.waited = @ + 1]
    /\ UNCHANGED <<machine, card, sd, codec, found, dma, memory, panic>>

\* variant: an immediate command is waited for without a limit
Bug_NoTimeOut == /\ panic = "" /\ Waiting /\ driver.waited > Timeout /\ driver.at # "icsts_wait"
                 /\ Panic("timeout")

\* The bit may be acknowledged after it was read for the last time.
TimeOut == /\ panic = "" /\ Waiting /\ driver.waited > Timeout
           /\ Panic("timeout")

Driver ==
    \/ init_pci \/ find_ihda_device \/ connect_device_to_apic \/ reset \/ configure
    \/ stop_corb_dma \/ init_corb \/ init_rirb \/ start_corb \/ start_rirb
    \/ test_corb_and_rirb \/ CheckResponses
    \/ Stream_new \/ sdctl_read \/ sdctl_write \/ srst_is_set \/ srst_is_clear
    \/ configure_sd \/ test_dma_position_buffer
    \/ write_command_to_icoi \/ icsts_read \/ set_immediate_command_busy_bit \/ result_is_valid
    \/ read_response_from_icii \/ CommandsDone
    \/ demo_bachelor_presentation \/ configure_codec_for_line_out_playback
    \/ TimeOut

Next == Card \/ Driver \/ Tick

\* The processor executes the driver, and the timer interrupts it; the card owes nothing.
Spec == Init /\ [][Next]_vars /\ WF_vars(Driver) /\ WF_vars(Tick)
-----------------------------------------------------------------------------
(* Properties. *)

\* The registers, the widgets and the driver hold values of their types.
TypeOK ==
    /\ machine \in Machines
    /\ card.valid \in BOOLEAN /\ card.busy \in BOOLEAN /\ card.rp \in 0..2 /\ card.wp \in 0..2
    /\ sd.run \in BOOLEAN /\ sd.sts \subseteq {"BCIS"} /\ sd.id \in 0..15
    /\ \A f \in {codec.amp, codec.format} : \A n \in DOMAIN f : f[n] \in Halves
    /\ \A f \in {codec.stream, codec.pin} : \A n \in DOMAIN f : f[n] \in 0..255
    /\ driver.waited \in 0 .. Timeout + 1
    /\ Range(driver.todo) \subseteq
           [verb : Verbs, codec : 0..14, node : 0..255, payload : Halves]
    /\ panic \in {"", "pci", "device", "vector", "corbsize", "test", "running", "answer", "no codec",
                  "codec", "path", "timeout"}

\* The response that immediate_command() decodes is the codec's response to that command: the
\* result valid bit of an earlier command (one the firmware has sent, or the one before) is
\* cleared when the busy bit is set, because reading ICSTS and writing it back writes a 1 to it.
AnswersMatchCommands ==
    driver.at = "answer" => card.answered = as_u32(Head(driver.todo))

\* On a machine with a host controller the scan finds every endpoint that bridges connect to
\* bus 0, in whatever order the buses are numbered and however deep they are, and finds it once:
\* a card that was found twice would be a second device at the index find_ihda_device() uses.
\* Only functions behind a gap in the numbers of their device are missed (the loop in
\* check_device() breaks there), and what is behind a bridge that is missed: a machine with such a
\* bridge is excused altogether, and one that runs into the assertion in pci.rs:114 has no result.
ScanFindsEachDevice ==
    driver.at = "find" /\ Exists(machine.pci, Root) =>
        /\ IsInjective(driver.devices)
        /\ ToSet(driver.devices) \subseteq Endpoints(machine.pci)
        /\ \A a \in Endpoints(machine.pci) \ ToSet(driver.devices) :
               \E b \in ImplementedFunctions(machine.pci) :
                   BehindGap(machine.pci, b) /\ (b = a \/ machine.pci[b].type = "bridge")

Overlap(a, b) == a.address < b.address + b.length /\ b.address < a.address + a.length

\* The engine is never reprogrammed while it runs: the panics of set_bdl_pointer_address(),
\* set_cyclic_buffer_lenght() and set_last_valid_index() never happen, although the firmware or
\* test_dma_position_buffer() may have left it running and other accesses write back a run bit
\* they have read before.  And a running engine has a list it can play: with the two entries
\* the comment in BufferDescriptorList::new() asks for, a last valid index and a cyclic buffer
\* length that agree with the entries, which do not overlap and lie in frames allocated for
\* buffers, so that the card reads no other memory.  Every variable has its type.
EngineWellProgrammed ==
    /\ TypeOK
    /\ panic # "running"
    /\ sd.run /\ sd.bdl \in DOMAIN memory =>
        LET list == memory[sd.bdl]
        IN /\ Len(list) = sd.lvi + 1 /\ Len(list) >= 2
           /\ TotalLength(list) = sd.cbl
           /\ \A i, j \in DOMAIN list : i # j => ~Overlap(list[i], list[j])
           /\ \A i \in DOMAIN list : \E r \in ToSet(dma) :
                  /\ r.use = "buffer" /\ list[i].address >= r.first * PAGE_SIZE
                  /\ list[i].address + list[i].length <= (r.first + r.count) * PAGE_SIZE

TypeOfNode(n) == WidgetType(Answer(as_u32(GetParameter(Node(n[1], n[2]), "AudioWidgetCapabilities"))))
Unmuted(n, direction) == /\ n \in DOMAIN codec.amp
                         /\ (codec.amp[n] \div direction) % 2 = 1
                         /\ (codec.amp[n] \div 128) % 2 = 0
InputAmp == 16384
OutputAmp == 32768

\* Once demo_bachelor_presentation() has started the stream, the samples reach the line out
\* jack: every buffer is filled, the converter listens to the stream's id and expects its format,
\* the output amplifiers of converter and pin and the input amplifier of a mixer are unmuted and
\* the pin drives its output.  (Not the output amplifier of a mixer, which the driver never sets,
\* and not through selectors: for the driver a path ends at one.)
StreamReachesJack ==
    driver.at = "done" /\ (\A i \in DOMAIN machine.chain : TypeOfNode(machine.chain[i]) # "AudioSelector") =>
        LET jack == machine.chain[1]
            converter == Last(machine.chain)
            mixers == ToSet(machine.chain) \ {jack, converter}
        IN /\ sd.run /\ {entry.address : entry \in ToSet(memory[sd.bdl])} \subseteq driver.filled
           /\ converter \in DOMAIN codec.stream /\ codec.stream[converter] \div 16 = sd.id
           /\ converter \in DOMAIN codec.format /\ codec.format[converter] = sd.fmt
           /\ Unmuted(converter, OutputAmp) /\ Unmuted(jack, OutputAmp)
           /\ \A n \in mixers : Unmuted(n, InputAmp)
           /\ jack \in DOMAIN codec.pin /\ (codec.pin[jack] \div 64) % 2 = 1

\* Booting does not hang in the sound driver: a card or a codec that stays silent at any point
\* ends in a panic, every other one in a running stream.
EveryWaitEnds == <>(driver.at = "done" \/ panic # "")
=============================================================================
