------------------------------ MODULE MCSound ------------------------------
(***************************************************************************)
(* Machines for Sound.  A codec is given by the type of its widgets, the   *)
(* configuration default of its pins and the first entry of each           *)
(* connection list; its answers follow from that.                          *)
(***************************************************************************)
EXTENDS Sound

\* raw values: types in bits 23..20, devices in bits 23..20 of the upper half, connectivity above
TypeCode(type) == <<16 * ((CHOOSE i \in DOMAIN WidgetTypes : WidgetTypes[i] = type) - 1), 0>>
LineOut == <<1, 4112>>                          \* a jack at the rear, 3.5 mm
Speaker == <<36880, 272>>                       \* built in
Reserved == <<224, 0>>                          \* default device 0xE

\* widgets: node -> [type, config, first]; node 1 is the function group
Codec(address, vendor, widgets) ==
    LET root == Node(address, 0)
        group == Node(address, 1)
        first == CHOOSE n \in DOMAIN widgets : \A m \in DOMAIN widgets : n <= m
        Of(n) == Node(address, n)
        PerWidget(make(_), answer(_)) ==
            [raw \in {as_u32(make(n)) : n \in DOMAIN widgets} |->
                answer(CHOOSE n \in DOMAIN widgets : as_u32(make(n)) = raw)]
    IN    as_u32(GetParameter(root, "VendorId")) :> vendor
       @@ as_u32(GetParameter(root, "SubordinateNodeCount")) :> <<1, 1>>
       @@ as_u32(GetParameter(group, "FunctionGroupType")) :> <<0, 1>>
       @@ as_u32(GetParameter(group, "SubordinateNodeCount")) :> <<first, Cardinality(DOMAIN widgets)>>
       @@ PerWidget(LAMBDA n : GetParameter(Of(n), "AudioWidgetCapabilities"),
                    LAMBDA n : TypeCode(widgets[n].type))
       @@ PerWidget(LAMBDA n : Command("GetConfigurationDefault", Of(n), 0),
                    LAMBDA n : widgets[n].config)
       @@ PerWidget(LAMBDA n : Command("GetConnectionListEntry", Of(n), 0),
                    LAMBDA n : <<0, widgets[n].first>>)
       @@ PerWidget(LAMBDA n : Command("GetPinWidgetControl", Of(n), 0), LAMBDA n : <<0, 128 + 5>>)

W(type, config, first) == [type |-> type, config |-> config, first |-> first]

Alc280 == <<4332, 640>>
Other == <<4332, 649>>
Qemu == <<6900, 34>>

\* converters 2 and 3, a mixer, a speaker and the line out jack
Usual == 2 :> W("AudioOutput", Zero, 0) @@ 3 :> W("AudioInput", Zero, 0)
         @@ 4 :> W("AudioMixer", Zero, 2) @@ 5 :> W("PinComplex", Speaker, 2)
         @@ 6 :> W("PinComplex", LineOut, 4)
Selecting == 2 :> W("AudioOutput", Zero, 0) @@ 3 :> W("AudioSelector", Zero, 2)
             @@ 4 :> W("PinComplex", LineOut, 3)
\* the mixer takes its input from the pin
Cyclic == 2 :> W("AudioMixer", Zero, 3) @@ 3 :> W("PinComplex", LineOut, 2)
          @@ 4 :> W("PowerWidget", Zero, 0)
NoJack == 2 :> W("AudioOutput", Zero, 0) @@ 3 :> W("PinComplex", Speaker, 2)
Broken == 2 :> W("AudioOutput", Zero, 0) @@ 3 :> W("PinComplex", Reserved, 2)

\* configuration spaces
Header(type, id, class, multiple, secondary) ==
    [type |-> type, id |-> id, class |-> class, multiple |-> multiple, secondary |-> secondary]
Device(id, class) == Header("endpoint", id, class, FALSE, 0)
Bridge(secondary) == Header("bridge", <<32902, 1>>, <<6, 4>>, FALSE, secondary)
Part(header) == [header EXCEPT !.multiple = TRUE]
Host == Root :> Device(<<32902, 3072>>, <<6, 0>>)
IchCard == <<32902, 9832>>                      \* the card QEMU emulates
Hdmi == Device(<<4318, 3704>>, IHDA)            \* the sound card of a graphics card

Plain(id) == Host @@ <<0, 27, 0>> :> Device(id, IHDA)
\* a graphics card with sound behind a bridge; its bus is scanned before the card
Desktop == Plain(Supported) @@ <<0, 1, 0>> :> Bridge(1)
           @@ <<1, 0, 0>> :> Part(Device(<<4318, 4994>>, <<3, 0>>)) @@ <<1, 0, 1>> :> Hdmi
\* the card is the last function of the last device, behind two bridges, the upper of which
\* is the second function of its device; bus 3 is not connected
Nested == Host @@ <<0, 31, 0>> :> Part(Device(<<32902, 2>>, <<6, 1>>)) @@ <<0, 31, 1>> :> Bridge(2)
          @@ <<2, 5, 0>> :> Bridge(1) @@ <<3, 0, 0>> :> Hdmi
          @@ [a \in {<<1, 31, i>> : i \in 0..7} |->
                 IF a[3] = 7 THEN Device(Supported, IHDA) ELSE Part(Device(<<32902, 4>>, <<12, 3>>))]
BehindMissing == Host @@ <<0, 31, 0>> :> Part(Device(<<32902, 2>>, <<6, 1>>))
                 @@ <<0, 31, 3>> :> Device(Supported, IHDA)
TwoHosts == Root :> Part(Host[Root]) @@ <<0, 0, 1>> :> Host[Root] @@ <<0, 27, 0>> :> Device(Supported, IHDA)
CardBus == Plain(Supported) @@ <<0, 30, 0>> :> Header("cardbus", <<4172, 1>>, <<6, 7>>, FALSE, 5)

Machine(pci, qemu, line, corbsize, codecs, answers, chain) ==
    [pci |-> pci, qemu |-> qemu, line |-> line, corbsize |-> corbsize,
     codecs |-> codecs, answers |-> answers, chain |-> chain]
Known(answers, chain) == Machine(Plain(Supported), FALSE, 3, 256, {0}, answers, chain)
Lacking(pci) == Machine(pci, FALSE, 3, 256, {0}, << >>, << >>)

MCMachines == {
    Machine(Desktop, FALSE, 3, 256, {0}, Codec(0, Alc280, Usual), << <<0, 6>>, <<0, 4>>, <<0, 2>> >>),
    Machine(Nested, FALSE, 3, 256, {0}, Codec(0, Alc280, Selecting), << <<0, 4>>, <<0, 3>>, <<0, 2>> >>),
    Known(Codec(0, Alc280, Cyclic), << >>),
    Known(Codec(0, Alc280, NoJack), << >>),
    Known(Codec(0, Alc280, Broken), << >>),
    Known(Codec(0, Other, NoJack), << >>),
    Machine(Plain(IchCard), TRUE, 11, 256, {0}, Codec(0, Qemu, NoJack), << >>),
    Machine(Plain(Supported), FALSE, 3, 256, {}, << >>, << >>),
    Machine(Plain(Supported), FALSE, 3, 256, {2}, Codec(2, Alc280, Usual), << <<2, 6>>, <<2, 4>>, <<2, 2>> >>),
    Lacking(Plain(IchCard)), Lacking(BehindMissing), Lacking(TwoHosts), Lacking(CardBus),
    Lacking(<<0, 27, 0>> :> Device(Supported, IHDA)),
    Machine(Plain(Supported), FALSE, 255, 256, {0}, << >>, << >>),
    Machine(Plain(Supported), FALSE, 3, 16, {0}, << >>, << >>) }

MCVectorLines == 0..15
=============================================================================
