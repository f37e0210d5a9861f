------------------------------ MODULE Terminal ------------------------------
(***************************************************************************)
(* The text terminal on the linear framebuffer                             *)
(* (os/kernel/src/device/lfb_terminal.rs).  Threads write strings and      *)
(* single bytes, the reader of the keyboard echoes keys, and the cursor    *)
(* thread blinks, all at the same time.  Every byte runs through a copy of *)
(* the shared escape sequence parser; what the parser dispatches takes the *)
(* locks of display, cursor and colours in this order and holds them to    *)
(* its end, so that one dispatch is one step here, while the bytes of two  *)
(* writers interleave freely.                                              *)
(*                                                                         *)
(* A picture is kept per character cell: what draw_char() or fill_rect()   *)
(* put there.  A blank glyph shows nothing but its background.             *)
(***************************************************************************)
EXTENDS Integers, Sequences

CONSTANTS
    Width, Height,      \* size of the screen in characters, the status bar included
    TabSpaces,          \* TAB_SPACES
    CharacterSize,      \* size_of::<Character>(), by which char_buffer is too long
    U16,                \* 2^16: positions and parameters are u16
    Writers,            \* threads that write, read, or clear the terminal
    Strings,            \* strings passed to write_str(), as sequences of bytes
    Keys,               \* bytes the keyboard decodes to
    MaxWrites           \* bound on the number of writes

ASSUME TerminalAssumption ==
    /\ Width \in Nat \ {0} /\ Height \in Nat \ {0, 1}
    /\ TabSpaces \in Nat \ {0} /\ CharacterSize \in Nat \ {0, 1}
    /\ U16 \in Nat /\ Width * Height * CharacterSize < U16 /\ Width + TabSpaces < U16
    /\ MaxWrites \in Nat

\* What can be written: parameters of a sequence are u16.
Bytes == Keys \cup UNION {{s[i] : i \in DOMAIN s} : s \in Strings}
ASSUME StringsAssumption ==
    /\ \A s \in Strings : s \in Seq(Bytes)
    /\ \A b \in Bytes : b = [kind |-> b.kind, c |-> b.c, params |-> b.params]
                        /\ b.params \in Seq(0 .. U16 - 1)

VARIABLES
    display,    \* DisplayState: the character buffer, the buffered and the visible picture
    cursor,     \* CursorState
    color,      \* ColorState
    parser,     \* the shared parser: what it has collected of an unfinished sequence
    writer,     \* per thread: its string, the bytes left, its copy of the parser and
                \* (history) the state in which that copy was taken
    blink,      \* CursorThread and its sleep_counter
    writes,     \* number of writes begun
    unchecked,  \* whether the build is known to have no overflow checks: the choice of
                \* the build is made where it first matters
    panicked    \* whether an overflow or a bounds check has stopped the system

vars == <<display, cursor, color, parser, writer, blink, writes, unchecked, panicked>>
-----------------------------------------------------------------------------
(* Colours (os/library/graphic/src/color.rs). *)

BRIGHTNESS_SHIFT == 85
BLACK == <<0, 0, 0>>
WHITE == <<170, 170, 170>>
AnsiColors == << BLACK, <<170, 0, 0>>, <<0, 170, 0>>, <<170, 170, 0>>,
                 <<0, 0, 170>>, <<170, 0, 170>>, <<0, 170, 170>>, WHITE >>

Brighter(c) == IF c + BRIGHTNESS_SHIFT > 255 THEN 255 ELSE c + BRIGHTNESS_SHIFT

Darker(c) == IF c - BRIGHTNESS_SHIFT < 0 THEN 0 ELSE c - BRIGHTNESS_SHIFT
bright(col) == [i \in 1..3 |-> Brighter(col[i])]
dim(col) == [i \in 1..3 |-> Darker(col[i])]

AnsiColor(index) == IF index < 8 THEN AnsiColors[index + 1] ELSE bright(AnsiColors[index - 7])

CubeLevels == <<0, 95, 135, 175, 215, 255>>
CubeColor(n) == [i \in 1..3 |-> CubeLevels[((n \div <<36, 6, 1>>[i]) % 6) + 1]]

Grey(n) == [i \in 1..3 |-> 8 + 10 * n]

\* the 8 ANSI colours, the same brightened, a 6x6x6 cube and 24 shades of grey
COLOR_TABLE_256(index) ==
    CASE index \in 0..15    -> AnsiColor(index)
      [] index \in 16..231  -> CubeColor(index - 16)
      [] index \in 232..255 -> Grey(index - 232)

Colors == [1..3 -> 0..255]
ColorState == [fg_color : Colors, bg_color : Colors,
               fg_base_color : Colors, bg_base_color : Colors,
               fg_bright : BOOLEAN, bg_bright : BOOLEAN,
               invert : BOOLEAN, bright : BOOLEAN, dim : BOOLEAN]

NewColorState ==
    [fg_color |-> WHITE, bg_color |-> BLACK, fg_base_color |-> WHITE, bg_base_color |-> BLACK,
     fg_bright |-> FALSE, bg_bright |-> FALSE, invert |-> FALSE, bright |-> FALSE, dim |-> FALSE]
-----------------------------------------------------------------------------
(* The picture: LFB and BufferedLFB (os/library/graphic/src). *)

NUL == "NUL"
SPACE == "SPACE"
CURSOR == "CURSOR"
LineFill == "a"             \* what clear_line() writes into the character buffer
Status == [value |-> "STATUS", fg |-> WHITE, bg |-> BLACK]

HasGlyph(c) == c # "NOGLYPH"
Character(value, k) == [value |-> value, fg |-> k.fg_color, bg |-> k.bg_color]
Blank(bg) == [value |-> SPACE, fg |-> bg, bg |-> bg]
Picture(ch) == IF ch.value \in {NUL, SPACE} THEN Blank(ch.bg) ELSE ch

Cells == (0 .. Width - 1) \X (0 .. Height - 1)
Bug_ExactCapacity == Width * Height
Capacity == Width * Height * CharacterSize

\* pixels outside of the framebuffer are dropped
fill_rect(lfb, from, to, bg) ==
    [p \in Cells |-> IF /\ from[1] <= p[1] /\ p[1] < to[1]
                        /\ from[2] <= p[2] /\ p[2] < to[2]
                     THEN Blank(bg) ELSE lfb[p]]

draw_char(lfb, pos, ch) == [p \in Cells |-> IF p = pos THEN Picture(ch) ELSE lfb[p]]

flush(d) == [d EXCEPT !.target = d.lfb]

draw_status_bar(d) ==
    [d EXCEPT !.lfb    = [p \in Cells |-> IF p[2] = 0 THEN Status ELSE d.lfb[p]],
              !.target = [p \in Cells |-> IF p[2] = 0 THEN Status ELSE d.target[p]]]

\* The characters with an index in S are erased.
EraseChars(d, k, S, value) ==
    [d EXCEPT !.chars = [i \in DOMAIN d.chars |->
                            IF i \in S THEN Character(value, k) ELSE d.chars[i]]]

Index(pos) == (pos[2] * Width + pos[1]) % U16
-----------------------------------------------------------------------------
(* Scrolling and moving.  t is the terminal: [d, c, k], what the locks of   *)
(* display, cursor and colours protect.                                     *)

\* variant: the status bar is not drawn again
Bug_ScrollsStatusBar(d, k, n) ==
    LET moved == [p \in Cells |-> IF p[2] + n < Height THEN d.lfb[<<p[1], p[2] + n>>]
                                                       ELSE Blank(k.bg_color)]
    IN flush([d EXCEPT !.lfb = moved])

\* n > 0 times scroll_up(): each moves everything up by a line, empties the last one and
\* draws the status bar again.
Scrolled(d, k, n) ==
    LET chars == [i \in DOMAIN d.chars |->
                     IF i + n * Width < Width * Height THEN d.chars[i + n * Width]
                                                       ELSE Character(NUL, k)]
        moved == [p \in Cells |-> IF p[2] + n < Height THEN d.lfb[<<p[1], p[2] + n>>]
                                                       ELSE Blank(k.bg_color)]
    IN flush(draw_status_bar([d EXCEPT !.chars = chars, !.lfb = moved]))

scroll_up(d, k) == Scrolled(d, k, 1)

position(t, pos) ==
    LET row  == IF pos[2] = 0 THEN 1 ELSE pos[2]
        over == IF row >= Height THEN row - (Height - 1) ELSE 0
    IN [t EXCEPT !.c.pos = <<pos[1], row - over>>,
                 !.d = IF over = 0 THEN t.d ELSE Scrolled(t.d, t.k, over)]

handle_tab(t) ==
    LET pos == t.c.pos
        column == (pos[1] + TabSpaces) % U16
    IN IF column >= Width
       THEN position(t, <<0, pos[2] + 1>>)
       ELSE position(t, <<(column \div TabSpaces) * TabSpaces, pos[2]>>)
-----------------------------------------------------------------------------
(* Erasing. *)

clear_screen(t) ==
    LET lfb == fill_rect(t.d.lfb, <<0, 0>>, <<Width, Height>>, t.k.bg_color)
        d   == EraseChars([t.d EXCEPT !.lfb = lfb], t.k, DOMAIN t.d.chars, NUL)
    IN [t EXCEPT !.d = flush(draw_status_bar(d))]

clear_screen_to_cursor(t) ==
    LET pos  == t.c.pos
        line == fill_rect(t.d.lfb, <<0, pos[2]>>, <<pos[1], pos[2] + 1>>, t.k.bg_color)
        lfb  == fill_rect(line, <<0, 0>>, <<Width, pos[2]>>, t.k.bg_color)
        d    == EraseChars([t.d EXCEPT !.lfb = lfb], t.k, 0 .. Index(pos) - 1, NUL)
    IN [t EXCEPT !.d = flush(draw_status_bar(d))]

clear_screen_from_cursor(t) ==
    LET pos  == t.c.pos
        line == fill_rect(t.d.lfb, pos, <<Width, pos[2] + 1>>, t.k.bg_color)
        lfb  == fill_rect(line, <<0, pos[2] + 1>>, <<Width, Height>>, t.k.bg_color)
        d    == EraseChars([t.d EXCEPT !.lfb = lfb], t.k, Index(pos) .. Capacity - 1, NUL)
    IN [t EXCEPT !.d = flush(draw_status_bar(d))]

\* The three ways to clear columns from .. to - 1 of a line and count characters from the
\* one with index first; the status bar is redrawn when it is line 0.
ClearedLine(t, from, to, first, count, value) ==
    LET row == t.c.pos[2]
        lfb == fill_rect(t.d.lfb, <<from, row>>, <<to, row + 1>>, t.k.bg_color)
        d   == EraseChars([t.d EXCEPT !.lfb = lfb], t.k, first .. first + count - 1, value)
    IN [t EXCEPT !.d = flush(IF row = 0 THEN draw_status_bar(d) ELSE d)]

clear_line(t) == ClearedLine(t, 0, Width, Index(<<0, t.c.pos[2]>>), Width, LineFill)
clear_line_to_cursor(t) ==
    ClearedLine(t, 0, t.c.pos[1], Index(<<0, t.c.pos[2]>>), t.c.pos[1], NUL)
clear_line_from_cursor(t) ==
    ClearedLine(t, t.c.pos[1], Width, Index(t.c.pos), (Width - t.c.pos[1]) % U16, NUL)

handle_ansi_erase_sequence(t, action, params) ==
    LET erase_code == IF params # <<>> THEN params[1] ELSE 0
    IN CASE action = "J" /\ erase_code = 0 -> clear_screen_from_cursor(t)
         [] action = "J" /\ erase_code = 1 -> clear_screen_to_cursor(t)
         [] action = "J" /\ erase_code = 2 -> position(clear_screen(t), <<0, 0>>)
         [] action = "K" /\ erase_code = 0 -> clear_line_from_cursor(t)
         [] action = "K" /\ erase_code = 1 -> clear_line_to_cursor(t)
         [] action = "K" /\ erase_code = 2 -> clear_line(t)
         [] OTHER -> t
-----------------------------------------------------------------------------
(* Printing.  The underscore drawn after a scroll lies below the last row. *)

print_char(t, c) ==
    LET pos == t.c.pos
        printed ==
            IF c = "NL" THEN [clear_line_from_cursor(t) EXCEPT !.c.pos = <<0, pos[2] + 1>>]
            ELSE IF ~HasGlyph(c) THEN t
            ELSE LET ch == Character(c, t.k)
                 IN [t EXCEPT !.d.lfb    = draw_char(t.d.lfb, pos, ch),
                              !.d.target = draw_char(t.d.target, pos, ch),
                              !.d.chars[Index(pos)] = ch,
                              !.c.pos = <<(pos[1] + 1) % U16, pos[2]>>]
        wrapped == IF printed.c.pos[1] >= Width
                   THEN [printed EXCEPT !.c.pos = <<0, printed.c.pos[2] + 1>>]
                   ELSE printed
    IN IF wrapped.c.pos[2] >= Height
       THEN [wrapped EXCEPT !.d = scroll_up(wrapped.d, t.k), !.c.pos = <<0, Height - 1>>]
       ELSE wrapped
-----------------------------------------------------------------------------
(* Escape sequences that move the cursor.  Arithmetic is on u16: it wraps   *)
(* in a release build and panics in a debug build.                          *)

AtMost(n, limit) == IF n < limit THEN n ELSE limit - 1
OrOne(n) == IF n = 0 THEN 1 ELSE n

\* the new row or column before it is reduced to u16
Target(pos, action, n) ==
    CASE action = "A" -> pos[2] - OrOne(n)
      [] action = "B" -> pos[2] + OrOne(n)
      [] action = "C" -> pos[1] + OrOne(n)
      [] action = "D" -> pos[1] - OrOne(n)
      [] action = "E" -> pos[2] + n + 1
      [] action = "F" -> pos[2] - n - 1
      [] OTHER -> 0

Overflows(t, action, params) ==
    /\ params # <<>>
    /\ Target(t.c.pos, action, params[1]) \notin 0 .. U16 - 1

\* column and row are limited with > where the others use <
LimitedTo(n, limit) == IF n > limit THEN limit - 1 ELSE n

handle_ansi_cursor_sequence(t, action, params) ==
    LET pos == t.c.pos
        to  == Target(pos, action, params[1]) % U16
    IN CASE action = "s" -> [t EXCEPT !.c.saved_pos = pos]
         [] action = "u" -> position(t, t.c.saved_pos)
         [] action = "H" /\ Len(params) >= 2 ->
                position(t, <<LimitedTo(params[1], Width), LimitedTo(params[2], Height)>>)
         [] action = "H" /\ Len(params) < 2 -> position(t, <<0, 0>>)
         [] action \in {"A", "B", "C", "D", "E", "F", "G"} /\ params = <<>> -> t
         [] action = "A" /\ params # <<>> -> position(t, <<pos[1], to>>)
         [] action = "B" /\ params # <<>> -> position(t, <<pos[1], AtMost(to, Height)>>)
         [] action = "C" /\ params # <<>> -> position(t, <<AtMost(to, Width), pos[2]>>)
         [] action = "D" /\ params # <<>> -> position(t, <<to, pos[2]>>)
         [] action = "E" /\ params # <<>> -> position(t, <<0, AtMost(to, Height)>>)
         [] action = "F" /\ params # <<>> -> position(t, <<0, to>>)
         [] action = "G" /\ params # <<>> -> position(t, <<AtMost(params[1], Width), pos[2]>>)
         [] OTHER -> t
-----------------------------------------------------------------------------
(* Escape sequences that change the colours. *)

handle_ansi_graphic_rendition(k, code) ==
    CASE code = 0 -> NewColorState
      [] code = 1 -> [k EXCEPT !.bright = TRUE]
      [] code = 2 -> [k EXCEPT !.dim = TRUE]
      [] code = 7 -> [k EXCEPT !.invert = TRUE]
      [] code = 22 -> [k EXCEPT !.bright = FALSE, !.dim = FALSE]
      [] code = 27 -> [k EXCEPT !.invert = FALSE]
      [] OTHER -> k

None == [some |-> FALSE, col |-> BLACK]
Some(col) == [some |-> TRUE, col |-> col]
Param(params, i) == IF i <= Len(params) THEN params[i] ELSE -1

\* [used, result] of the parameters after the i-th: ? returns at the first missing one
parse_complex_color(params, i) ==
    LET mode == Param(params, i + 1)
        index == Param(params, i + 2)
    IN CASE mode = 2 ->
                [used |-> 4,
                 result |-> IF i + 4 <= Len(params)
                            THEN Some([j \in 1..3 |-> params[i + 1 + j] % 256]) ELSE None]
         [] mode = 5 ->
                [used |-> 2,
                 result |-> IF index \in 0..255 THEN Some(COLOR_TABLE_256(index)) ELSE None]
         [] OTHER -> [used |-> 1, result |-> None]

ansi_color(code, params, i) ==
    CASE code \in 0..7 -> [used |-> 0, result |-> Some(AnsiColors[code + 1])]
      [] code = 9 -> [used |-> 0, result |-> Some(WHITE)]
      [] code = 8 -> parse_complex_color(params, i)

\* One round of the loop over the parameters; n is the index of the last one used.
ColorRound(s, params) ==
    LET i == s.n + 1
        code == params[i]
        base == IF code < 90 THEN (code \div 10) * 10 ELSE IF code < 100 THEN 90 ELSE 100
        col == ansi_color(code - base, params, i)
        isBright == base >= 90
        next == [s EXCEPT !.n = i + col.used]
    IN IF code \in 0..29
       THEN [s EXCEPT !.n = i, !.k = handle_ansi_graphic_rendition(s.k, code)]
       ELSE IF code \in 30..39 \/ code \in 90..97
       THEN IF col.result.some
            THEN [next EXCEPT !.k.fg_base_color = col.result.col, !.k.fg_bright = isBright]
            ELSE next
       ELSE IF code \in 40..49 \/ code \in 100..107
       THEN IF col.result.some
            THEN [next EXCEPT !.k.bg_base_color = col.result.col, !.k.bg_bright = isBright]
            ELSE next
       ELSE [s EXCEPT !.n = i]

\* The colours in use follow from the base colours and the attributes.
Applied(k) ==
    LET fg  == IF k.invert THEN k.bg_base_color ELSE k.fg_base_color
        bg  == IF k.invert THEN k.fg_base_color ELSE k.bg_base_color
        fg1 == IF k.bright \/ k.fg_bright THEN bright(fg) ELSE fg
    IN [k EXCEPT !.fg_color = IF k.dim THEN dim(fg1) ELSE fg1,
                 !.bg_color = IF k.bg_bright THEN bright(bg) ELSE bg]

handle_ansi_color(color_state, params) ==
    LET rounds[r \in 0 .. Len(params)] ==
            IF r = 0 THEN [n |-> 0, k |-> color_state]
            ELSE LET s == rounds[r - 1]
                 IN IF s.n >= Len(params) THEN s ELSE ColorRound(s, params)
    IN Applied(rounds[Len(params)].k)
-----------------------------------------------------------------------------
(* The parser (crate anstyle_parse), as far as its use shows it.  A byte is *)
(* a character, a control character, ESC, the introducer of a sequence with *)
(* its parameters, or a letter that ends a sequence: what a byte means      *)
(* depends on the bytes before it.  The parser is Ground between sequences. *)

Ground == [state |-> "Ground", params |-> <<>>]
Escape == [state |-> "Escape", params |-> <<>>]
Collecting(params) == [state |-> "Csi", params |-> params]

Char(c)      == [kind |-> "char", c |-> c, params |-> <<>>]
Control(c)   == [kind |-> "control", c |-> c, params |-> <<>>]
Esc          == [kind |-> "esc", c |-> "ESC", params |-> <<>>]
Csi(params)  == [kind |-> "csi", c |-> "CSI", params |-> params]
Final(c)     == [kind |-> "char", c |-> c, params |-> <<>>]

ParserAfter(p, byte) ==
    CASE byte.kind = "esc" -> Escape
      [] byte.kind = "csi" -> Collecting(byte.params)
      [] byte.kind = "control" -> p
      [] OTHER -> Ground

Dispatched(p, byte) ==
    CASE byte.kind = "control" -> [call |-> "execute", c |-> byte.c, params |-> <<>>]
      [] byte.kind = "char" /\ p = Ground -> [call |-> "print", c |-> byte.c, params |-> <<>>]
      [] byte.kind = "char" /\ p.state = "Csi" ->
             [call |-> "csi_dispatch", c |-> byte.c, params |-> p.params]
      [] OTHER -> [call |-> "none", c |-> byte.c, params |-> <<>>]
-----------------------------------------------------------------------------
(* impl Perform for LFBTerminal. *)

CursorActions == {"A", "B", "C", "D", "E", "F", "G", "H", "f", "n", "s", "u"}
Normal(action) == IF action = "f" THEN "H" ELSE action

Perform(t, call) ==
    CASE call.call = "print" -> print_char(t, call.c)
      [] call.call = "execute" /\ call.c = "NL" -> print_char(t, "NL")
      [] call.call = "execute" /\ call.c = "TAB" -> handle_tab(t)
      [] call.call = "csi_dispatch" /\ call.c \in CursorActions ->
             handle_ansi_cursor_sequence(t, Normal(call.c), call.params)
      [] call.call = "csi_dispatch" /\ call.c \in {"J", "K"} ->
             handle_ansi_erase_sequence(t, call.c, call.params)
      [] call.call = "csi_dispatch" /\ call.c = "m" ->
             [t EXCEPT !.k = handle_ansi_color(t.k, call.params)]
      [] OTHER -> t         \* the bell only plays the speaker

\* print_char() indexes the character buffer, whose bounds every build checks; the glyph
\* was drawn before, outside of the framebuffer.
OutOfBuffer(t, call) ==
    /\ call.call = "print" /\ HasGlyph(call.c) /\ call.c # "NL"
    /\ Index(t.c.pos) >= Capacity
-----------------------------------------------------------------------------
Terminal == [d |-> display, c |-> cursor, k |-> color]

SetTerminal(t) == /\ display' = t.d
                  /\ cursor' = t.c
                  /\ color' = t.k

Idle == [text |-> <<>>, left |-> <<>>, copy |-> Ground, from |-> Ground]
IsIdle(w) == writer[w].text = <<>>
NotPanicked == ~panicked

Init ==
    /\ display = [chars  |-> [i \in 0 .. Capacity - 1 |-> Character(SPACE, NewColorState)],
                  lfb    |-> [p \in Cells |-> Blank(BLACK)],
                  target |-> [p \in Cells |-> Blank(BLACK)]]
    /\ cursor = [pos |-> <<0, 1>>, saved_pos |-> <<0, 1>>]
    /\ color = NewColorState
    /\ parser = Ground
    /\ writer = [w \in Writers |-> Idle]
    /\ blink = [visible |-> TRUE, sleep_counter |-> 0]
    /\ writes = 0
    /\ unchecked = FALSE
    /\ panicked = FALSE

\* write_str() and write_byte() clone the shared parser ...
Clone(w, string) ==
    /\ NotPanicked /\ IsIdle(w) /\ writes < MaxWrites
    /\ writer' = [writer EXCEPT ![w] = [text |-> string, left |-> string,
                                        copy |-> parser, from |-> parser]]
    /\ writes' = writes + 1
    /\ UNCHANGED <<display, cursor, color, parser, blink, unchecked, panicked>>

write_str(w) == \E string \in Strings : Clone(w, string)

\* variant: the shared parser is advanced, not a clone of it
Bug_SharedParser(w) ==
    LET byte == Head(writer[w].left)
        call == Dispatched(parser, byte)
    IN /\ NotPanicked /\ writer[w].left # <<>>
       /\ SetTerminal(Perform(Terminal, call))
       /\ parser' = ParserAfter(parser, byte)
       /\ writer' = [writer EXCEPT ![w].left = Tail(@), ![w].copy = parser']
       /\ UNCHANGED <<blink, writes, unchecked, panicked>>

\* ... advance the clone byte by byte ...
Advance(w) ==
    LET byte == Head(writer[w].left)
        call == Dispatched(writer[w].copy, byte)
        over == /\ call.call = "csi_dispatch"
                /\ Overflows(Terminal, Normal(call.c), call.params)
    IN /\ NotPanicked /\ writer[w].left # <<>>
       /\ \/ /\ ~OutOfBuffer(Terminal, call)
             /\ SetTerminal(Perform(Terminal, call))
             /\ writer' = [writer EXCEPT ![w].left = Tail(@),
                                         ![w].copy = ParserAfter(@, byte)]
             /\ unchecked' = (unchecked \/ over)
             /\ UNCHANGED panicked
          \/ /\ \/ over /\ ~unchecked       \* a debug build
                \/ OutOfBuffer(Terminal, call)
             /\ panicked' = TRUE
             /\ UNCHANGED <<display, cursor, color, writer, unchecked>>
       /\ UNCHANGED <<parser, blink, writes>>

\* ... and swap it with the shared parser.
Swap(w) ==
    /\ NotPanicked /\ ~IsIdle(w) /\ writer[w].left = <<>>
    /\ parser' = writer[w].copy
    /\ writer' = [writer EXCEPT ![w] = Idle]
    /\ UNCHANGED <<display, cursor, color, blink, writes, unchecked, panicked>>

\* read_byte() returns a key of the keyboard after it has echoed it
read_byte(w) == \E key \in Keys : Clone(w, <<key>>)

clear(w) ==
    /\ NotPanicked /\ IsIdle(w) /\ writes < MaxWrites
    /\ SetTerminal(position(clear_screen(Terminal), <<0, 0>>))
    /\ writes' = writes + 1
    /\ UNCHANGED <<parser, writer, blink, unchecked, panicked>>

CURSOR_UPDATE_INTERVAL == 250

\* one round of the cursor thread
Blink ==
    LET slept == blink.sleep_counter + CURSOR_UPDATE_INTERVAL
        ch    == display.chars[Index(cursor.pos)]
        drawn == [display EXCEPT !.target =
                     draw_char(@, cursor.pos,
                               IF blink.visible THEN ch ELSE [ch EXCEPT !.value = CURSOR])]
    IN /\ NotPanicked /\ Index(cursor.pos) < Capacity
       /\ display' = IF slept >= 1000 THEN draw_status_bar(drawn) ELSE drawn
       /\ blink' = [visible |-> ~blink.visible,
                    sleep_counter |-> IF slept >= 1000 THEN 0 ELSE slept]
       /\ UNCHANGED <<cursor, color, parser, writer, writes, unchecked, panicked>>

\* ... and one that indexes the character buffer outside of its bounds
BlinkPanics ==
    /\ NotPanicked /\ Index(cursor.pos) >= Capacity
    /\ panicked' = TRUE
    /\ UNCHANGED <<display, cursor, color, parser, writer, blink, writes, unchecked>>

Next ==
    \/ \E w \in Writers :
          write_str(w) \/ Advance(w) \/ Swap(w) \/ read_byte(w) \/ clear(w)
    \/ Blink \/ BlinkPanics

Spec == Init /\ [][Next]_vars
-----------------------------------------------------------------------------
(* Properties. *)

Values == {b.c : b \in Bytes} \cup {NUL, SPACE, CURSOR, LineFill, Status.value}
Glyphs == [value : Values, fg : Colors, bg : Colors]
Displays == [chars : [0 .. Capacity - 1 -> Glyphs], lfb : [Cells -> Glyphs],
             target : [Cells -> Glyphs]]
Positions == (0 .. U16 - 1) \X (0 .. U16 - 1)
Parsers == [state : {"Ground", "Escape", "Csi"}, params : Seq(0 .. U16 - 1)]

\* The variables have their types.
TypeOK ==
    /\ display \in Displays
    /\ cursor \in [pos : Positions, saved_pos : Positions]
    /\ color \in ColorState
    /\ parser \in Parsers
    /\ writer \in [Writers -> [text : Seq(Bytes), left : Seq(Bytes),
                               copy : Parsers, from : Parsers]]
    /\ blink \in [visible : BOOLEAN, sleep_counter : {0, 250, 500, 750}]
    /\ writes \in 0 .. MaxWrites /\ unchecked \in BOOLEAN /\ panicked \in BOOLEAN

\* No sequence of writes, cursor moves, saved positions, wraps and scrolls takes the
\* cursor into the status bar or below the screen (position(), lfb_terminal.rs:303).  It
\* stays within the columns of the screen or, put there by a sequence (622), one past
\* them, and print_char() and the cursor thread, which index the character buffer with its
\* position (115, 218), stay inside the buffer, until a column or row is moved below zero
\* in a build that does not check for overflow.  Every variable has its type.
CursorInBounds ==
    /\ TypeOK
    /\ \A pos \in {cursor.pos, cursor.saved_pos} :
          /\ pos[2] \in 1 .. Height - 1
          /\ ~unchecked => pos[1] <= Width /\ Index(pos) < Capacity

\* Once the status bar is drawn it stays, in the buffered and in the visible picture:
\* whatever scrolls or clears line 0 draws it again before it releases the display
\* (lfb_terminal.rs:299, 342, 365).
StatusBarKept ==
    [][\A x \in 0 .. Width - 1 :
          /\ display.lfb[<<x, 0>>] = Status => display'.lfb[<<x, 0>>] = Status
          /\ display.target[<<x, 0>>] = Status => display'.target[<<x, 0>>] = Status]_vars

\* A string is parsed by its own bytes and the parser its writer started with, whatever
\* other threads write in the meantime: their bytes do not become part of its escape
\* sequences (write_str(), lfb_terminal.rs:141).
StringsStayWhole ==
    \A w \in Writers :
        LET done == Len(writer[w].text) - Len(writer[w].left)
            after[n \in 0 .. done] == IF n = 0 THEN writer[w].from
                                      ELSE ParserAfter(after[n - 1], writer[w].text[n])
        IN writer[w].copy = after[done]
=============================================================================
