------------------------------ MODULE MC_Text ------------------------------
(* Text, on its way in and out: the terminal on a frame buffer that can     *)
(* scroll ("fb"), on one that cannot ("plain"), on VGA ("vga"), and with    *)
(* other threads that print during the prompt ("race"); the console         *)
(* multiplexer ("console"); formatted output ("format"); fonts ("font");    *)
(* windows of text ("term"); the shell ("shell"); the window server         *)
(* ("windowd").  part says which; the variables of the others are off.      *)
EXTENDS Integers, Sequences, SequencesExt

CONSTANT None

VARIABLES
    part,
    s, written, flushed, todo, tpc, overflow, panicked,
    s_primary_stream, s_debug_stream, printed, shown, input, cpc, temp, timer, last,
    format, arg, room, state, fmt, flags, minwidth, padchar, lenmod, out, ret,
    font, version, data, fpc, next_chr, glyph, table, outside,
    row, col, mask, srcpixel, destpixel, pixels,
    win, status, foreign, ops,
    phase, keys, typed, cmdline, currentindex, argv, blocks, lost,
    optind, s_next_char_idx, options, entries, freed_twice,
    request, unsent, queue, wpc, field, buf, setup, strings, sent

-----------------------------------------------------------------------------
\* Lines that are full, empty, or overwritten from the left; a prompt that
\* scrolls and wraps.
TtyTexts == {<<"a">>, <<"b", "nl">>, <<"nl", "b">>, <<"a", "b", "a">>, <<"cr", "b">>}
TtyPrompt == <<"nl", "p", "cr", "p", "p", "p">>
Fb == INSTANCE Tty WITH
    pc <- tpc, Rows <- 3, Columns <- 2, FontHeight <- 2, Rest <- 1, HasScroll <- TRUE,
    Device <- "fb", Texts <- TtyTexts, Prompt <- TtyPrompt, MaxChars <- 11, Preempted <- FALSE
Plain == INSTANCE Tty WITH
    pc <- tpc, Rows <- 3, Columns <- 2, FontHeight <- 2, Rest <- 1, HasScroll <- FALSE,
    Device <- "fb", Texts <- TtyTexts, Prompt <- TtyPrompt, MaxChars <- 9, Preempted <- FALSE
Vga == INSTANCE Tty WITH
    pc <- tpc, Rows <- 3, Columns <- 2, FontHeight <- 2, Rest <- 1, HasScroll <- TRUE,
    Device <- "vga", Texts <- TtyTexts, Prompt <- TtyPrompt, MaxChars <- 9, Preempted <- FALSE
Race == INSTANCE Tty WITH
    pc <- tpc, Rows <- 3, Columns <- 2, FontHeight <- 2, Rest <- 1, HasScroll <- TRUE,
    Device <- "fb", Texts <- TtyTexts, Prompt <- TtyPrompt, MaxChars <- 11, Preempted <- TRUE

Consoles == INSTANCE Console WITH pc <- cpc, MaxMessages <- 3, QueueCap <- 2

\* Values at the edges of a word of 8 bits, and beyond; every flag, width,
\* length modifier and conversion, and a string that ends after a percent sign.
Directive(alt, zero, width, mod, conv) ==
    [kind |-> "directive", alt |-> alt, zero |-> zero, width |-> width, mod |-> mod, conv |-> conv]
Letter == [kind |-> "text", char |-> "t"]
Directives ==
    {Directive(a, z, w, m, k) :
        a \in BOOLEAN, z \in BOOLEAN, w \in {<< >>, <<"3">>, <<"1", "0">>},
        m \in {<< >>, <<"l">>, <<"l", "l">>, <<"h", "h">>, <<"z">>}, k \in {"d", "u", "x", "X"}}
    \cup {Directive(FALSE, FALSE, << >>, m, "d") : m \in {<<"h">>, <<"j">>}}
    \cup {Directive(FALSE, FALSE, w, << >>, k) : w \in {<< >>, <<"3">>}, k \in {"p", "c", "s", "%"}}
FormatTexts ==
    {<<Letter, d>> : d \in Directives}
    \cup {<<Directive(TRUE, TRUE, <<"4">>, << >>, "x"), Directive(FALSE, FALSE, << >>, << >>, k),
            Letter, [kind |-> "cut"]>> : k \in {"d", "u"}}
Printf == INSTANCE Format WITH
    WordMod <- 256, Formats <- FormatTexts,
    Values <- {0, 9, 10, 16, 127, 255, 256, 4000, -1, -10, -127},
    Strings <- {<< >>, <<"a", "b">>}, NullString <- None, Rooms <- {2, 12}

\* Code points of one to four bytes, one past the end of the table, and bytes
\* that are no UTF-8; every row of eight pixels.
Utf8 == (<<65>> :> <<65>>) @@ (<<233>> :> <<195, 169>>) @@ (<<8364>> :> <<226, 130, 172>>)
        @@ (<<128512>> :> <<240, 159, 152, 128>>) @@ (<<65535>> :> <<239, 191, 191>>)
NotUtf8 == {<<226, 130>>, <<254, 65>>, <<128>>, <<248, 1>>}
GlyphEntries ==
    LET items == DOMAIN Utf8 \cup NotUtf8
    IN  {<< >>} \cup {<<x>> : x \in items} \cup {<<x, y>> : x, y \in items}
Psf == INSTANCE Font WITH
    pc <- fpc, c <- col, Junk <- NotUtf8, Encoded <- Utf8,
    Fonts <- [1 .. 2 -> GlyphEntries]
             \cup [1 .. 3 -> {<< >>, <<<<65>>>>, <<<<233>>, <<8364>>>>, <<<<226, 130>>>>}],
    Rows <- {<<b>> : b \in 0 .. 255}, FontWidth <- 8, TableSize <- 65535, Question <- 63

\* A window inside another one, at its right and lower edge.
Windows == INSTANCE Term WITH
    s <- win, Width <- 3, Height <- 3, Left <- 1, Top <- 1, Wide <- 2, High <- 2, MaxOps <- 4,
    Texts <- {<<"a">>, <<"a", "b", "a">>, <<"b", "cr", "a">>, <<"b", "nl", "b">>}

\* Up to three words after the name of the program: options alone, joined, with
\* their argument, unknown ones, operands and separators; lines that are empty,
\* corrected, or longer than the buffer.
Words == {<< >>, <<"-", "a">>, <<"-", "b">>, <<"-", "b", "a">>, <<"-", "a", "b">>,
          <<"-", "x", "a">>, <<"-", "a", "x">>, <<"-">>, <<"-", "-">>, <<"a">>, <<";">>, <<"a", ";">>}
Spaced(w) == IF w = << >> THEN w ELSE <<" ">> \o w
CommandLines ==
    {<<"p">> \o Spaced(u) \o Spaced(v) \o Spaced(Spaced(w)) :
        u \in Words, v \in Words, w \in {<< >>, <<"-", "a">>, <<"a">>}}
    \cup {<< >>, <<" ">>, <<"backspace", "p">>, <<"q", "backspace", "p", " ", "a">>, <<"q">>,
          <<"p", "-", "a">>, <<" ", ";", "p">>, [i \in 1 .. 14 |-> "p"],
          <<"p">> \o [i \in 1 .. 12 |-> " "] \o <<"a", "backspace", "a">>}
Sh == INSTANCE Shell WITH
    Lines <- CommandLines, MaxLine <- 13, Flags <- {"a", "b"}, WithArg <- {"b"},
    Programs <- {<<"p">>}, MaxEntries <- 2, MaxLost <- 2

\* Strings with and without padding.
SetupStrings == {<< >>, <<1>>, <<1, 0, 3>>, <<3, 2, 1, 0>>, <<1, 1, 2, 2, 3>>}
Server == INSTANCE Windowd WITH
    pc <- wpc, ByteMod <- 8, Reason <- <<1, 2, 3, 4, 5>>,
    Setups <- [order : {1, 2}, major : {11}, minor : {0}, name : SetupStrings, data : SetupStrings]

ASSUME
    /\ Fb!TtyAssumption /\ Plain!TtyAssumption /\ Vga!TtyAssumption /\ Race!TtyAssumption
    /\ Consoles!ConsoleAssumption /\ Printf!FormatAssumption /\ Psf!FontAssumption
    /\ Windows!TermAssumption /\ Sh!ShellAssumption /\ Server!WindowdAssumption

-----------------------------------------------------------------------------
ttyVars ==
    <<s, written, flushed, todo, tpc, overflow, panicked>>
consoleVars ==
    <<s_primary_stream, s_debug_stream, printed, shown, input, cpc, temp, timer,
      last>>
formatVars ==
    <<format, arg, room, state, fmt, flags, minwidth, padchar, lenmod, out, ret>>
fontVars ==
    <<font, version, data, fpc, next_chr, glyph, table, outside, row, col, mask,
      srcpixel, destpixel, pixels>>
termVars ==
    <<win, status, foreign, ops>>
shellVars ==
    <<phase, keys, typed, cmdline, currentindex, argv, blocks, lost, optind,
      s_next_char_idx, options, entries, freed_twice>>
windowdVars ==
    <<request, unsent, queue, wpc, field, buf, setup, strings, sent>>

TtyOff ==
    /\ s = None /\ written = None /\ flushed = None /\ todo = None /\ tpc = None /\ overflow = None
    /\ panicked = None
ConsoleOff ==
    /\ s_primary_stream = None /\ s_debug_stream = None /\ printed = None /\ shown = None
    /\ input = None /\ cpc = None /\ temp = None /\ timer = None /\ last = None
FormatOff ==
    /\ format = None /\ arg = None /\ room = None /\ state = None /\ fmt = None /\ flags = None
    /\ minwidth = None /\ padchar = None /\ lenmod = None /\ out = None /\ ret = None
FontOff ==
    /\ font = None /\ version = None /\ data = None /\ fpc = None /\ next_chr = None /\ glyph = None
    /\ table = None /\ outside = None /\ row = None /\ col = None /\ mask = None /\ srcpixel = None
    /\ destpixel = None /\ pixels = None
TermOff ==
    /\ win = None /\ status = None /\ foreign = None /\ ops = None
ShellOff ==
    /\ phase = None /\ keys = None /\ typed = None /\ cmdline = None /\ currentindex = None
    /\ argv = None /\ blocks = None /\ lost = None /\ optind = None /\ s_next_char_idx = None
    /\ options = None /\ entries = None /\ freed_twice = None
WindowdOff ==
    /\ request = None /\ unsent = None /\ queue = None /\ wpc = None /\ field = None /\ buf = None
    /\ setup = None /\ strings = None /\ sent = None

-----------------------------------------------------------------------------
TtyInit == CASE part = "fb" -> Fb!Init [] part = "plain" -> Plain!Init
             [] part = "vga" -> Vga!Init [] part = "race" -> Race!Init [] OTHER -> TtyOff

InitOf(p) ==
    /\ part = p
    /\ TtyInit
    /\ IF p = "console" THEN Consoles!Init ELSE ConsoleOff
    /\ IF p = "format" THEN Printf!Init ELSE FormatOff
    /\ IF p = "font" THEN Psf!Init ELSE FontOff
    /\ IF p = "term" THEN Windows!Init ELSE TermOff
    /\ IF p = "shell" THEN Sh!Init ELSE ShellOff
    /\ IF p = "windowd" THEN Server!Init ELSE WindowdOff

MCInit ==
    \E p \in {"fb", "plain", "vga", "console", "format", "font", "term", "shell", "windowd"} :
        InitOf(p)

TtyStep ==
    /\ \/ part = "fb" /\ Fb!Next
       \/ part = "plain" /\ Plain!Next
       \/ part = "vga" /\ Vga!Next
    /\ UNCHANGED <<part, consoleVars, formatVars, fontVars, termVars, shellVars,
                   windowdVars>>
ConsoleStep ==
    /\ part = "console" /\ Consoles!Next
    /\ UNCHANGED <<part, ttyVars, formatVars, fontVars, termVars, shellVars, windowdVars>>
FormatStep ==
    /\ part = "format" /\ Printf!Next
    /\ UNCHANGED <<part, ttyVars, consoleVars, fontVars, termVars, shellVars, windowdVars>>
FontStep ==
    /\ part = "font" /\ Psf!Next
    /\ UNCHANGED <<part, ttyVars, consoleVars, formatVars, termVars, shellVars,
                   windowdVars>>
TermStep ==
    /\ part = "term" /\ Windows!Next
    /\ UNCHANGED <<part, ttyVars, consoleVars, formatVars, fontVars, shellVars,
                   windowdVars>>
ShellStep ==
    /\ part = "shell" /\ Sh!Next
    /\ UNCHANGED <<part, ttyVars, consoleVars, formatVars, fontVars, termVars,
                   windowdVars>>
WindowdStep ==
    /\ part = "windowd" /\ Server!Next
    /\ UNCHANGED <<part, ttyVars, consoleVars, formatVars, fontVars, termVars, shellVars>>

MCNext ==
    TtyStep \/ ConsoleStep \/ FormatStep \/ FontStep \/ TermStep \/ ShellStep \/ WindowdStep

allVars == <<part, ttyVars, consoleVars, formatVars, fontVars, termVars, shellVars, windowdVars>>

\* As in Console!FairSpec and Windowd!FairSpec.
MCFairSpec ==
    /\ MCInit /\ [][MCNext]_allVars
    /\ WF_consoleVars(part = "console" /\ Consoles!Boot)
    /\ SF_consoleVars(part = "console" /\ Consoles!PollTty)
    /\ SF_consoleVars(part = "console" /\ Consoles!Type("tty", "1"))
    /\ WF_consoleVars(part = "console" /\ Consoles!Type("serial", "cr"))
    /\ WF_windowdVars(part = "windowd" /\ Server!Send)
    /\ WF_windowdVars(part = "windowd"
                        /\ (Server!Allocate \/ Server!RecvByte \/ Server!FieldDone \/ Server!Answer))

\* The terminal when the prompt is interrupted.
RaceStep ==
    /\ part = "race" /\ Race!Next
    /\ UNCHANGED <<part, consoleVars, formatVars, fontVars, termVars, shellVars,
                   windowdVars>>
RaceSpec == InitOf("race") /\ [][RaceStep]_allVars

-----------------------------------------------------------------------------
\* vt100tty.c, fbtty.c, fb.c, vgatty.c: after a flush the frame buffer, and at
\* any time the video memory, shows the last lines of all that was written,
\* although only marked characters are drawn, only damaged rows are copied, and
\* scrolling moves characters, marks and both buffers separately.
ScreenExact ==
    /\ part = "fb" => Fb!ScreenExact
    /\ part = "plain" => Plain!ScreenExact
    /\ part = "vga" => Vga!VgaExact

\* vt100tty.c:15 and 16: "assert(row < self->rows);" and
\* "assert(column < self->columns);", also when several threads print.
CharAtInRange == part = "race" => Race!CharAtInRange

\* co.c: no console shows a message twice or out of order, none that follows one
\* which was shown is lost on all consoles, and the selection loses no console,
\* although the streams change roles one after the other while others print.
ConsolesSound == part = "console" => Consoles!ConsolesSound

\* co.c, stream.c: the question for the primary console ends when the user
\* answers it and something arrives on the serial line, whose read ignores the
\* timeout.
SelectionEnds == (part = "console" /\ cpc = "ask") ~> (cpc \in {"shell", "crashed"})

\* stream.c: the output of a format string is what C says of it, cut where the
\* stream fails, and the result is its length or an error.
FormatExact == part = "format" => Printf!FormatExact

\* psf.c, fb.c: every character of the font's table is drawn with its glyph,
\* whatever is in the table besides, and a row of a glyph is drawn pixel by pixel.
FontExact == part = "font" => Psf!FontExact

\* term.c: what a window shows is what was written to it, in its own rectangle,
\* whatever is written to the window around it.
WindowsShown == part = "term" => Windows!WindowsShown

\* shell.c, strutil.c, unistd.c: a command has the words of its line, and the
\* program gets its options and operands, whatever was typed and corrected, and
\* whatever command was parsed before.
CommandExact == part = "shell" => Sh!CommandExact

\* windowd.c: the server understands every setup of a client, in both byte
\* orders and with strings of every length, and its reply to each comes.
SetupAnswered ==
    /\ [](part = "windowd" => Server!SetupExact)
    /\ part = "windowd" => <>(wpc \in {"listening", "halted"})
=============================================================================
