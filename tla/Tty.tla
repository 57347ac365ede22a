-------------------------------- MODULE Tty --------------------------------
(***************************************************************************)
(* Text terminals: vt100tty.c, which keeps the characters of the screen    *)
(* and marks those to redraw, on fbtty.c, which draws them, on fb.c, which *)
(* has a back buffer and copies damaged rows to the frame buffer; and      *)
(* vgatty.c, which writes to the text memory of the video card.            *)
(* Output through co.c runs with interrupts disabled and is one step.      *)
(* co_ask_primary_console writes with interrupts enabled: its write is     *)
(* split where a thread that prints can come between (Preempted).          *)
(* A pixel column stands for a column of characters.  What a pixel shows   *)
(* is the set of lines of glyphs that were drawn there since it was made   *)
(* black, {}.                                                              *)
(***************************************************************************)
EXTENDS Integers, Sequences, SequencesExt

CONSTANTS
    Rows, Columns,       \* of the terminal
    FontHeight, Rest,    \* pixel rows of a line, and below the last line
    HasScroll,           \* ops->scroll: TRUE for fbtty.c, optional in vt100tty.h
    Device,              \* "fb" or "vga"
    Texts, Prompt,       \* what threads print, what co_ask_primary_console prints
    MaxChars,            \* bound on the characters written
    Preempted            \* whether others print during the prompt

TtyAssumption ==
    /\ Rows \in Nat \ {0, 1} /\ Columns \in Nat \ {0}
    /\ FontHeight \in Nat \ {0} /\ Rest \in 0 .. FontHeight - 1
    /\ HasScroll \in BOOLEAN /\ Preempted \in BOOLEAN /\ Device \in {"fb", "vga"}

VARIABLES
    s,                   \* the terminal
    written,             \* all characters written so far
    flushed,             \* nothing was written since the last flush
    todo, pc, overflow,  \* the prompt: what is left of it, where its writer is
    panicked             \* an assertion of char_at failed

vars == <<s, written, flushed, todo, pc, overflow, panicked>>

Height == Rows * FontHeight + Rest
Lines == 0 .. Rows - 1
Cols == 0 .. Columns - 1
Ys == 0 .. Height - 1
Full(pixel) == [y \in Ys |-> [x \in Cols |-> pixel]]

(***************************************************************************)
(* fb.c.  s_damage_first_y and s_damage_last_y bound the rows in which the *)
(* back buffer may differ from the frame buffer, -1 if there are none.     *)
(***************************************************************************)
include_damage(f, from, to) ==
    [f EXCEPT !.s_damage_first_y = IF @ = -1 \/ from < @ THEN from ELSE @,
              !.s_damage_last_y = IF @ = -1 \/ @ < to THEN to ELSE @]

InRect(x, y, width, height, destx, desty) ==
    x \in destx .. destx + width - 1 /\ y \in desty .. desty + height - 1

fb_draw_rect(f, width, height, destx, desty) ==
    include_damage([f EXCEPT !.s_backbuffer = [y \in Ys |-> [x \in Cols |->
                        IF InRect(x, y, width, height, destx, desty)
                        THEN {} ELSE f.s_backbuffer[y][x]]]],
                   desty, desty + height - 1)

\* What a line of a glyph draws; the glyph of a blank draws nothing.
Ink(chr, line) == IF chr = " " THEN {} ELSE {<<chr, line>>}

\* One character: fbtty.c never passes more.
fb_draw_text(f, chr, destx, desty) ==
    include_damage([f EXCEPT !.s_backbuffer = [y \in Ys |-> [x \in Cols |->
                        IF InRect(x, y, 1, FontHeight, destx, desty)
                        THEN f.s_backbuffer[y][x] \cup Ink(chr, y - desty)
                        ELSE f.s_backbuffer[y][x]]]],
                   desty, desty + FontHeight - 1)

\* update32, update24, update16, update8, update1: they differ in the format of
\* a pixel.
fb_update(f) ==
    IF f.s_damage_first_y < 0 THEN f
    ELSE [f EXCEPT !.s_fb = [y \in Ys |->
                       IF y \in f.s_damage_first_y .. f.s_damage_last_y
                       THEN f.s_backbuffer[y] ELSE @[y]],
                   !.s_damage_first_y = -1, !.s_damage_last_y = -1]

Up(buffer, scrolllen) ==
    [y \in Ys |-> IF y < Height - scrolllen THEN buffer[y + scrolllen] ELSE buffer[y]]

\* Fault: only the back buffer is moved.
fb_scroll_back(f, scrolllen) ==
    [f EXCEPT !.s_backbuffer = Up(@, scrolllen)]

fb_scroll(f, scrolllen) ==
    [f EXCEPT !.s_fb = Up(@, scrolllen), !.s_backbuffer = Up(@, scrolllen)]

(***************************************************************************)
(* fbtty.c.  need_supdate is cleared before it decides whether a run of    *)
(* characters ends, so that each marked character is drawn on its own.     *)
(***************************************************************************)
\* Fault: the cell is not made black first.
DrawCell_over(f, row, col) ==
    fb_draw_text(f, f.chars[row][col].chr, col, row * FontHeight)

DrawCell(f, row, col) ==
    fb_draw_text(fb_draw_rect(f, 1, FontHeight, col, row * FontHeight),
                 f.chars[row][col].chr, col, row * FontHeight)

vt100tty_op_updatescreen(f) ==
    LET cell(i) == <<i \div Columns, i % Columns>>
        Cell(g, i) == IF g.chars[cell(i)[1]][cell(i)[2]].need_supdate
                      THEN DrawCell([g EXCEPT !.chars[cell(i)[1]][cell(i)[2]].need_supdate = FALSE],
                                    cell(i)[1], cell(i)[2])
                      ELSE g
    IN  fb_update(FoldLeft(Cell, f, [i \in 1 .. Rows * Columns |-> i - 1]))

vt100tty_op_scroll(f, lines) == fb_scroll(f, lines * FontHeight)

\* The terminal after fb_init_rgb or fb_init_indexed, fbtty_init and
\* vt100tty_init.  The screen still shows what it showed before.
fbtty_init ==
    [currentrow |-> 0, currentcolumn |-> 0,
     chars |-> [r \in Lines |-> [c \in Cols |-> [chr |-> " ", need_supdate |-> TRUE]]],
     lineinfos |-> [r \in Lines |-> [is_continuation |-> FALSE, need_supdate |-> TRUE]],
     s_backbuffer |-> Full({}), s_fb |-> Full({"before"}),
     s_damage_first_y |-> 0, s_damage_last_y |-> Height - 1]

(***************************************************************************)
(* vt100tty.c: the parts of advanceline and write_char.                    *)
(***************************************************************************)
NextRow(f) == [f EXCEPT !.currentcolumn = 0, !.currentrow = @ + 1]

Marked(cell) == [cell EXCEPT !.need_supdate = TRUE]
MarkedRow(row) == [c \in Cols |-> Marked(row[c])]

\* Fault: the marks stay where they were when the characters move up.
CopyLines_marks(f) ==
    [f EXCEPT
       !.chars = [r \in Lines |-> [c \in Cols |->
           [chr |-> @[IF r < Rows - 1 THEN r + 1 ELSE r][c].chr,
            need_supdate |-> @[r][c].need_supdate]]],
       !.lineinfos = [r \in Lines |-> IF r < Rows - 1 THEN @[r + 1] ELSE @[r]]]

CopyLines(f) ==
    LET moved == [r \in Lines |-> f.chars[IF r < Rows - 1 THEN r + 1 ELSE r]]
        info(r) == [f.lineinfos[r] EXCEPT !.is_continuation = f.lineinfos[r + 1].is_continuation,
                                          !.need_supdate = @ \/ ~HasScroll]
    IN  [f EXCEPT
           !.chars = IF HasScroll THEN moved ELSE [r \in Lines |-> MarkedRow(moved[r])],
           !.lineinfos = [r \in Lines |-> IF r < Rows - 1 THEN info(r) ELSE @[r]]]

RowBack(f) == [f EXCEPT !.currentrow = @ - 1]

Scroll(f) == IF HasScroll THEN vt100tty_op_scroll(f, 1) ELSE f

ClearRow(f) ==
    IF f.currentrow < Rows
    THEN [f EXCEPT !.chars[f.currentrow] = [c \in Cols |-> [chr |-> " ", need_supdate |-> TRUE]],
                   !.lineinfos[f.currentrow].need_supdate = TRUE]
    ELSE f

LineFlags(f, wastextoverflow) ==
    [f EXCEPT !.lineinfos = [@ EXCEPT ![0].is_continuation = FALSE,
                                      ![f.currentrow].is_continuation = wastextoverflow]]

ScrollRound(f) == ClearRow(Scroll(RowBack(CopyLines(f))))

advanceline(f, wastextoverflow) ==
    LET n == NextRow(f)
        Round(g, i) == ScrollRound(g)
    IN  LineFlags(FoldLeft(Round, n, [i \in 1 .. n.currentrow - Rows + 1 |-> i]),
                  wastextoverflow)

\* The assertions of char_at.
InScreen(f) == f.currentrow \in Lines /\ f.currentcolumn \in Cols

PutChar(f, chr) ==
    [f EXCEPT !.chars[f.currentrow][f.currentcolumn] = [chr |-> chr, need_supdate |-> TRUE],
              !.lineinfos[f.currentrow].need_supdate = TRUE,
              !.currentcolumn = @ + 1]

\* A failed assertion leaves the state and sets failed.
PutOrFail(f, chr) ==
    IF InScreen(f) THEN PutChar(f, chr) ELSE [f EXCEPT !.currentcolumn = -1]

Failed(f) == f.currentcolumn = -1

\* Fault: a character may stand one column right of the last.
LineFull_late(f) == Columns < f.currentcolumn

LineFull(f) == Columns <= f.currentcolumn

write_char(f, chr) ==
    IF Failed(f) THEN f
    ELSE IF chr = "nl" THEN advanceline(f, FALSE)
    ELSE IF chr = "cr" THEN [f EXCEPT !.currentcolumn = 0]
    ELSE PutOrFail(IF LineFull(f) THEN advanceline(f, TRUE) ELSE f, chr)

\* The loop clears the flag of the current line Rows times.
stream_op_flush(f) ==
    [vt100tty_op_updatescreen(f) EXCEPT !.lineinfos[f.currentrow].need_supdate = FALSE]

(***************************************************************************)
(* vgatty.c: characters go to the screen at once; there is no flush.       *)
(***************************************************************************)
archi586_vgatty_init ==
    [currentrow |-> 0, currentcolumn |-> 0, s_chars |-> [r \in Lines |-> [c \in Cols |-> " "]]]

\* Fault: the last line is not cleared.
advance_line_dirty(v) ==
    IF v.currentrow + 1 < Rows
    THEN NextRow(v)
    ELSE [v EXCEPT !.currentcolumn = 0,
                   !.s_chars = [r \in Lines |-> IF r < Rows - 1 THEN @[r + 1] ELSE @[r]]]

advance_line(v) ==
    IF v.currentrow + 1 < Rows
    THEN NextRow(v)
    ELSE [v EXCEPT !.currentcolumn = 0,
                   !.s_chars = [r \in Lines |-> IF r < Rows - 1 THEN @[r + 1]
                                                ELSE [c \in Cols |-> " "]]]

vga_put(v, chr) ==
    [v EXCEPT !.s_chars[v.currentrow][v.currentcolumn] = chr, !.currentcolumn = @ + 1]

vga_write_char(v, chr) ==
    IF chr = "nl" THEN advance_line(v)
    ELSE IF chr = "cr" THEN [v EXCEPT !.currentcolumn = 0]
    ELSE vga_put(IF LineFull(v) THEN advance_line(v) ELSE v, chr)

(***************************************************************************)
(* Output.                                                                 *)
(***************************************************************************)
Write(f, text) ==
    IF Device = "vga" THEN FoldLeft(vga_write_char, f, text) ELSE FoldLeft(write_char, f, text)

Flush(f) == IF Device = "vga" THEN f ELSE stream_op_flush(f)

Init ==
    /\ s = IF Device = "vga" THEN archi586_vgatty_init ELSE fbtty_init
    /\ written = << >> /\ flushed = FALSE
    /\ todo = << >> /\ pc = "idle" /\ overflow = FALSE /\ panicked = FALSE

\* The bound on what is written.
Fits(text) == Len(written) + Len(text) <= MaxChars

\* char_at panics if it is called outside the screen.
PrintTo(f, text) ==
    IF Failed(f) THEN panicked' = TRUE /\ UNCHANGED <<s, written, flushed>>
    ELSE /\ s' = Flush(f) /\ flushed' = TRUE
         /\ written' = written \o text /\ UNCHANGED panicked

\* co_put_char, co_put_string and co_vprintf write and flush with interrupts
\* disabled.
co_vprintf(text) ==
    /\ ~panicked /\ Fits(text) /\ (Preempted \/ pc = "idle")
    /\ PrintTo(Write(s, text), text)
    /\ UNCHANGED <<todo, pc, overflow>>

\* stream_printf of the prompt, with interrupts enabled, and stream_flush.
AskPrompt ==
    /\ ~panicked /\ pc = "idle" /\ Device = "fb" /\ Fits(Prompt)
    /\ todo' = Prompt /\ pc' = "char" /\ flushed' = FALSE
    /\ UNCHANGED <<s, written, overflow, panicked>>

Goto(label) == pc' = label /\ UNCHANGED <<todo, written>>
CharDone == todo' = Tail(todo) /\ pc' = "char" /\ written' = Append(written, Head(todo))
Step(label) == pc = label /\ ~panicked
Kept == UNCHANGED <<flushed, overflow, panicked>>

PromptChar ==
    /\ Step("char") /\ todo # << >>
    /\ \/ /\ Head(todo) = "nl" /\ Goto("row")
          /\ overflow' = FALSE /\ UNCHANGED s
       \/ /\ Head(todo) = "cr" /\ CharDone
          /\ s' = [s EXCEPT !.currentcolumn = 0] /\ UNCHANGED overflow
       \/ /\ Head(todo) \notin {"nl", "cr"} /\ UNCHANGED s
          /\ IF LineFull(s) THEN Goto("row") /\ overflow' = TRUE
                            ELSE Goto("put") /\ UNCHANGED overflow
    /\ UNCHANGED <<flushed, panicked>>

PromptRow == Step("row") /\ s' = NextRow(s) /\ Goto("loop") /\ Kept

PromptLoop ==
    /\ Step("loop")
    /\ IF Rows <= s.currentrow
       THEN s' = CopyLines(s) /\ Goto("back")
       ELSE /\ s' = LineFlags(s, overflow)
            /\ IF overflow THEN Goto("put") ELSE CharDone
    /\ Kept

PromptBack == Step("back") /\ s' = RowBack(s) /\ Goto("scroll") /\ Kept
PromptScroll == Step("scroll") /\ s' = Scroll(s) /\ Goto("clear") /\ Kept
PromptClear == Step("clear") /\ s' = ClearRow(s) /\ Goto("loop") /\ Kept

PromptPut ==
    /\ Step("put")
    /\ IF InScreen(s) THEN s' = PutChar(s, Head(todo)) /\ CharDone /\ UNCHANGED panicked
       ELSE panicked' = TRUE /\ Goto("put") /\ UNCHANGED s
    /\ UNCHANGED <<flushed, overflow>>

PromptFlush ==
    /\ Step("char") /\ todo = << >>
    /\ s' = Flush(s) /\ flushed' = TRUE /\ Goto("idle")
    /\ UNCHANGED <<overflow, panicked>>

Next ==
    \/ \E text \in Texts : co_vprintf(text)
    \/ AskPrompt \/ PromptChar \/ PromptRow \/ PromptLoop \/ PromptBack
    \/ PromptScroll \/ PromptClear \/ PromptPut \/ PromptFlush

Spec == Init /\ [][Next]_vars

----------------------------------------------------------------------------
(***************************************************************************)
(* What the text is on a paper without end: a sequence of lines.           *)
(***************************************************************************)
BlankLine(continued) == [text |-> [c \in Cols |-> " "], continued |-> continued]
OnPaper(p, chr) ==
    LET n == Len(p.lines)
    IN  IF chr = "nl" THEN [lines |-> Append(p.lines, BlankLine(FALSE)), col |-> 0]
        ELSE IF chr = "cr" THEN [p EXCEPT !.col = 0]
        ELSE IF p.col = Columns
        THEN [lines |-> Append(p.lines, [BlankLine(TRUE) EXCEPT !.text[0] = chr]), col |-> 1]
        ELSE [lines |-> [p.lines EXCEPT ![n].text[p.col] = chr], col |-> p.col + 1]
Paper == FoldLeft(OnPaper, [lines |-> <<BlankLine(FALSE)>>, col |-> 0], written).lines

\* The line of a paper that the row of a screen shows: the last ones.
OnScreen(paper, r) ==
    LET first == IF Len(paper) > Rows THEN Len(paper) - Rows ELSE 0
        n == first + r + 1
    IN  IF n > Len(paper) THEN BlankLine(FALSE)
        ELSE [paper[n] EXCEPT !.continued = @ /\ r > 0]

ShownOnFb(paper) ==
    /\ \A y \in Ys, x \in Cols :
          s.s_fb[y][x] = IF y \div FontHeight \in Lines
                         THEN Ink(OnScreen(paper, y \div FontHeight).text[x], y % FontHeight)
                         ELSE {}
    /\ \A r \in Lines : s.lineinfos[r].is_continuation = OnScreen(paper, r).continued

\* vt100tty.c, fbtty.c, fb.c: after a flush the screen shows the last lines of
\* all that was written, every character in its place and nothing else, although
\* only marked characters are drawn, only damaged rows are copied, and scrolling
\* moves characters, marks, back buffer and frame buffer separately.
ScreenExact ==
    (Device = "fb" /\ flushed /\ ~panicked) => ShownOnFb(Paper)

\* vgatty.c: the video memory always shows the last lines of all that was
\* written.
VgaExact ==
    Device = "vga" => LET paper == Paper
                      IN  \A r \in Lines : s.s_chars[r] = OnScreen(paper, r).text

\* vt100tty.c:15 and 16: "assert(row < self->rows);" and
\* "assert(column < self->columns);"
CharAtInRange == ~panicked

\* vt100tty.h:12, need_supdate of a line: "Does this line need update?"  A flush
\* updates all lines, but clears the flag of the current one only.
FlushedLinesClean ==
    (Device = "fb" /\ flushed) => \A r \in Lines : ~s.lineinfos[r].need_supdate
============================================================================
