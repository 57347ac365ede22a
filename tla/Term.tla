-------------------------------- MODULE Term --------------------------------
(***************************************************************************)
(* Windows of text (kernel/io/term.c): a window on the console, and one    *)
(* whose parent it is.  What is written to the inner window is written     *)
(* through to the outer one and from there to the console, which obeys the *)
(* VT100 sequences the code sends.  Every operation takes a state          *)
(* [outer, inner, scr, panicked] to the next one.                          *)
(***************************************************************************)
EXTENDS Integers, Sequences, SequencesExt

CONSTANTS
    Width, Height,           \* the outer window, as large as the console
    Left, Top, Wide, High,   \* the inner window
    Texts,                   \* sequences of characters, "nl" and "cr" among them
    MaxOps                   \* bound on the number of operations

TermAssumption ==
    /\ {Width, Height, Wide, High} \subseteq Nat \ {0} /\ {Left, Top} \subseteq Nat
    /\ Left + Wide <= Width /\ Top + High <= Height /\ MaxOps \in Nat

VARIABLES
    s,           \* the windows and the console
    status,      \* of the inner window: "none", "ready", "dangling"
    foreign,     \* cells of the inner window that the outer one has overwritten
    ops          \* number of operations done

vars == <<s, status, foreign, ops>>

Blank == [chr |-> " ", attrs |-> 0]
Cells(w, h) == (0 .. w - 1) \X (0 .. h - 1)
Window(w, h) == [chars |-> [c \in Cells(w, h) |-> Blank], x |-> 0, y |-> 0, attrs |-> 0]

Init ==
    /\ s = [outer |-> Window(Width, Height), inner |-> Window(Wide, High),
            scr |-> [cells |-> [c \in Cells(Width, Height) |-> Blank], x |-> 0, y |-> 0, attrs |-> 0],
            panicked |-> FALSE]
    /\ status = "none" /\ foreign = {} /\ ops = 0

(***************************************************************************)
(* The console (external): the cursor cannot leave it.                     *)
(***************************************************************************)
Least(a, b) == IF a < b THEN a ELSE b
Move(scr, x, y) == [scr EXCEPT !.x = Least(x, Width - 1), !.y = Least(y, Height - 1)]
Put(scr, c) ==
    [scr EXCEPT !.cells[<<scr.x, scr.y>>] = [chr |-> c, attrs |-> scr.attrs],
                !.x = Least(scr.x + 1, Width - 1)]
EraseAll(scr) == [scr EXCEPT !.cells = [c \in DOMAIN @ |-> Blank]]
EraseLine(scr) == [scr EXCEPT !.cells = [c \in DOMAIN @ |-> IF c[2] = scr.y THEN Blank ELSE @[c]]]

(***************************************************************************)
(* The cursor.  x may be the width: the next character breaks the line.    *)
(***************************************************************************)
ClampX(win, w, x) == IF x < 0 \/ w < x THEN win.x ELSE x
ClampY(win, h, y) == IF y < 0 \/ h <= y THEN win.y ELSE y

SetCursorOuter(t, x, y) ==
    LET cx == ClampX(t.outer, Width, x)
        cy == ClampY(t.outer, Height, y)
    IN  [t EXCEPT !.outer.x = cx, !.outer.y = cy, !.scr = Move(@, cx, cy)]

SetCursorInner(t, x, y) ==
    LET cx == ClampX(t.inner, Wide, x)
        cy == ClampY(t.inner, High, y)
    IN  SetCursorOuter([t EXCEPT !.inner.x = cx, !.inner.y = cy], Left + cx, Top + cy)

\* term_get_cursor_pos of the outer window asks the console, which counts from 1.
AskCursor(t) == [x |-> t.scr.x + 1, y |-> t.scr.y + 1]

(***************************************************************************)
(* term_write.  A line is collected in pending and sent where it started,  *)
(* at its end or at the end of the text.                                   *)
(***************************************************************************)
IsBreak(c) == c \in {"nl", "cr"}
SetChar(win, c) ==
    [win EXCEPT !.chars[<<win.x, win.y>>] = [chr |-> c, attrs |-> win.attrs], !.x = @ + 1]

\* Fault: the lines after the first one start where it started.
LineStart_kept(start) == start

LineStart(start) == 0

\* apply_attrs, then the characters.
SendOuter(t, start, pending) ==
    LET moved == SetCursorOuter(t, start, t.outer.y)
    IN  [moved EXCEPT !.scr = FoldLeft(Put, [@ EXCEPT !.attrs = t.outer.attrs], pending)]

NextLine(win, c) == [win EXCEPT !.x = 0, !.y = IF c = "cr" THEN @ ELSE @ + 1]

\* One character of the outer window; w is [t, start, pending].
StepOuter(w, c) ==
    IF w.t.panicked THEN w
    ELSE IF Width <= w.t.outer.x \/ IsBreak(c)
    THEN LET sent == SendOuter(w.t, w.start, w.pending)
             below == [sent EXCEPT !.outer = NextLine(@, c)]
         IN  IF Height <= below.outer.y
             THEN [w EXCEPT !.t = [below EXCEPT !.panicked = TRUE]]
             ELSE IF IsBreak(c) THEN [t |-> below, start |-> LineStart(w.start), pending |-> <<>>]
             ELSE [t |-> [below EXCEPT !.outer = SetChar(@, c)], start |-> LineStart(w.start), pending |-> <<c>>]
    ELSE [w EXCEPT !.t.outer = SetChar(@, c), !.pending = Append(@, c)]

EndOuter(w) ==
    IF w.t.panicked THEN w.t
    ELSE SetCursorOuter(SendOuter(w.t, w.start, w.pending), w.t.outer.x, w.t.outer.y)

WriteOuter(t, str) ==
    EndOuter(FoldLeft(StepOuter, [t |-> t, start |-> t.outer.x, pending |-> <<>>], str))

\* The parent writes the characters with the attributes of the inner window.
WithAttrs(t, attrs) == [t EXCEPT !.outer.attrs = attrs]
Through(t, strs) ==
    WithAttrs(FoldLeft(WriteOuter, WithAttrs(t, t.inner.attrs), strs), t.outer.attrs)
Singly(pending) == [i \in DOMAIN pending |-> <<pending[i]>>]

StepInner(w, c) ==
    IF w.t.panicked THEN w
    ELSE IF Wide <= w.t.inner.x \/ IsBreak(c)
    THEN LET sent == Through(SetCursorInner(w.t, w.start, w.t.inner.y), Singly(w.pending))
             below == [sent EXCEPT !.inner = NextLine(@, c)]
         IN  IF High <= below.inner.y
             THEN [w EXCEPT !.t = [below EXCEPT !.panicked = TRUE]]
             ELSE IF IsBreak(c) THEN [t |-> below, start |-> LineStart(w.start), pending |-> <<>>]
             ELSE [t |-> [below EXCEPT !.inner = SetChar(@, c)], start |-> LineStart(w.start), pending |-> <<c>>]
    ELSE [w EXCEPT !.t.inner = SetChar(@, c), !.pending = Append(@, c)]

EndInner(w) ==
    IF w.t.panicked THEN w.t
    ELSE SetCursorInner(Through(SetCursorInner(w.t, w.start, w.t.inner.y), <<w.pending>>),
                        w.t.inner.x, w.t.inner.y)

WriteInner(t, str) ==
    EndInner(FoldLeft(StepInner, [t |-> t, start |-> t.inner.x, pending |-> <<>>], str))

(***************************************************************************)
(* term_clear and term_clear_line.                                         *)
(***************************************************************************)
Spaces(n) == [i \in 1 .. n |-> <<" ">>]
Cleared(win, P(_)) ==
    [win EXCEPT !.chars = [c \in DOMAIN @ |-> IF P(c) THEN [chr |-> " ", attrs |-> win.attrs] ELSE @[c]]]

ClearOuter(t) ==
    [t EXCEPT !.outer = Cleared(@, LAMBDA c : TRUE), !.scr = EraseAll(@)]

ClearLineOuter(t) ==
    [t EXCEPT !.outer = Cleared(@, LAMBDA c : c[2] = t.outer.y),
              !.scr = EraseLine([@ EXCEPT !.attrs = t.outer.attrs])]

ClearInner(t) ==
    LET old == AskCursor(t)
        row(u, i) == FoldLeft(WriteOuter, SetCursorOuter(u, Left, Top + i - 1), Spaces(Wide))
        blank == FoldLeft(row, [t EXCEPT !.inner = Cleared(@, LAMBDA c : TRUE)], [i \in 1 .. High |-> i])
    IN  SetCursorOuter(blank, old.x, old.y)

ClearLineInner(t) ==
    LET old == AskCursor(t)
        u == [t EXCEPT !.inner = Cleared(@, LAMBDA c : c[2] = t.inner.y)]
    IN  SetCursorOuter(Through(SetCursorInner(u, 0, u.inner.y), Spaces(Wide)), old.x, old.y)

(***************************************************************************)
(* Operations of a client.                                                 *)
(***************************************************************************)
Inside == {<<Left + c[1], Top + c[2]>> : c \in Cells(Wide, High)}
InnerCell(c) == <<c[1] - Left, c[2] - Top>>

Do == ops < MaxOps /\ ops' = ops + 1 /\ ~s.panicked
OnOuter(t) ==
    /\ Do /\ s' = t /\ UNCHANGED status
    /\ foreign' = foreign \cup {c \in Inside : t.outer.chars[c] # s.outer.chars[c]}
OnInner(t) ==
    /\ Do /\ status = "ready" /\ s' = t /\ UNCHANGED status
    /\ foreign' = {c \in foreign : t.outer.chars[c] # t.inner.chars[InnerCell(c)]}

\* term_create of the inner window: without memory for its characters its object
\* is given back, and the caller gets 0.
term_create ==
    /\ Do /\ status = "none" /\ status' \in {"ready", "dangling"}
    /\ UNCHANGED <<s, foreign>>

term_write(str) == OnOuter(WriteOuter(s, str)) \/ OnInner(WriteInner(s, str))
term_clear == OnOuter(ClearOuter(s)) \/ OnInner(ClearInner(s))
term_clear_line == OnOuter(ClearLineOuter(s)) \/ OnInner(ClearLineInner(s))
term_set_cursor_pos(x, y) == OnOuter(SetCursorOuter(s, x, y)) \/ OnInner(SetCursorInner(s, x, y))
term_set_attr(a) ==
    \/ OnOuter([s EXCEPT !.outer.attrs = a])
    \/ OnInner([s EXCEPT !.inner.attrs = a])

Next ==
    \/ term_create \/ term_clear \/ term_clear_line
    \/ \E str \in Texts : term_write(str)
    \/ \E x \in -1 .. Width, y \in 0 .. Height : term_set_cursor_pos(x, y)
    \/ \E a \in 0 .. 1 : term_set_attr(a)

Spec == Init /\ [][Next]_vars

----------------------------------------------------------------------------
\* The attributes of a space are not compared: erasing gives none.
Same(a, b) == a.chr = b.chr /\ (a.chr # " " => a.attrs = b.attrs)

\* Until a window panics because it would have to scroll, the console shows what
\* the outer window holds, and the outer window holds what the inner one does
\* wherever it did not write itself; and the cursor of the console is that of the
\* outer window (term_write, term_clear, term_clear_line).
WindowsShown ==
    ~s.panicked =>
        /\ \A c \in Cells(Width, Height) : Same(s.scr.cells[c], s.outer.chars[c])
        /\ \A c \in Inside \ foreign : Same(s.outer.chars[c], s.inner.chars[InnerCell(c)])
        /\ s.scr.x = Least(s.outer.x, Width - 1) /\ s.scr.y = s.outer.y

\* Clearing the inner window leaves the cursor of the outer one where it was.  It
\* does not: the console answers in positions that start at 1 (term.c:232).
CursorKept ==
    [][(s' = ClearInner(s) /\ s # s') => s'.outer.x = s.outer.x /\ s'.outer.y = s.outer.y]_vars

\* A window that could not be created is not handed out.  It is: ret still has
\* the 0 of kobject_set_parent (term.c:100).
CreateReportsFailure == status # "dangling"
============================================================================
