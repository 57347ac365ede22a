-------------------------------- MODULE Font --------------------------------
(***************************************************************************)
(* The console font: reading the Unicode table of a PSF font               *)
(* (kernel/raster/psf.c), finding the glyph of a character, and drawing a  *)
(* row of a glyph (fb_draw_text in kernel/raster/fb.c).  A font is the     *)
(* list, for each of its glyphs, of the code points it stands for and of   *)
(* sequences of bytes that are not UTF-8; its table is what these are      *)
(* encoded as, in UTF-8 for version 2 and in UTF-16 for version 1, where   *)
(* only sequences of characters are possible besides.                      *)
(***************************************************************************)
EXTENDS Integers, Sequences, SequencesExt, FiniteSetsExt

CONSTANTS
    Fonts,       \* sequences of sequences of code points and of junk
    Junk,        \* the sequences of bytes that are not UTF-8
    Encoded,     \* the UTF-8 encoding of every other item
    Rows,        \* rows of glyphs: sequences of bytes
    FontWidth,
    TableSize,   \* UINT16_MAX
    Question     \* '?'

FontAssumption ==
    /\ FontWidth \in Nat \ {0} /\ TableSize \in Nat
    /\ Rows \subseteq [1 .. (FontWidth + 7) \div 8 -> 0 .. 255]

VARIABLES
    font, version, data,      \* the font, and its table: bytes or 16-bit units
    pc, next_chr, glyph,
    table,                    \* s_unicodetable: code points with an entry
    outside,                  \* some access was outside the table or the font
    row, c, mask, srcpixel, destpixel, pixels

loading == <<font, version, data, next_chr, glyph, table, outside>>
drawing == <<row, c, mask, srcpixel, destpixel, pixels>>
vars == <<pc, loading, drawing>>

Eol2 == 255
Sequence2 == 254
Eol1 == 65535
Sequence1 == 65534

\* The table of a font of version 2 and of version 1.
Bytes2(item) == IF item \in Junk THEN item ELSE Encoded[item]
Table2(f) == FlattenSeq([g \in DOMAIN f |-> FlattenSeq([i \in DOMAIN f[g] |-> Bytes2(f[g][i])]) \o <<Eol2>>])
Units1(item) == IF item \in Junk THEN <<Sequence1>> \o Tail(item) ELSE <<item[1]>>
Table1(f) == FlattenSeq([g \in DOMAIN f |-> FlattenSeq([i \in DOMAIN f[g] |-> Units1(f[g][i])]) \o <<Eol1>>])
Representable1(f) ==
    \A g \in DOMAIN f : \A i \in DOMAIN f[g] :
        IF f[g][i] \in Junk THEN f[g][i][1] = Sequence2 ELSE f[g][i][1] < Sequence1

Init ==
    /\ next_chr = 1 /\ glyph = 0 /\ table = <<>> /\ outside = FALSE
    /\ c = 0 /\ mask = 128 /\ srcpixel = 1 /\ destpixel = 0 /\ pixels = {}
    /\ \/ /\ pc = "psf_init" /\ row = <<>>
          /\ font \in Fonts
          /\ \/ version = 2 /\ data = Table2(font)
             \/ Representable1(font) /\ version = 1 /\ data = Table1(font)
       \/ /\ pc = "draw" /\ row \in Rows
          /\ font = <<>> /\ version = 2 /\ data = <<>>

\* init_psf1, init_psf2: no memory, and the font is used without a table.
psf_init ==
    /\ pc = "psf_init" /\ pc' \in {"read", "no_table"}
    /\ UNCHANGED <<loading, drawing>>

(***************************************************************************)
(* UTF-8                                                                   *)
(***************************************************************************)
utf8_get_bytes_len(b) ==
    CASE b < 128 -> 1
      [] b \div 32 = 6 -> 2
      [] b \div 16 = 14 -> 3
      [] b \div 8 = 30 -> 4
      [] OTHER -> -1

psf2_will_eol_or_eof(i, len) == \E k \in 1 .. len - 1 : i + k > Len(data) \/ data[i + k] = Eol2

\* Reading past the end gives nothing that continues a sequence.
ByteAt(i) == IF i <= Len(data) THEN data[i] ELSE 0
utf8_to_codepoint(i, len) ==
    IF \E k \in 1 .. len - 1 : ByteAt(i + k) \div 64 # 2 THEN -1
    ELSE FoldLeft(LAMBDA result, k : result * 64 + (ByteAt(i + k) % 64),
                  IF len = 1 THEN data[i] ELSE data[i] % (2 ^ (7 - len)),
                  [k \in 1 .. len - 1 |-> k])

(***************************************************************************)
(* read_psf2_utf8_entries and read_psf1_utf16_entries: one round each.     *)
(***************************************************************************)
More == pc = "read" /\ next_chr <= Len(data) /\ glyph < Len(font)

Map(unicode) ==
    /\ table' = [u \in DOMAIN table \cup {unicode} |-> IF u = unicode THEN glyph ELSE table[u]]
    /\ outside' = (outside \/ unicode >= TableSize)
    /\ UNCHANGED glyph

\* Fault: the glyph is not counted when nothing was mapped to it.
EndOfGlyph_used == glyph' = IF glyph \in {table[u] : u \in DOMAIN table} THEN glyph + 1 ELSE glyph

EndOfGlyph == glyph' = glyph + 1

Entry2 ==
    /\ More /\ version = 2
    /\ LET b == data[next_chr]
           len == utf8_get_bytes_len(b)
           bad == len < 0 \/ psf2_will_eol_or_eof(next_chr, len) \/ utf8_to_codepoint(next_chr, len) < 0
           unicode == IF bad THEN b ELSE utf8_to_codepoint(next_chr, len)
       IN  \/ b = Eol2 /\ EndOfGlyph /\ next_chr' = next_chr + 1 /\ UNCHANGED <<table, outside>>
           \/ b = Sequence2 /\ next_chr' = next_chr + 1 /\ UNCHANGED <<glyph, table, outside>>
           \/ /\ b \notin {Eol2, Sequence2}
              /\ next_chr' = next_chr + IF bad THEN 1 ELSE len
              /\ IF 65535 < unicode THEN UNCHANGED <<glyph, table, outside>> ELSE Map(unicode)
    /\ UNCHANGED <<pc, font, version, data, drawing>>

Entry1 ==
    /\ More /\ version = 1 /\ next_chr' = next_chr + 1
    /\ \/ data[next_chr] = Eol1 /\ EndOfGlyph /\ UNCHANGED <<table, outside>>
       \/ data[next_chr] = Sequence1 /\ UNCHANGED <<glyph, table, outside>>
       \/ data[next_chr] \notin {Eol1, Sequence1} /\ Map(data[next_chr])
    /\ UNCHANGED <<pc, font, version, data, drawing>>

TableDone ==
    /\ pc = "read" /\ ~More /\ pc' = "ready"
    /\ UNCHANGED <<loading, drawing>>

psf_getglyph(chr) ==
    LET known == IF 65535 < chr THEN Question ELSE chr
        index == IF pc = "no_table" THEN known ELSE IF known \in DOMAIN table THEN table[known] ELSE 0
    IN  index % Len(font)

(***************************************************************************)
(* A row of fb_draw_text: one pixel a step.  A byte without pixels is      *)
(* skipped whole.                                                          *)
(***************************************************************************)
Bit(n, k) == (n \div 2 ^ k) % 2
And(a, b) == \E k \in 0 .. 7 : Bit(a, k) = 1 /\ Bit(b, k) = 1

SkipByte ==
    /\ pc = "draw" /\ c < FontWidth /\ row[srcpixel] = 0
    /\ srcpixel' = srcpixel + 1
    /\ c' = c + (8 - (c % 8)) /\ mask' = 63 /\ destpixel' = destpixel + 1
    /\ UNCHANGED <<pc, loading, row, pixels>>

DrawPixel ==
    /\ pc = "draw" /\ c < FontWidth /\ row[srcpixel] # 0
    /\ LET fresh == mask = 0
           m == IF fresh THEN 128 ELSE mask
           s == IF fresh THEN srcpixel + 1 ELSE srcpixel
       IN  /\ srcpixel' = s /\ mask' = m \div 2
           /\ pixels' = IF And(row[s], m) THEN pixels \cup {destpixel} ELSE pixels
    /\ c' = c + 1 /\ destpixel' = destpixel + 1
    /\ UNCHANGED <<pc, loading, row>>

RowDone == pc = "draw" /\ c >= FontWidth /\ pc' = "drawn" /\ UNCHANGED <<loading, drawing>>

Next == psf_init \/ Entry1 \/ Entry2 \/ TableDone \/ SkipByte \/ DrawPixel \/ RowDone

Spec == Init /\ [][Next]_vars

----------------------------------------------------------------------------
(***************************************************************************)
(* What the font says.                                                     *)
(***************************************************************************)
IsClean(f) == \A g \in DOMAIN f : \A i \in DOMAIN f[g] : f[g][i] \notin Junk
GlyphsOf(u) == {g \in DOMAIN font : \E i \in DOMAIN font[g] : font[g][i] = <<u>>}
GlyphOf(u) == IF GlyphsOf(u) = {} THEN 0 ELSE Max(GlyphsOf(u)) - 1
CodePoints == UNION {{font[g][i][1] : i \in DOMAIN font[g]} : g \in DOMAIN font}
PixelsOfRow == {x \in 0 .. FontWidth - 1 : Bit(row[(x \div 8) + 1], 7 - (x % 8)) = 1}

\* Every character is shown with the last glyph that lists it, in a table whose
\* other entries are correct UTF-8, whatever glyphs have no entry or more than
\* one (read_psf2_utf8_entries, read_psf1_utf16_entries, psf_getglyph); bytes
\* that are not UTF-8 never move an entry to another glyph; a row of the
\* kernel's font, at most 8 pixels wide, is drawn as it is (fb_draw_text).
FontExact ==
    /\ pc = "ready" =>
          /\ glyph = Len(font)
          /\ IsClean(font) => \A u \in CodePoints : u < 65535 => psf_getglyph(u) = GlyphOf(u)
    /\ (pc = "drawn" /\ FontWidth <= 8) => pixels = PixelsOfRow

\* Every entry is inside the table.  The one of U+FFFF is not: the table has
\* UINT16_MAX entries (psf.c:245).
EntriesInside == ~outside

\* A row is drawn as it is.  A wide one is not: after a byte without pixels the
\* column moves by eight and the place in the frame buffer by one (fb.c:101).
WideRowExact == pc = "drawn" => pixels = PixelsOfRow
============================================================================
