------------------------------- MODULE QrCode -------------------------------
(***************************************************************************)
(* qr_code_to_rbg() and qr_code_to_utf8() of klib (src/qr_code.cpp): how a   *)
(* QR symbol becomes an image of bytes and a text of block characters.      *)
(* libqrencode, which makes the symbol from a text, is external: a symbol   *)
(* is any square of dark and light modules.  Those of libqrencode have an   *)
(* odd width of at least 21; Width bounds it.                               *)
(*                                                                          *)
(* Sizes are int32 in the code; here they stay far below 2^31.              *)
(***************************************************************************)
EXTENDS Integers, Sequences

CONSTANTS
  Width,    \* modules in a row of a symbol
  Margins,  \* values of the parameter margin
  Zooms     \* values of the parameter zoom

ASSUME QrCodeAssumption ==
  /\ Width \in Nat /\ Width % 2 = 1
  /\ Margins \subseteq Nat
  /\ Zooms \subseteq Nat \ {0}

VARIABLES
  symbol,  \* qr->data: whether the module at <<x, y>> is dark
  margin,
  zoom,
  black,   \* offsets of the black pixels of the RGB, in pixels
  text     \* the lines of qr_code_to_utf8(), each a sequence of glyphs

vars == <<symbol, margin, zoom, black, text>>

Modules == (0 .. Width - 1) \X (0 .. Width - 1)
Nothing == <<>>

Init ==
  /\ symbol = Nothing
  /\ margin = 0 /\ zoom = 1
  /\ black = {}
  /\ text = Nothing

\* QRcode_encodeString(), for the margin and the zoom of a call.
Encode ==
  /\ symbol = Nothing
  /\ symbol' \in [Modules -> BOOLEAN]
  /\ margin' \in Margins
  /\ zoom' \in Zooms
  /\ UNCHANGED <<black, text>>

-----------------------------------------------------------------------------
(* qr_code_to_rbg() *)

\* The parameter is a number of modules: the code multiplies it by the zoom.
Edge == margin * zoom
Side == Width * zoom + 2 * Edge

\* set_xy(): what would lie past the end is left out.
OffsetTransposed(x, y) == (x + Edge) * Side + (y + Edge)  \* mutant of Offset
Offset(x, y) == (y + Edge) * Side + (x + Edge)
set_xy(x, y) == {Offset(x, y)} \cap 0 .. Side * Side - 1

\* The two inner loops: the pixels of one module.
Square(x, y) ==
  UNION {set_xy(x * zoom + i, y * zoom + j) : i, j \in 0 .. zoom - 1}

qr_code_to_rbg ==
  /\ symbol # Nothing
  /\ black' = UNION {Square(m[1], m[2]) : m \in {n \in Modules : symbol[n]}}
  /\ UNCHANGED <<symbol, margin, zoom, text>>

-----------------------------------------------------------------------------
(* qr_code_to_utf8(): a character is two modules high.  Light modules are     *)
(* drawn, dark ones left empty.                                               *)

Glyphs == {"empty", "low_half", "up_half", "full"}
Repeat(n, g) == [i \in 1 .. n |-> g]

print_margin == Repeat(margin \div 2, Repeat(Width + 2 * margin, "full"))

\* row2[x] & 1, read only when there is such a row.
LowerWrapped(x, y) == symbol[<<x, (y + 1) % Width>>]  \* mutant of LowerDark
LowerDark(x, y) == y < Width - 1 /\ symbol[<<x, y + 1>>]

Glyph(x, y) ==
  IF symbol[<<x, y>>]
    THEN IF LowerDark(x, y) THEN "empty" ELSE "low_half"
    ELSE IF LowerDark(x, y) THEN "up_half" ELSE "full"

Line(y) ==
  Repeat(margin, "full") \o [i \in 1 .. Width |-> Glyph(i - 1, y)]
    \o Repeat(margin, "full")

qr_code_to_utf8 ==
  /\ symbol # Nothing
  /\ text' = print_margin
               \o [i \in 1 .. (Width + 1) \div 2 |-> Line(2 * (i - 1))]
               \o print_margin
  /\ UNCHANGED <<symbol, margin, zoom, black>>

Next == Encode \/ qr_code_to_rbg \/ qr_code_to_utf8

Spec == Init /\ [][Next]_vars

-----------------------------------------------------------------------------
(* Correctness *)

\* The pixels of a picture with its symbol at <<left, top>>, each module a
\* square of side by side pixels.
Shows(pixel, left, top, side) ==
  LET x == (pixel[1] - left) \div side
      y == (pixel[2] - top) \div side
  IN  pixel[1] >= left /\ pixel[2] >= top /\ <<x, y>> \in Modules /\ symbol[<<x, y>>]

\* The RGB image is the symbol, every module zoom pixels wide and high, in a
\* margin on all sides; no pixel of it is dropped by the bound of set_xy(), and
\* none wraps round into the next row.
RgbShowsSymbol ==
  [][qr_code_to_rbg =>
       \A x, y \in 0 .. Side - 1 :
         (y * Side + x) \in black' <=> Shows(<<x, y>>, Edge, Edge, zoom)]_vars

\* The text is the symbol, two modules to a character, every line as long as
\* the others, with its margin; the last line, whose lower half has no modules
\* because widths are odd, reads none.
Dark(lines, x, y) ==
  LET glyph == lines[(y \div 2) + 1][x + 1]
  IN  glyph = "empty" \/ glyph = IF y % 2 = 0 THEN "low_half" ELSE "up_half"

TextShowsSymbol ==
  [][qr_code_to_utf8 =>
       /\ \A i \in 1 .. Len(text') : Len(text'[i]) = Width + 2 * margin
       /\ \A x \in 0 .. Width + 2 * margin - 1, y \in 0 .. 2 * Len(text') - 1 :
            Dark(text', x, y) <=>
              Shows(<<x, y>>, margin, 2 * (margin \div 2), 1)]_vars
=============================================================================
