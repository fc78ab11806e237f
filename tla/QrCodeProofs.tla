---------------------------- MODULE QrCodeProofs ----------------------------
(* Proofs about QrCode for every width, margin and zoom: no arithmetic of      *)
(* offsets depends on how large they are.                                      *)
EXTENDS QrCode, TLAPS

Drawable ==
  /\ symbol \in {Nothing} \cup [Modules -> BOOLEAN]
  /\ margin \in Nat
  /\ zoom \in Nat \ {0}

LEMMA DrawableStep ==
  ASSUME Drawable, [Next]_vars
  PROVE  Drawable'
BY QrCodeAssumption DEF Drawable, Next, Encode, qr_code_to_rbg, qr_code_to_utf8, vars

-----------------------------------------------------------------------------
(* Arithmetic *)

LEMMA TimesMonotone ==
  ASSUME NEW a \in Int, NEW b \in Int, NEW c \in Nat, a <= b
  PROVE  a * c <= b * c
  <1>1. (b - a) * c >= 0
    OBVIOUS
  <1>2. (b - a) * c = b * c - a * c
    OBVIOUS
  <1>3. a * c \in Int /\ b * c \in Int
    OBVIOUS
  <1> QED BY <1>1, <1>2, <1>3

LEMMA TimesNext ==
  ASSUME NEW a \in Int, NEW c \in Nat
  PROVE  (a + 1) * c = a * c + c
OBVIOUS

\* A number written in rows of n columns has one row and one column.
LEMMA RowAndColumn ==
  ASSUME NEW n \in Nat \ {0}, NEW x \in 0 .. n - 1, NEW y \in Int,
         NEW u \in 0 .. n - 1, NEW v \in Int, y * n + x = v * n + u
  PROVE  x = u /\ y = v
  <1>1. ASSUME NEW a \in Int, NEW b \in Int, NEW c \in 0 .. n - 1, NEW d \in 0 .. n - 1,
               a < b, a * n + c = b * n + d
        PROVE  FALSE
    <2>1. (a + 1) * n <= b * n
      BY <1>1, TimesMonotone
    <2>2. a * n + n <= b * n
      BY <2>1, TimesNext
    <2>3. a * n \in Int /\ b * n \in Int
      OBVIOUS
    <2> QED BY <1>1, <2>2, <2>3
  <1>2. y = v
    BY <1>1
  <1>3. y * n \in Int
    OBVIOUS
  <1> QED BY <1>2, <1>3

LEMMA Quotient ==
  ASSUME NEW k \in Nat, NEW z \in Nat \ {0}
  PROVE  /\ k \div z \in Nat /\ k % z \in 0 .. z - 1
         /\ k = (k \div z) * z + (k % z)
OBVIOUS

LEMMA QuotientOf ==
  ASSUME NEW a \in Nat, NEW z \in Nat \ {0}, NEW i \in 0 .. z - 1
  PROVE  (a * z + i) \div z = a
  <1> DEFINE k == a * z + i
  <1>1. k \in Nat
    OBVIOUS
  <1>2. k \div z \in Nat /\ k % z \in 0 .. z - 1 /\ k = (k \div z) * z + (k % z)
    BY <1>1, Quotient
  <1> QED BY <1>2, RowAndColumn

-----------------------------------------------------------------------------
(* The RGB *)

LEMMA Sizes ==
  ASSUME Drawable
  PROVE  /\ Edge \in Nat /\ Side \in Nat \ {0}
         /\ Width * zoom \in Nat /\ Side = Width * zoom + 2 * Edge
  <1>1. margin * zoom \in Nat
    BY DEF Drawable
  <1>2. Width * zoom \in Nat /\ Width * zoom > 0
    BY QrCodeAssumption DEF Drawable
  <1> QED BY <1>1, <1>2 DEF Edge, Side

\* A pixel of a module lies in the picture, and tells the module it is of.
LEMMA PixelOfModule ==
  ASSUME Drawable, NEW a \in 0 .. Width - 1, NEW i \in 0 .. zoom - 1
  PROVE  /\ a * zoom + i \in Nat
         /\ a * zoom + i + Edge \in Edge .. Side - 1
         /\ (a * zoom + i) \div zoom = a
  <1>1. zoom \in Nat \ {0} /\ Width \in Nat /\ a \in Nat
    BY QrCodeAssumption DEF Drawable
  <1>2. a * zoom \in Nat
    BY <1>1
  <1>3. (a + 1) * zoom <= Width * zoom
    BY <1>1, TimesMonotone
  <1>4. a * zoom + zoom <= Width * zoom
    BY <1>1, <1>3, TimesNext
  <1>5. (a * zoom + i) \div zoom = a
    BY <1>1, QuotientOf
  <1>6. a * zoom + i \in Nat /\ a * zoom + i < Width * zoom
    <2>1. i \in Nat /\ i < zoom
      BY <1>1
    <2> QED BY <1>1, <1>2, <1>4, <2>1, Sizes
  <1> DEFINE u == a * zoom + i
             w == Width * zoom
  <1>7. u \in Nat /\ w \in Nat /\ u < w /\ Edge \in Nat /\ Side = w + 2 * Edge
    BY <1>6, Sizes
  <1> HIDE DEF u, w
  <1>8. u + Edge \in Edge .. Side - 1
    BY <1>7
  <1> QED BY <1>5, <1>6, <1>8 DEF u

\* Every pixel in a row and a column has an offset that set_xy() does not drop.
LEMMA OffsetInside ==
  ASSUME NEW n \in Nat \ {0}, NEW x \in 0 .. n - 1, NEW y \in 0 .. n - 1
  PROVE  y * n + x \in 0 .. n * n - 1
  <1>1. y * n \in Nat /\ n * n \in Nat
    OBVIOUS
  <1>2. (y + 1) * n <= n * n
    BY TimesMonotone
  <1>3. y * n + n <= n * n
    BY <1>2, TimesNext
  <1> QED BY <1>1, <1>3

\* The offsets of a module are those of the pixels of its square.
LEMMA SquareExact ==
  ASSUME Drawable, NEW a \in 0 .. Width - 1, NEW b \in 0 .. Width - 1,
         NEW x \in 0 .. Side - 1, NEW y \in 0 .. Side - 1
  PROVE  y * Side + x \in Square(a, b) <=>
           /\ x >= Edge /\ y >= Edge
           /\ (x - Edge) \div zoom = a /\ (y - Edge) \div zoom = b
  <1>1. /\ Edge \in Nat /\ Side \in Nat \ {0} /\ zoom \in Nat \ {0}
        /\ x \in Nat /\ y \in Nat /\ a \in Nat /\ b \in Nat
    BY Sizes, QrCodeAssumption DEF Drawable
  <1>2. ASSUME y * Side + x \in Square(a, b)
        PROVE  /\ x >= Edge /\ y >= Edge
               /\ (x - Edge) \div zoom = a /\ (y - Edge) \div zoom = b
    <2>1. PICK i \in 0 .. zoom - 1, j \in 0 .. zoom - 1 :
            y * Side + x \in set_xy(a * zoom + i, b * zoom + j)
      BY <1>2 DEF Square
    <2> DEFINE u == a * zoom + i
               v == b * zoom + j
    <2>2. /\ u \in Nat /\ u + Edge \in Edge .. Side - 1 /\ u \div zoom = a
          /\ v \in Nat /\ v + Edge \in Edge .. Side - 1 /\ v \div zoom = b
      BY PixelOfModule
    <2>3. y * Side + x = (v + Edge) * Side + (u + Edge)
      BY <2>1 DEF set_xy, Offset
    <2> HIDE DEF u, v
    <2>4. u + Edge \in 0 .. Side - 1 /\ v + Edge \in Int
      BY <1>1, <2>2
    <2>5. x = u + Edge /\ y = v + Edge
      BY <1>1, <2>3, <2>4, RowAndColumn
    <2>6. x - Edge = u /\ y - Edge = v
      BY <1>1, <2>2, <2>5
    <2> QED BY <1>1, <2>2, <2>5, <2>6
  <1>3. ASSUME x >= Edge, y >= Edge, (x - Edge) \div zoom = a, (y - Edge) \div zoom = b
        PROVE  y * Side + x \in Square(a, b)
    <2> DEFINE i == (x - Edge) % zoom
               j == (y - Edge) % zoom
    <2>1. x - Edge \in Nat /\ y - Edge \in Nat
      BY <1>1, <1>3
    <2>2. i \in 0 .. zoom - 1 /\ x - Edge = a * zoom + i
      BY <1>1, <1>3, <2>1, Quotient
    <2>3. j \in 0 .. zoom - 1 /\ y - Edge = b * zoom + j
      BY <1>1, <1>3, <2>1, Quotient
    <2> HIDE DEF i, j
    <2>4. x = a * zoom + i + Edge /\ y = b * zoom + j + Edge
      <3>1. a * zoom \in Nat /\ b * zoom \in Nat /\ i \in Nat /\ j \in Nat
        BY <1>1, <2>2, <2>3
      <3> QED BY <1>1, <2>2, <2>3, <3>1
    <2>5. y * Side + x = Offset(a * zoom + i, b * zoom + j)
      BY <2>4 DEF Offset
    <2>6. y * Side + x \in 0 .. Side * Side - 1
      BY <1>1, OffsetInside
    <2>7. y * Side + x \in set_xy(a * zoom + i, b * zoom + j)
      BY <2>5, <2>6 DEF set_xy
    <2> QED BY <2>2, <2>3, <2>7 DEF Square
  <1> QED BY <1>2, <1>3

\* For every width, margin and zoom the RGB is the symbol: no pixel is left out by
\* the bound of set_xy(), none belongs to two modules or wraps into another row.
THEOREM RgbIsSymbol == Spec => RgbShowsSymbol
  <1>1. Init => Drawable
    BY DEF Init, Drawable, Nothing
  <1>2. Drawable /\ [Next]_vars => Drawable'
    BY DrawableStep
  <1>3. Drawable /\ [Next]_vars =>
          (qr_code_to_rbg =>
             \A x, y \in 0 .. Side - 1 :
               (y * Side + x) \in black' <=> Shows(<<x, y>>, Edge, Edge, zoom))
    <2> SUFFICES ASSUME Drawable, qr_code_to_rbg,
                        NEW x \in 0 .. Side - 1, NEW y \in 0 .. Side - 1
                 PROVE  (y * Side + x) \in black' <=> Shows(<<x, y>>, Edge, Edge, zoom)
      OBVIOUS
    <2> DEFINE a == (x - Edge) \div zoom
               b == (y - Edge) \div zoom
    <2>1. y * Side + x \in black' <=>
            \E m \in Modules : symbol[m] /\ y * Side + x \in Square(m[1], m[2])
      BY DEF qr_code_to_rbg
    <2>2. ASSUME NEW m \in Modules
          PROVE  y * Side + x \in Square(m[1], m[2]) <=>
                   x >= Edge /\ y >= Edge /\ m = <<a, b>>
      <3>1. /\ m[1] \in 0 .. Width - 1 /\ m[2] \in 0 .. Width - 1
            /\ m = <<m[1], m[2]>>
        BY DEF Modules
      <3>2. y * Side + x \in Square(m[1], m[2]) <=>
              /\ x >= Edge /\ y >= Edge /\ a = m[1] /\ b = m[2]
        BY <3>1, SquareExact
      <3> HIDE DEF a, b
      <3> QED BY <3>1, <3>2
    <2>3. Shows(<<x, y>>, Edge, Edge, zoom) <=>
            x >= Edge /\ y >= Edge /\ <<a, b>> \in Modules /\ symbol[<<a, b>>]
      BY DEF Shows
    <2> HIDE DEF a, b
    <2> QED BY <2>1, <2>2, <2>3
  <1> QED BY <1>1, <1>2, <1>3, PTL DEF Spec, RgbShowsSymbol

-----------------------------------------------------------------------------
(* The text *)

\* Three sequences one after the other.
LEMMA ThreeParts ==
  ASSUME NEW S, NEW p \in Seq(S), NEW q \in Seq(S), NEW r \in Seq(S)
  PROVE  /\ p \o q \o r \in Seq(S)
         /\ Len(p \o q \o r) = Len(p) + Len(q) + Len(r)
         /\ \A k \in 1 .. Len(p) + Len(q) + Len(r) :
              /\ k <= Len(p) => (p \o q \o r)[k] = p[k]
              /\ k > Len(p) /\ k <= Len(p) + Len(q) => (p \o q \o r)[k] = q[k - Len(p)]
              /\ k > Len(p) + Len(q) => (p \o q \o r)[k] = r[k - Len(p) - Len(q)]
  <1>1. p \o q \in Seq(S) /\ Len(p \o q) = Len(p) + Len(q)
    OBVIOUS
  <1>2. \A k \in 1 .. Len(p) + Len(q) :
          /\ k <= Len(p) => (p \o q)[k] = p[k]
          /\ k > Len(p) => (p \o q)[k] = q[k - Len(p)]
    OBVIOUS
  <1>3. \A k \in 1 .. Len(p \o q) + Len(r) :
          /\ k <= Len(p \o q) => ((p \o q) \o r)[k] = (p \o q)[k]
          /\ k > Len(p \o q) => ((p \o q) \o r)[k] = r[k - Len(p \o q)]
    BY <1>1
  <1>4. (p \o q) \o r \in Seq(S) /\ Len((p \o q) \o r) = Len(p \o q) + Len(r)
    BY <1>1
  <1>5. Len(p) \in Nat /\ Len(q) \in Nat /\ Len(r) \in Nat
    OBVIOUS
  <1> QED BY <1>1, <1>2, <1>3, <1>4, <1>5

LEMMA RepeatType ==
  ASSUME NEW S, NEW n \in Nat, NEW g \in S
  PROVE  /\ Repeat(n, g) \in Seq(S) /\ Len(Repeat(n, g)) = n
         /\ \A k \in 1 .. n : Repeat(n, g)[k] = g
BY DEF Repeat

LEMMA Halves ==
  ASSUME NEW n \in Nat
  PROVE  /\ n \div 2 \in Nat /\ n % 2 \in {0, 1} /\ n = 2 * (n \div 2) + (n % 2)
OBVIOUS

\* A line of two rows of modules, in its margin.
LEMMA LineIs ==
  ASSUME Drawable, NEW y \in Nat
  PROVE  /\ Line(y) \in Seq(Glyphs) /\ Len(Line(y)) = Width + 2 * margin
         /\ \A x \in 0 .. Width + 2 * margin - 1 :
              Line(y)[x + 1] = IF x >= margin /\ x < margin + Width
                                 THEN Glyph(x - margin, y) ELSE "full"
  <1> DEFINE p == Repeat(margin, "full")
             q == [i \in 1 .. Width |-> Glyph(i - 1, y)]
  <1>1. Width \in Nat /\ margin \in Nat
    BY QrCodeAssumption DEF Drawable
  <1>2. p \in Seq(Glyphs) /\ Len(p) = margin /\ \A k \in 1 .. margin : p[k] = "full"
    <2>1. "full" \in Glyphs
      BY DEF Glyphs
    <2> QED BY <1>1, <2>1, RepeatType
  <1>3. q \in Seq(Glyphs) /\ Len(q) = Width
        /\ \A k \in 1 .. Width : q[k] = Glyph(k - 1, y)
    <2>1. \A k \in 1 .. Width : Glyph(k - 1, y) \in Glyphs
      BY DEF Glyph, Glyphs
    <2> HIDE DEF Glyph, Glyphs
    <2> QED BY <1>1, <2>1
  <1>4. Line(y) = p \o q \o p
    BY DEF Line
  <1> HIDE DEF p, q
  <1>5. /\ Line(y) \in Seq(Glyphs) /\ Len(Line(y)) = Len(p) + Len(q) + Len(p)
        /\ \A k \in 1 .. Len(p) + Len(q) + Len(p) :
             /\ k <= Len(p) => Line(y)[k] = p[k]
             /\ k > Len(p) /\ k <= Len(p) + Len(q) => Line(y)[k] = q[k - Len(p)]
             /\ k > Len(p) + Len(q) => Line(y)[k] = p[k - Len(p) - Len(q)]
    <2>1. p \in Seq(Glyphs) /\ q \in Seq(Glyphs)
      BY <1>2, <1>3
    <2> QED BY ONLY <2>1, <1>4, ThreeParts
  <1>6. ASSUME NEW x \in 0 .. Width + 2 * margin - 1
        PROVE  Line(y)[x + 1] = IF x >= margin /\ x < margin + Width
                                  THEN Glyph(x - margin, y) ELSE "full"
    <2>1. x + 1 \in 1 .. margin + Width + margin /\ x \in Int
      BY <1>1
    <2>2. CASE x < margin
      <3>1. Line(y)[x + 1] = p[x + 1]
        BY <1>1, <1>2, <1>3, <1>5, <2>1, <2>2
      <3> QED BY <1>1, <1>2, <2>1, <2>2, <3>1
    <2>3. CASE x >= margin /\ x < margin + Width
      <3>1. PICK k \in 1 .. Width : k = x + 1 - margin
        BY <1>1, <2>1, <2>3
      <3>2. Line(y)[x + 1] = q[k]
        BY <1>1, <1>2, <1>3, <1>5, <2>1, <2>3, <3>1
      <3>3. k - 1 = x - margin
        BY <1>1, <2>1, <3>1
      <3> QED BY <1>3, <2>3, <3>2, <3>3
    <2>4. CASE x >= margin + Width
      <3>1. Line(y)[x + 1] = p[x + 1 - margin - Width]
        BY <1>1, <1>2, <1>3, <1>5, <2>1, <2>4
      <3>2. x + 1 - margin - Width \in 1 .. margin
        BY <1>1, <2>1, <2>4
      <3> QED BY <1>1, <1>2, <2>1, <2>4, <3>1, <3>2
    <2> QED BY <1>1, <2>1, <2>2, <2>3, <2>4
  <1> QED BY <1>1, <1>2, <1>3, <1>5, <1>6

\* The lines of the text, and those of its margin above and below.
LEMMA TextIs ==
  ASSUME Drawable, qr_code_to_utf8
  PROVE  LET above == margin \div 2
             rows == (Width + 1) \div 2
         IN  /\ Len(text') = above + rows + above
             /\ \A k \in 1 .. Len(text') :
                  text'[k] = IF k > above /\ k <= above + rows
                               THEN Line(2 * (k - above - 1))
                               ELSE Repeat(Width + 2 * margin, "full")
  <1> DEFINE S == Seq(Glyphs)
             above == margin \div 2
             rows == (Width + 1) \div 2
             p == print_margin
             q == [i \in 1 .. rows |-> Line(2 * (i - 1))]
             blank == Repeat(Width + 2 * margin, "full")
  <1>1. above \in Nat /\ rows \in Nat /\ Width + 2 * margin \in Nat
    BY Halves, QrCodeAssumption DEF Drawable
  <1>2. blank \in S
    <2>1. "full" \in Glyphs
      BY DEF Glyphs
    <2> QED BY <1>1, <2>1, RepeatType
  <1>3. q \in Seq(S) /\ Len(q) = rows /\ \A k \in 1 .. rows : q[k] = Line(2 * (k - 1))
    <2>1. \A k \in 1 .. rows : 2 * (k - 1) \in Nat
      BY <1>1
    <2> HIDE DEF rows
    <2>2. \A k \in 1 .. rows : Line(2 * (k - 1)) \in S
      BY <2>1, LineIs
    <2> HIDE DEF S
    <2> QED BY <1>1, <2>2
  <1>4. p = Repeat(above, blank) /\ text' = p \o q \o p
    BY DEF print_margin, qr_code_to_utf8
  <1> HIDE DEF S, above, rows, p, q, blank
  <1>5. p \in Seq(S) /\ Len(p) = above /\ \A k \in 1 .. above : p[k] = blank
    BY <1>1, <1>2, <1>4, RepeatType
  <1>6. /\ Len(text') = Len(p) + Len(q) + Len(p)
        /\ \A k \in 1 .. Len(p) + Len(q) + Len(p) :
             /\ k <= Len(p) => text'[k] = p[k]
             /\ k > Len(p) /\ k <= Len(p) + Len(q) => text'[k] = q[k - Len(p)]
             /\ k > Len(p) + Len(q) => text'[k] = p[k - Len(p) - Len(q)]
    <2>1. p \in Seq(S) /\ q \in Seq(S)
      BY <1>3, <1>5
    <2> QED BY ONLY <2>1, <1>4, ThreeParts
  <1>7. Len(text') = above + rows + above
    BY <1>3, <1>5, <1>6
  <1>8. ASSUME NEW k \in 1 .. Len(text')
        PROVE  text'[k] = IF k > above /\ k <= above + rows
                            THEN Line(2 * (k - above - 1)) ELSE blank
    <2>1. k \in 1 .. above + rows + above /\ k \in Int
      BY <1>1, <1>7
    <2>2. CASE k <= above
      <3>1. text'[k] = p[k]
        BY <1>1, <1>3, <1>5, <1>6, <2>1, <2>2
      <3> QED BY <1>1, <1>5, <2>1, <2>2, <3>1
    <2>3. CASE k > above /\ k <= above + rows
      <3>1. text'[k] = q[k - above]
        BY <1>1, <1>3, <1>5, <1>6, <2>1, <2>3
      <3>2. k - above \in 1 .. rows
        BY <1>1, <2>1, <2>3
      <3> QED BY <1>3, <2>3, <3>1, <3>2
    <2>4. CASE k > above + rows
      <3>1. text'[k] = p[k - above - rows]
        BY <1>1, <1>3, <1>5, <1>6, <2>1, <2>4
      <3>2. k - above - rows \in 1 .. above
        BY <1>1, <2>1, <2>4
      <3> QED BY <1>1, <1>5, <2>1, <2>4, <3>1, <3>2
    <2> QED BY <1>1, <2>1, <2>2, <2>3, <2>4
  <1> QED BY <1>7, <1>8 DEF above, rows, blank

\* For every odd width and every margin the text is the symbol, two modules to a
\* character, in lines of one length; the lower half of the last is blank.
THEOREM TextIsSymbol == Spec => TextShowsSymbol
  <1>1. Init => Drawable
    BY DEF Init, Drawable, Nothing
  <1>2. Drawable /\ [Next]_vars => Drawable'
    BY DrawableStep
  <1>3. Drawable /\ [Next]_vars =>
          (qr_code_to_utf8 =>
             /\ \A i \in 1 .. Len(text') : Len(text'[i]) = Width + 2 * margin
             /\ \A x \in 0 .. Width + 2 * margin - 1, y \in 0 .. 2 * Len(text') - 1 :
                  Dark(text', x, y) <=> Shows(<<x, y>>, margin, 2 * (margin \div 2), 1))
    <2> SUFFICES ASSUME Drawable, qr_code_to_utf8
                 PROVE  /\ \A i \in 1 .. Len(text') : Len(text'[i]) = Width + 2 * margin
                        /\ \A x \in 0 .. Width + 2 * margin - 1,
                              y \in 0 .. 2 * Len(text') - 1 :
                             Dark(text', x, y) <=>
                               Shows(<<x, y>>, margin, 2 * (margin \div 2), 1)
      OBVIOUS
    <2> DEFINE above == margin \div 2
               rows == (Width + 1) \div 2
    <2>1. /\ above \in Nat /\ rows \in Nat /\ Width \in Nat /\ margin \in Nat
          /\ Width + 1 = 2 * rows
      BY Halves, QrCodeAssumption DEF Drawable
    <2>2. /\ Len(text') = above + rows + above
          /\ \A k \in 1 .. Len(text') :
               text'[k] = IF k > above /\ k <= above + rows
                            THEN Line(2 * (k - above - 1))
                            ELSE Repeat(Width + 2 * margin, "full")
      BY TextIs
    <2>3. symbol \in [Modules -> BOOLEAN]
      BY DEF Drawable, qr_code_to_utf8
    <2>4. /\ Len(Repeat(Width + 2 * margin, "full")) = Width + 2 * margin
          /\ \A k \in 1 .. Width + 2 * margin : Repeat(Width + 2 * margin, "full")[k] = "full"
      <3>1. Width + 2 * margin \in Nat
        BY <2>1
      <3> QED BY <3>1, RepeatType
    <2> HIDE DEF above, rows
    <2>5. ASSUME NEW i \in 1 .. Len(text') PROVE Len(text'[i]) = Width + 2 * margin
      <3>1. CASE i > above /\ i <= above + rows
        <4>1. 2 * (i - above - 1) \in Nat
          BY <2>1, <3>1
        <4>2. text'[i] = Line(2 * (i - above - 1))
          BY <2>2, <3>1
        <4> QED BY <4>1, <4>2, LineIs
      <3>2. CASE ~ (i > above /\ i <= above + rows)
        BY <2>2, <2>4, <3>2
      <3> QED BY <3>1, <3>2
    <2>6. ASSUME NEW x \in 0 .. Width + 2 * margin - 1, NEW y \in 0 .. 2 * Len(text') - 1
          PROVE  Dark(text', x, y) <=> Shows(<<x, y>>, margin, 2 * above, 1)
      <3> DEFINE k == (y \div 2) + 1
                 a == x - margin
                 b == y - 2 * above
                 glyph == text'[k][x + 1]
      <3>1. /\ x \in Nat /\ y \in Nat /\ k \in 1 .. Len(text') /\ y % 2 \in {0, 1}
            /\ y = 2 * (k - 1) + (y % 2) /\ a \in Int /\ b \in Int
        BY <2>1, <2>2, Halves
      <3>2. Shows(<<x, y>>, margin, 2 * above, 1) <=>
              a >= 0 /\ b >= 0 /\ <<a, b>> \in Modules /\ symbol[<<a, b>>]
        <4>1. a \div 1 = a /\ b \div 1 = b
          BY <3>1
        <4>2. <<x, y>>[1] - margin = a /\ <<x, y>>[2] - 2 * above = b
          OBVIOUS
        <4>3. (<<x, y>>[1] >= margin <=> a >= 0) /\ (<<x, y>>[2] >= 2 * above <=> b >= 0)
          BY <2>1, <3>1
        <4> HIDE DEF a, b
        <4> QED BY <4>1, <4>2, <4>3 DEF Shows
      <3>3. <<a, b>> \in Modules <=> a \in 0 .. Width - 1 /\ b \in 0 .. Width - 1
        BY DEF Modules
      <3>4. Dark(text', x, y) <=>
              glyph = "empty" \/ glyph = IF y % 2 = 0 THEN "low_half" ELSE "up_half"
        BY DEF Dark
      <3>5. x + 1 \in 1 .. Width + 2 * margin
        BY <2>1, <3>1
      <3>6. CASE ~ (k > above /\ k <= above + rows)
        <4>1. glyph = "full"
          BY <2>2, <2>4, <3>1, <3>5, <3>6
        <4>2. ~ (b \in 0 .. Width - 1)
          BY <2>1, <3>1, <3>6
        <4> HIDE DEF a, b, glyph
        <4> QED BY <3>2, <3>3, <3>4, <4>1, <4>2
      <3>7. CASE k > above /\ k <= above + rows
        <4> DEFINE r == 2 * (k - above - 1)
        <4>1. r \in Nat /\ r <= Width - 1 /\ b = r + (y % 2)
          BY <2>1, <3>1, <3>7
        <4>2. glyph = IF x >= margin /\ x < margin + Width THEN Glyph(a, r) ELSE "full"
          BY <2>2, <3>1, <3>7, <4>1, LineIs
        <4> HIDE DEF k, r, b, glyph
        <4>3. CASE ~ (x >= margin /\ x < margin + Width)
          <5>1. ~ (a \in 0 .. Width - 1)
            BY <2>1, <3>1, <4>3
          <5> QED BY <3>2, <3>3, <3>4, <4>2, <4>3, <5>1
        <4>4. CASE x >= margin /\ x < margin + Width
          <5>1. a \in 0 .. Width - 1 /\ r \in 0 .. Width - 1
            BY <2>1, <3>1, <4>1, <4>4
          <5> HIDE DEF a
          <5>2. glyph = Glyph(a, r)
            BY <4>2, <4>4
          <5>3. <<a, r>> \in Modules
            BY <5>1 DEF Modules
          <5>4. CASE y % 2 = 0
            <6>1. b = r
              BY <4>1, <5>4
            <6>2. Dark(text', x, y) <=> symbol[<<a, r>>]
              BY <3>4, <5>2, <5>4 DEF Glyph
            <6> QED BY <3>2, <5>1, <5>3, <6>1, <6>2
          <5>5. CASE y % 2 = 1
            <6>1. b = r + 1
              BY <4>1, <5>5
            <6>2. Dark(text', x, y) <=> LowerDark(a, r)
              BY <3>4, <5>2, <5>5 DEF Glyph
            <6>3. LowerDark(a, r) <=> <<a, b>> \in Modules /\ symbol[<<a, b>>]
              BY <2>1, <3>3, <4>1, <5>1, <6>1 DEF LowerDark
            <6> QED BY <2>1, <3>2, <3>3, <4>1, <5>1, <6>1, <6>2, <6>3
          <5> QED BY <3>1, <5>4, <5>5
        <4> QED BY <4>3, <4>4
      <3> QED BY <3>6, <3>7
    <2> QED BY <2>5, <2>6 DEF above
  <1> QED BY <1>1, <1>2, <1>3, PTL DEF Spec, TextShowsSymbol
=============================================================================
