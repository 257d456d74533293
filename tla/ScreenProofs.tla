---------------------------- MODULE ScreenProofs ----------------------------
(***************************************************************************)
(* Theorems about Screen, for a screen and calls of any size.  All rest on *)
(* what mark_dirty_region does to a region that lies inside some bounds    *)
(* narrow enough for the fields of a region: it stays inside them, loses   *)
(* nothing, and gains what it is asked to cover.  The bounds are those of  *)
(* the screen while the guest keeps to the legacy table; after a bitmap    *)
(* call of the DSM table, which marks its own rectangle uncut, they are    *)
(* those of that rectangle and the screen together.                        *)
(***************************************************************************)
EXTENDS Screen, TLAPS

(* Bounds that hold the screen and that a region can describe. *)
Bounds == [x0 : Int, x1 : Int, y0 : Int, y1 : Int, solid : BOOLEAN]
Narrow(B) ==
  /\ B \in Bounds
  /\ IntMin <= B.x0 /\ B.x0 <= 0 /\ Width <= B.x1 /\ B.x1 <= IntMax /\ B.x1 - B.x0 < U16
  /\ IntMin <= B.y0 /\ B.y0 <= 0 /\ Height <= B.y1 /\ B.y1 <= IntMax /\ B.y1 - B.y0 < U16

(* A region inside the bounds; if they are solid, one that is not empty. *)
Inside(r, B) ==
  /\ r \in Region
  /\ B.x0 <= r.x /\ r.x + r.w <= B.x1
  /\ B.y0 <= r.y /\ r.y + r.h <= B.y1
  /\ B.solid => r.w > 0 /\ r.h > 0

ScreenInv(B) ==
  /\ dirty = None \/ Inside(dirty, B)
  /\ stale \subseteq Pixels
  /\ text \in TextBox \cup {None}
  /\ stale \subseteq Covered(dirty) \cup torn \cup put

OfScreen == [x0 |-> 0, x1 |-> Width, y0 |-> 0, y1 |-> Height, solid |-> TRUE]

(* The bounds of a bitmap of the DSM table and the screen. *)
AroundBitmap(x, y, w, h) ==
  [x0 |-> Smaller(x, 0), x1 |-> Larger(x + w, Width),
   y0 |-> Smaller(y, 0), y1 |-> Larger(y + h, Height), solid |-> FALSE]

(* None is no region and no text. *)
NoneIsApart == None \notin Region /\ None \notin TextBox

LEMMA SmallMod ==
  ASSUME NEW a \in Nat, NEW b \in Nat, a < b
  PROVE  a % b = a
  OBVIOUS

LEMMA ModIsInt ==
  ASSUME NEW a \in Int, NEW b \in Nat, b > 0
  PROVE  a % b \in 0 .. b - 1
  OBVIOUS

LEMMA NegativeMod ==
  ASSUME NEW a \in Int, NEW b \in Nat, -b <= a, a < 0
  PROVE  a % b = a + b
  OBVIOUS

(* A sum that fits does not wrap around. *)
LEMMA NoWrap ==
  ASSUME NEW a \in Int, NEW b \in Int, IntMin <= a + b, a + b <= IntMax
  PROVE  WrapAdd(a, b) = a + b
<1>1. IntMax \in Nat BY ScreenAssumption
<1> DEFINE n == a + b - IntMin
<1> DEFINE m == 2 * (IntMax + 1)
<1>2. n \in Nat /\ m \in Nat /\ n < m /\ n + IntMin = a + b
  BY <1>1 DEF IntMin
<1> HIDE DEF n, m
<1>3. n % m = n BY <1>2, SmallMod
<1>4. WrapAdd(a, b) = (n % m) + IntMin BY DEF WrapAdd, U32, n, m
<1> QED BY <1>2, <1>3, <1>4

LEMMA WrapIsInt ==
  ASSUME NEW a \in Int, NEW b \in Int
  PROVE  WrapAdd(a, b) \in Int
<1>1. IntMax \in Nat BY ScreenAssumption
<1> DEFINE n == a + b - IntMin
<1> DEFINE m == 2 * (IntMax + 1)
<1>2. n \in Int /\ m \in Nat /\ m > 0 BY <1>1 DEF IntMin
<1> HIDE DEF n, m
<1>3. n % m \in Int BY <1>2, ModIsInt
<1>4. WrapAdd(a, b) = (n % m) + IntMin BY DEF WrapAdd, U32, n, m
<1> QED BY <1>1, <1>3, <1>4 DEF IntMin

(* Two regions inside the bounds join to one that covers both. *)
LEMMA JoinedCovers ==
  ASSUME NEW B, Narrow(B), NEW a, Inside(a, B), NEW b, Inside(b, B), NoneIsApart
  PROVE  /\ Inside(Joined(a, b), B)
         /\ Covered(a) \subseteq Covered(Joined(a, b))
         /\ Covered(b) \subseteq Covered(Joined(a, b))
<1>1. /\ IntMax \in Nat /\ U16 \in Nat /\ U16 <= IntMax + 1
      /\ B.x0 \in Int /\ B.x1 \in Int /\ B.x1 <= IntMax /\ B.x1 - B.x0 < U16 /\ IntMin <= B.x0
      /\ B.y0 \in Int /\ B.y1 \in Int /\ B.y1 <= IntMax /\ B.y1 - B.y0 < U16 /\ IntMin <= B.y0
  BY ScreenAssumption DEF Narrow, Bounds
<1>2. /\ a.x \in Int /\ a.y \in Int /\ a.w \in Nat /\ a.h \in Nat
      /\ b.x \in Int /\ b.y \in Int /\ b.w \in Nat /\ b.h \in Nat
  BY <1>1 DEF Inside, Region
<1>3. /\ B.x0 <= a.x /\ a.x + a.w <= B.x1 /\ B.y0 <= a.y /\ a.y + a.h <= B.y1
      /\ B.x0 <= b.x /\ b.x + b.w <= B.x1 /\ B.y0 <= b.y /\ b.y + b.h <= B.y1
  BY DEF Inside
<1>s. B.solid => a.w > 0 /\ a.h > 0 /\ b.w > 0 /\ b.h > 0
  BY DEF Inside
<1>f. /\ IntMin <= a.x + a.w /\ a.x + a.w <= IntMax /\ IntMin <= b.x + b.w /\ b.x + b.w <= IntMax
      /\ IntMin <= a.y + a.h /\ a.y + a.h <= IntMax /\ IntMin <= b.y + b.h /\ b.y + b.h <= IntMax
  BY <1>1, <1>2, <1>3 DEF IntMin
<1>4. /\ WrapAdd(a.x, a.w) = a.x + a.w /\ WrapAdd(b.x, b.w) = b.x + b.w
      /\ WrapAdd(a.y, a.h) = a.y + a.h /\ WrapAdd(b.y, b.h) = b.y + b.h
  BY <1>2, <1>f, NoWrap
<1> DEFINE left == Smaller(a.x, b.x)
<1> DEFINE top == Smaller(a.y, b.y)
<1> DEFINE right == Larger(a.x + a.w, b.x + b.w)
<1> DEFINE bottom == Larger(a.y + a.h, b.y + b.h)
<1>5. /\ left \in Int /\ left <= a.x /\ left <= b.x /\ B.x0 <= left
      /\ right \in Int /\ a.x + a.w <= right /\ b.x + b.w <= right /\ right <= B.x1
      /\ top \in Int /\ top <= a.y /\ top <= b.y /\ B.y0 <= top
      /\ bottom \in Int /\ a.y + a.h <= bottom /\ b.y + b.h <= bottom /\ bottom <= B.y1
  BY <1>1, <1>2, <1>3 DEF Smaller, Larger
<1>6. Joined(a, b) = [x |-> left, y |-> top, w |-> (right - left) % U16,
                      h |-> (bottom - top) % U16]
  BY <1>4 DEF Joined
<1> HIDE DEF left, top, right, bottom
<1>t. /\ right - left \in Nat /\ right - left < U16
      /\ bottom - top \in Nat /\ bottom - top < U16
      /\ left + (right - left) = right /\ top + (bottom - top) = bottom
      /\ B.solid => right - left > 0 /\ bottom - top > 0
  BY <1>1, <1>2, <1>3, <1>5, <1>s
<1>7. (right - left) % U16 = right - left /\ (bottom - top) % U16 = bottom - top
  BY <1>t, <1>1, SmallMod
<1> DEFINE j == [x |-> left, y |-> top, w |-> right - left, h |-> bottom - top]
<1>8. Joined(a, b) = j BY <1>6, <1>7
<1>9. Inside(j, B) BY <1>1, <1>5, <1>t DEF Inside, Region
<1>10. a # None /\ b # None /\ j # None BY <1>9 DEF Inside, NoneIsApart
<1>11. Covered(a) \subseteq Covered(j) /\ Covered(b) \subseteq Covered(j)
  BY <1>1, <1>2, <1>5, <1>10 DEF Covered, Box, Pixels
<1> QED BY <1>8, <1>9, <1>11

(* mark_dirty_region keeps what was dirty and adds the box it is given. *)
LEMMA MarkedCovers ==
  ASSUME NEW B, Narrow(B), NEW d, d = None \/ Inside(d, B), NoneIsApart,
         NEW x \in Int, NEW y \in Int, NEW w \in Nat, NEW h \in Nat
  PROVE  /\ Marked(d, x, y, w, h) = None \/ Inside(Marked(d, x, y, w, h), B)
         /\ Covered(d) \subseteq Covered(Marked(d, x, y, w, h))
         /\ Box(x, y, x + w, y + h) \subseteq Covered(Marked(d, x, y, w, h))
<1>1. /\ IntMax \in Nat /\ U16 \in Nat /\ U16 <= IntMax + 1
      /\ Width \in Nat /\ Width < U16 /\ Height \in Nat /\ Height < U16
  BY ScreenAssumption
<1> DEFINE x0 == Clamp(x, Width)
<1> DEFINE y0 == Clamp(y, Height)
<1> DEFINE x1 == Clamp(SatAdd(x, w), Width)
<1> DEFINE y1 == Clamp(SatAdd(y, h), Height)
<1> DEFINE next == [x |-> x0, y |-> y0, w |-> x1 - x0, h |-> y1 - y0]
<1>2. x0 \in 0 .. Width /\ x1 \in 0 .. Width /\ y0 \in 0 .. Height /\ y1 \in 0 .. Height
  BY <1>1 DEF Clamp, SatAdd, Smaller, Larger, IntMin
<1>3. Box(x, y, x + w, y + h) \subseteq Box(x0, y0, x1, y1)
  <2> SUFFICES ASSUME NEW p \in Pixels, x <= p[1], p[1] < x + w, y <= p[2], p[2] < y + h
               PROVE  x0 <= p[1] /\ p[1] < x1 /\ y0 <= p[2] /\ p[2] < y1
    BY DEF Box
  <2>1. p[1] \in 0 .. Width - 1 /\ p[2] \in 0 .. Height - 1 BY DEF Pixels
  <2> QED BY <2>1, <1>1 DEF Clamp, SatAdd, Smaller, Larger, IntMin
<1>4. Marked(d, x, y, w, h) =
        IF x0 >= x1 \/ y0 >= y1 THEN d ELSE IF d = None THEN next ELSE Joined(d, next)
  BY DEF Marked
<1>b. /\ B.x0 <= 0 /\ Width <= B.x1 /\ B.y0 <= 0 /\ Height <= B.y1
      /\ B.x0 \in Int /\ B.x1 \in Int /\ B.y0 \in Int /\ B.y1 \in Int
  BY DEF Narrow, Bounds
<1> HIDE DEF x0, y0, x1, y1
<1>5. CASE x0 >= x1 \/ y0 >= y1
  <2>1. Box(x0, y0, x1, y1) = {} BY <1>2, <1>5 DEF Box, Pixels
  <2> QED BY <2>1, <1>3, <1>4, <1>5
<1>6. CASE ~(x0 >= x1 \/ y0 >= y1)
  <2>1. Inside(next, B) BY <1>1, <1>2, <1>6, <1>b DEF Inside, Region
  <2>2. next # None BY <2>1 DEF Inside, NoneIsApart
  <2>3. Covered(next) = Box(x0, y0, x1, y1)
    <3>1. next.x + next.w = x1 /\ next.y + next.h = y1 BY <1>2
    <3> QED BY <3>1, <2>2 DEF Covered
  <2> HIDE DEF next
  <2>4. CASE d = None
    BY <1>3, <1>4, <1>6, <2>1, <2>3, <2>4 DEF Covered
  <2>5. CASE d # None
    BY <1>3, <1>4, <1>6, <2>1, <2>3, <2>5, JoinedCovers
  <2> QED BY <2>4, <2>5
<1> QED BY <1>5, <1>6

-----------------------------------------------------------------------------
(* A call that paints within the box it marks keeps the invariant. *)
LEMMA PaintingKeeps ==
  ASSUME NEW B, ScreenInv(B), NoneIsApart, NEW pixels, NEW region,
         pixels \subseteq Pixels,
         region = None \/ Inside(region, B),
         Covered(dirty) \subseteq Covered(region),
         pixels \subseteq Covered(region),
         Painted(pixels, region),
         text' \in TextBox \cup {None}
  PROVE  ScreenInv(B)'
<1>1. dirty' = None \/ Inside(dirty', B) BY DEF Painted
<1>2. /\ stale' = stale \cup pixels /\ torn' = torn \ pixels /\ put' = put \ pixels
      /\ stale \subseteq Pixels
      /\ stale \subseteq Covered(dirty) \cup torn \cup put
  BY DEF Painted, ScreenInv
<1>3. stale' \subseteq Covered(dirty') \cup torn' \cup put' BY <1>2 DEF Painted
<1> QED BY <1>1, <1>2, <1>3 DEF ScreenInv

(* A call that marks the box it paints in, or a larger one. *)
LEMMA MarkingKeeps ==
  ASSUME NEW B, Narrow(B), ScreenInv(B), NoneIsApart, NEW pixels,
         NEW x \in Int, NEW y \in Int, NEW w \in Nat, NEW h \in Nat,
         pixels \subseteq Box(x, y, x + w, y + h),
         Painted(pixels, Marked(dirty, x, y, w, h)),
         text' \in TextBox \cup {None}
  PROVE  ScreenInv(B)'
<1>1. dirty = None \/ Inside(dirty, B) BY DEF ScreenInv
<1>2. pixels \subseteq Pixels BY DEF Box
<1> DEFINE region == Marked(dirty, x, y, w, h)
<1>3. /\ region = None \/ Inside(region, B)
      /\ Covered(dirty) \subseteq Covered(region)
      /\ Box(x, y, x + w, y + h) \subseteq Covered(region)
  BY <1>1, MarkedCovers
<1>4. pixels \subseteq Covered(region) BY <1>3
<1>5. Painted(pixels, region) OBVIOUS
<1> HIDE DEF region
<1> QED BY <1>2, <1>3, <1>4, <1>5, PaintingKeeps

(* A call that faults half way keeps it too: what it painted is torn. *)
LEMMA TearingKeeps ==
  ASSUME NEW B, ScreenInv(B), NEW pixels, pixels \subseteq Pixels, Torn(pixels),
         text' \in TextBox \cup {None}
  PROVE  ScreenInv(B)'
<1>1. /\ dirty' = dirty /\ put' = put /\ stale' = stale \cup pixels
      /\ torn' = torn \cup (pixels \ Covered(dirty))
  BY DEF Torn
<1>2. /\ dirty = None \/ Inside(dirty, B)
      /\ stale \subseteq Pixels
      /\ stale \subseteq Covered(dirty) \cup torn \cup put
  BY DEF ScreenInv
<1>3. stale' \subseteq Covered(dirty') \cup torn' \cup put' BY <1>1, <1>2
<1> QED BY <1>1, <1>2, <1>3 DEF ScreenInv

LEMMA NumbersAreInts ==
  /\ IntMax \in Nat /\ Width \in Nat /\ Height \in Nat
  /\ Coords \subseteq Int /\ Lengths \subseteq Int
  /\ Sizes \subseteq Nat /\ GlyphWidths \subseteq Nat
  /\ GlyphHeight \in Nat /\ LineGap \in Nat /\ MaxChars \in Nat
  BY ScreenAssumption DEF Int32, IntMin

(* drawRect marks what it fills. *)
LEMMA DrawRectKeeps ==
  ASSUME NEW B, Narrow(B), ScreenInv(B), NoneIsApart, text' \in TextBox \cup {None},
         NEW x \in Coords, NEW y \in Coords, NEW w \in Lengths, NEW h \in Lengths,
         DrawRect(x, y, w, h)
  PROVE  ScreenInv(B)'
<1>1. x \in Int /\ y \in Int /\ w \in Int /\ h \in Int BY NumbersAreInts
<1> DEFINE right == WrapAdd(x, w)
<1> DEFINE bottom == WrapAdd(y, h)
<1>2. right \in Int /\ bottom \in Int BY <1>1, WrapIsInt
<1> DEFINE x0 == Larger(x, 0)
<1> DEFINE y0 == Larger(y, 0)
<1> DEFINE x1 == Smaller(right, Width)
<1> DEFINE y1 == Smaller(bottom, Height)
<1>3. /\ x0 < x1 /\ y0 < y1
      /\ Painted(Filled(x, y, w, h), Marked(dirty, x0, y0, x1 - x0, y1 - y0))
  BY DEF DrawRect
<1>4. Filled(x, y, w, h) = Box(x0, y0, right, bottom) BY DEF Filled
<1> HIDE DEF right, bottom
<1>5. x0 \in Int /\ y0 \in Int /\ x1 \in Int /\ y1 \in Int
  BY <1>1, <1>2, NumbersAreInts DEF Larger, Smaller
<1>6. \A p \in Pixels : /\ p[1] < right => p[1] < x1
                        /\ p[2] < bottom => p[2] < y1
  BY <1>2, NumbersAreInts DEF Pixels, Smaller
<1> HIDE DEF x0, y0, x1, y1
<1>7. /\ x1 - x0 \in Nat /\ y1 - y0 \in Nat
      /\ x0 + (x1 - x0) = x1 /\ y0 + (y1 - y0) = y1
  BY <1>3, <1>5
<1>8. Filled(x, y, w, h) \subseteq Box(x0, y0, x0 + (x1 - x0), y0 + (y1 - y0))
  BY <1>4, <1>6, <1>7 DEF Box
<1> QED BY <1>3, <1>5, <1>7, <1>8, MarkingKeeps

(* A glyph of drawTextEx marks its part of the box, if it has one. *)
LEMMA DrawGlyphKeeps ==
  ASSUME NEW B, Narrow(B), ScreenInv(B), NoneIsApart, text' \in TextBox \cup {None},
         NEW t \in TextBox, NEW w \in GlyphWidths, DrawGlyph(t, w)
  PROVE  ScreenInv(B)'
<1>1. /\ t.x \in Int /\ t.y \in Int /\ t.right \in Int /\ t.bottom \in Int
      /\ t.cx \in Int /\ t.cy \in Int /\ w \in Nat
  BY NumbersAreInts DEF TextBox
<1> DEFINE x0 == Larger(Larger(t.cx, t.x), 0)
<1> DEFINE y0 == Larger(Larger(t.cy, t.y), 0)
<1> DEFINE x1 == Smaller(Smaller(SatAdd(t.cx, w), t.right), Width)
<1> DEFINE y1 == Smaller(Smaller(SatAdd(t.cy, GlyphHeight), t.bottom), Height)
<1> DEFINE inside == Bitmap(t.cx, t.cy, w, GlyphHeight) \cap Box(t.x, t.y, t.right, t.bottom)
<1>2. PICK pixels \in SUBSET inside :
        Painted(pixels, IF x0 < x1 /\ y0 < y1
                        THEN Marked(dirty, x0, y0, x1 - x0, y1 - y0) ELSE dirty)
  BY DEF DrawGlyph
<1>3. x0 \in Int /\ x1 \in Int /\ y0 \in Int /\ y1 \in Int
  BY <1>1, NumbersAreInts DEF Larger, Smaller, SatAdd, IntMin
<1>4. inside \subseteq Box(x0, y0, x1, y1)
  <2> SUFFICES ASSUME NEW p \in Pixels,
                      t.cx <= p[1], p[1] < t.cx + w, t.x <= p[1], p[1] < t.right,
                      t.cy <= p[2], p[2] < t.cy + GlyphHeight, t.y <= p[2], p[2] < t.bottom
               PROVE  x0 <= p[1] /\ p[1] < x1 /\ y0 <= p[2] /\ p[2] < y1
    BY DEF Bitmap, Box
  <2>1. /\ p[1] \in 0 .. Width - 1 /\ p[2] \in 0 .. Height - 1
        /\ Width <= IntMax /\ Height <= IntMax
    BY NumbersAreInts, ScreenAssumption DEF Pixels
  <2>2. p[1] < SatAdd(t.cx, w) /\ p[2] < SatAdd(t.cy, GlyphHeight)
    BY <2>1, <1>1, NumbersAreInts DEF SatAdd, Smaller, Larger, IntMin
  <2>3. SatAdd(t.cx, w) \in Int /\ SatAdd(t.cy, GlyphHeight) \in Int
    BY <1>1, NumbersAreInts DEF SatAdd, Smaller, Larger, IntMin
  <2> QED BY <2>1, <2>2, <2>3, <1>1, NumbersAreInts DEF Smaller, Larger
<1> HIDE DEF x0, y0, x1, y1, inside
<1>5. CASE x0 < x1 /\ y0 < y1
  <2>1. /\ x1 - x0 \in Nat /\ y1 - y0 \in Nat
        /\ x0 + (x1 - x0) = x1 /\ y0 + (y1 - y0) = y1
    BY <1>3, <1>5
  <2>2. pixels \subseteq Box(x0, y0, x0 + (x1 - x0), y0 + (y1 - y0)) BY <1>4, <2>1
  <2>3. Painted(pixels, Marked(dirty, x0, y0, x1 - x0, y1 - y0)) BY <1>2, <1>5
  <2> QED BY <1>3, <2>1, <2>2, <2>3, MarkingKeeps
<1>6. CASE ~(x0 < x1 /\ y0 < y1)
  <2>1. Box(x0, y0, x1, y1) = {} BY <1>3, <1>6 DEF Box, Pixels
  <2>2. pixels = {} BY <2>1, <1>4
  <2>3. Painted({}, dirty) BY <1>2, <1>6, <2>2
  <2>4. dirty = None \/ Inside(dirty, B) BY DEF ScreenInv
  <2> QED BY <2>3, <2>4, PaintingKeeps
<1> QED BY <1>5, <1>6

(* What happens to the loop alone leaves the screen as it is. *)
LEMMA LoopKeeps ==
  ASSUME NEW B, ScreenInv(B), UNCHANGED <<dirty, stale, torn, put>>,
         text' \in TextBox \cup {None}
  PROVE  ScreenInv(B)'
  BY DEF ScreenInv, Inside, Covered, Box

LEMMA DrawTextExKeeps ==
  ASSUME NEW B, ScreenInv(B), NEW x \in Coords, NEW y \in Coords, NEW w \in Sizes, NEW h \in Sizes,
         DrawTextEx(x, y, w, h)
  PROVE  ScreenInv(B)'
<1>1. x \in Int /\ y \in Int /\ SatAdd(x, w) \in Int /\ SatAdd(y, h) \in Int
  BY NumbersAreInts DEF SatAdd, Smaller, Larger, IntMin
<1>2. text' \in TextBox BY <1>1 DEF DrawTextEx, TextBox
<1> QED BY <1>2, LoopKeeps DEF DrawTextEx

LEMMA PenIsTyped ==
  ASSUME NEW t \in TextBox, NEW w \in GlyphWidths, NEW ch
  PROVE  PenFor(t, w, ch) \in TextBox /\ PenFor(t, w, ch).left = t.left
<1>1. NextLine(t) \in Int
  BY NumbersAreInts DEF NextLine, TextBox, SatAdd, Smaller, Larger, IntMin
<1>2. Larger(t.height, GlyphHeight) \in Nat BY NumbersAreInts DEF TextBox, Larger
<1>3. GlyphHeight \in Nat BY NumbersAreInts
<1>4. CASE ~t.lines BY <1>4 DEF PenFor
<1>5. CASE t.lines /\ Breaks(t, w, ch)
  BY <1>1, <1>3, <1>5 DEF PenFor, TextBox
<1>6. CASE t.lines /\ ~Breaks(t, w, ch)
  BY <1>2, <1>6 DEF PenFor, TextBox
<1> QED BY <1>4, <1>5, <1>6

LEMMA TextTurnKeeps ==
  ASSUME NEW B, Narrow(B), ScreenInv(B), NoneIsApart, TextTurn
  PROVE  ScreenInv(B)'
<1>1. text \in TextBox /\ text.left > 0 BY DEF TextTurn, ScreenInv
<1>2. PICK w \in GlyphWidths, ch \in {"glyph", "LF", "CR"} :
        IF Stops(text, w, ch)
        THEN text' = None /\ UNCHANGED <<dirty, stale, torn, put>>
        ELSE /\ text' = [PenFor(text, w, ch) EXCEPT !.left = @ - 1,
                         !.cx = IF ch = "glyph" THEN SatAdd(@, w) ELSE @]
             /\ \/ ch = "glyph" /\ DrawGlyph(PenFor(text, w, ch), w)
                \/ UNCHANGED <<dirty, stale, torn, put>>
  BY DEF TextTurn
<1> DEFINE t == PenFor(text, w, ch)
<1>3. t \in TextBox /\ t.left = text.left BY <1>1, PenIsTyped
<1>4. CASE Stops(text, w, ch) BY <1>2, <1>4, LoopKeeps
<1>5. CASE ~Stops(text, w, ch)
  <2>1. /\ text' = [t EXCEPT !.left = @ - 1, !.cx = IF ch = "glyph" THEN SatAdd(@, w) ELSE @]
        /\ DrawGlyph(t, w) \/ UNCHANGED <<dirty, stale, torn, put>>
    BY <1>2, <1>5
  <2> HIDE DEF t
  <2>2. SatAdd(t.cx, w) \in Int
    BY <1>3, NumbersAreInts DEF TextBox, SatAdd, Smaller, Larger, IntMin
  <2>3. t.left - 1 \in 0 .. MaxChars BY <1>1, <1>3, NumbersAreInts DEF TextBox
  <2>4. text' \in TextBox BY <1>3, <2>1, <2>2, <2>3 DEF TextBox
  <2> QED BY <1>3, <2>1, <2>4, DrawGlyphKeeps, LoopKeeps
<1> QED BY <1>4, <1>5

(* The presenter copies all of a region that is on the screen. *)
LEMMA CopiedIsCovered ==
  ASSUME NEW B, Narrow(B), NEW r, Inside(r, B), r # None
  PROVE  Copied(r) = Covered(r)
<1>1. /\ r.x \in Int /\ r.y \in Int /\ r.w \in Nat /\ r.h \in Nat
      /\ IntMin <= r.x + r.w /\ r.x + r.w <= IntMax
      /\ IntMin <= r.y + r.h /\ r.y + r.h <= IntMax
  BY NumbersAreInts, ScreenAssumption DEF Inside, Region, Narrow, Bounds, IntMin
<1>2. WrapAdd(r.x, r.w) = r.x + r.w /\ WrapAdd(r.y, r.h) = r.y + r.h
  BY <1>1, NoWrap
<1>3. \A p \in Pixels : /\ Larger(r.x, 0) <= p[1] <=> r.x <= p[1]
                        /\ Larger(r.y, 0) <= p[2] <=> r.y <= p[2]
  BY <1>1 DEF Larger, Pixels
<1> QED BY <1>2, <1>3 DEF Copied, Covered, Box

LEMMA PresentKeeps ==
  ASSUME NEW B, Narrow(B), ScreenInv(B), Present, text' \in TextBox \cup {None}
  PROVE  ScreenInv(B)'
<1>1. /\ dirty' = None /\ stale' = stale \ Copied(dirty)
      /\ torn' = torn \ Copied(dirty) /\ put' = put \ Copied(dirty)
      /\ dirty # None
  BY DEF Present
<1>2. Copied(dirty) = Covered(dirty) BY <1>1, CopiedIsCovered DEF ScreenInv
<1>3. stale' \subseteq torn' \cup put' BY <1>1, <1>2 DEF ScreenInv
<1> QED BY <1>1, <1>3 DEF ScreenInv

LEMMA LegacyCallKeeps ==
  ASSUME NEW B, Narrow(B), ScreenInv(B), NoneIsApart, text' \in TextBox \cup {None}, LegacyCall
  PROVE  ScreenInv(B)'
<1>1. PICK x \in Coords, y \in Coords :
        \/ DrawPoint(x, y)
        \/ \E w, h \in Lengths : DrawRect(x, y, w, h)
        \/ \E w, h \in Sizes : \/ DispUpEx(x, y, w, h)
                               \/ DrawBitmap(x, y, w, h)
                               \/ DrawBitmapEx(x, y, w, h)
        \/ \E total \in Sizes : DrawText(x, y, total)
  BY DEF LegacyCall
<1>2. x \in Int /\ y \in Int BY NumbersAreInts
<1>3. ASSUME DrawPoint(x, y) PROVE ScreenInv(B)'
  <2>1. {<<x, y>>} \subseteq Box(x, y, x + 1, y + 1)
    BY <1>2, <1>3 DEF DrawPoint, Box
  <2> QED BY <1>2, <1>3, <2>1, MarkingKeeps DEF DrawPoint
<1>4. ASSUME NEW w \in Lengths, NEW h \in Lengths, DrawRect(x, y, w, h) PROVE ScreenInv(B)'
  BY <1>4, DrawRectKeeps
<1>5. ASSUME NEW w \in Sizes, NEW h \in Sizes, DispUpEx(x, y, w, h) PROVE ScreenInv(B)'
  BY <1>2, <1>5, NumbersAreInts, MarkingKeeps DEF DispUpEx
<1>6. ASSUME NEW w \in Sizes, NEW h \in Sizes, DrawBitmap(x, y, w, h) PROVE ScreenInv(B)'
  <2> DEFINE pixels == Bitmap(x, y, w, h)
  <2>1. pixels = Box(x, y, x + w, y + h) /\ pixels \subseteq Pixels BY DEF Bitmap, Box
  <2>2. \/ Painted(pixels, Marked(dirty, x, y, w, h))
        \/ \E p \in pixels : Torn(RowsBefore(pixels, x, y, p))
    BY <1>6 DEF DrawBitmap
  <2> HIDE DEF pixels
  <2>3. \A p \in pixels : RowsBefore(pixels, x, y, p) \subseteq Pixels BY <2>1 DEF RowsBefore
  <2> QED BY <1>2, <2>1, <2>2, <2>3, NumbersAreInts, MarkingKeeps, TearingKeeps
<1>7. ASSUME NEW w \in Sizes, NEW h \in Sizes, DrawBitmapEx(x, y, w, h) PROVE ScreenInv(B)'
  <2>1. PICK pixels \in SUBSET Bitmap(x, y, w, h) :
          Painted(pixels, Marked(dirty, x, y, w, h)) \/ Torn(pixels)
    BY <1>7 DEF DrawBitmapEx
  <2>2. pixels \subseteq Box(x, y, x + w, y + h) /\ pixels \subseteq Pixels
    BY DEF Bitmap, Box
  <2> QED BY <1>2, <2>1, <2>2, NumbersAreInts, MarkingKeeps, TearingKeeps
<1>8. ASSUME NEW total \in Sizes, DrawText(x, y, total) PROVE ScreenInv(B)'
  <2>1. PICK pixels \in SUBSET Bitmap(x, y, total, GlyphHeight) :
          Painted(pixels, Marked(dirty, x, y, total, GlyphHeight))
    BY <1>8 DEF DrawText
  <2>2. pixels \subseteq Box(x, y, x + total, y + GlyphHeight) BY DEF Bitmap
  <2> QED BY <1>2, <2>1, <2>2, NumbersAreInts, MarkingKeeps
<1> QED BY <1>1, <1>3, <1>4, <1>5, <1>6, <1>7, <1>8

(* The loops of the DSM bitmap paint the rectangle, if a region can        *)
(* describe it: they do not come round the end of i32.                     *)
LEMMA DsmBitmapIsBox ==
  ASSUME NEW x \in Coords, NEW y \in Coords, NEW w \in DsmSizes, NEW h \in DsmSizes,
         FitsRegion(x, y, w, h)
  PROVE  DsmBitmap(x, y, w, h) = Box(x, y, x + w, y + h)
<1> DEFINE Near(c, n, screen) ==
      \A q \in 0 .. screen - 1 : (q - c) % U32 < n <=> c <= q /\ q < c + n
<1>1. ASSUME NEW c \in Coords, NEW n \in DsmSizes, NEW screen \in {Width, Height},
             FitsFrom(c, n, screen)
      PROVE  Near(c, n, screen)
  <2>1. /\ c \in Int /\ IntMin <= c /\ c <= IntMax /\ IntMax \in Nat
        /\ n \in Nat /\ screen \in Nat /\ screen < U16 /\ U16 \in Nat /\ U16 <= IntMax + 1
        /\ IntMin = -IntMax - 1 /\ U32 = 2 * (IntMax + 1)
    BY <1>1, ScreenAssumption DEF Int32, IntMin, U32
  <2>2. n < U16
    BY <1>1, <2>1 DEF FitsFrom, Larger, Smaller
  <2> SUFFICES ASSUME NEW q \in 0 .. screen - 1
               PROVE  (q - c) % U32 < n <=> c <= q /\ q < c + n
    OBVIOUS
  <2>3. CASE c <= q
    <3>1. q - c \in Nat /\ q - c < U32 /\ U32 \in Nat BY <2>1, <2>3
    <3>2. (q - c) % U32 = q - c BY <3>1, SmallMod
    <3> QED BY <2>1, <2>3, <3>2
  <2>4. CASE c > q
    <3>1. q - c \in Int /\ -U32 <= q - c /\ q - c < 0 /\ U32 \in Nat BY <2>1, <2>4
    <3>2. (q - c) % U32 = q - c + U32 BY <3>1, NegativeMod
    <3>3. n <= q - c + U32 BY <2>1, <2>2
    <3> QED BY <2>1, <2>4, <3>2, <3>3
  <2> QED BY <2>1, <2>3, <2>4
<1>2. Near(x, w, Width) /\ Near(y, h, Height) BY <1>1 DEF FitsRegion
<1>3. \A p \in Pixels : p[1] \in 0 .. Width - 1 /\ p[2] \in 0 .. Height - 1 BY DEF Pixels
<1> QED BY <1>2, <1>3 DEF DsmBitmap, Box

(* The bitmap call of the DSM table sets bounds of its own: what it takes  *)
(* out of the region it puts aside.                                        *)
LEMMA DsmCallKeeps ==
  ASSUME NEW B, Narrow(B), ScreenInv(B), NoneIsApart, text' \in TextBox \cup {None}, DsmCall
  PROVE  wide' \/ \E C : Narrow(C) /\ ScreenInv(C)'
<1>1. PICK x \in Coords, y \in Coords, w \in DsmSizes, h \in DsmSizes :
        DsmDrawBitmap(x, y, w, h)
  BY DEF DsmCall
<1> DEFINE pixels == DsmBitmap(x, y, w, h)
<1> DEFINE region == [x |-> x, y |-> y, w |-> w % U16, h |-> h % U16]
<1>2. pixels \subseteq Pixels BY DEF DsmBitmap
<1>3. CASE /\ stale' = stale \cup pixels /\ torn' = torn \ pixels
           /\ put' = (put \cup (stale \cap Covered(dirty))) \ pixels
           /\ dirty' = region
           /\ wide' = (wide \/ ~FitsRegion(x, y, w, h))
  <2> SUFFICES ASSUME FitsRegion(x, y, w, h) PROVE \E C : Narrow(C) /\ ScreenInv(C)'
    BY <1>3
  <2> DEFINE C == AroundBitmap(x, y, w, h)
  <2>1. /\ x \in Int /\ IntMin <= x /\ y \in Int /\ IntMin <= y
        /\ w \in Nat /\ h \in Nat /\ IntMax \in Nat /\ IntMin = -IntMax - 1
        /\ U16 \in Nat /\ U16 <= IntMax + 1
        /\ Width \in Nat /\ Width < U16 /\ Height \in Nat /\ Height < U16
    BY ScreenAssumption DEF Int32, IntMin, U32
  <2>2. /\ x + w <= IntMax /\ Larger(x + w, Width) - Smaller(x, 0) < U16
        /\ y + h <= IntMax /\ Larger(y + h, Height) - Smaller(y, 0) < U16
    BY DEF FitsRegion, FitsFrom
  <2>3. w < U16 /\ h < U16 BY <2>1, <2>2 DEF Larger, Smaller
  <2>4. Narrow(C)
    <3>1. /\ Smaller(x, 0) \in Int /\ IntMin <= Smaller(x, 0) /\ Smaller(x, 0) <= 0
          /\ Larger(x + w, Width) \in Int /\ Width <= Larger(x + w, Width)
          /\ Larger(x + w, Width) <= IntMax
          /\ Smaller(y, 0) \in Int /\ IntMin <= Smaller(y, 0) /\ Smaller(y, 0) <= 0
          /\ Larger(y + h, Height) \in Int /\ Height <= Larger(y + h, Height)
          /\ Larger(y + h, Height) <= IntMax
      BY <2>1, <2>2 DEF Larger, Smaller
    <3> QED BY <2>2, <3>1 DEF Narrow, Bounds, AroundBitmap
  <2>5. region = [x |-> x, y |-> y, w |-> w, h |-> h] BY <2>1, <2>3, SmallMod
  <2>6. Inside(region, C)
    <3>1. /\ Smaller(x, 0) <= x /\ x + w <= Larger(x + w, Width)
          /\ Smaller(y, 0) <= y /\ y + h <= Larger(y + h, Height)
      BY <2>1 DEF Larger, Smaller
    <3>2. w \in 0 .. U16 - 1 /\ h \in 0 .. U16 - 1 BY <2>1, <2>3
    <3> QED BY <2>1, <2>5, <3>1, <3>2 DEF Inside, Region, AroundBitmap
  <2>7. region # None BY <2>6 DEF Inside, NoneIsApart
  <2>8. pixels = Box(x, y, x + w, y + h) BY DsmBitmapIsBox
  <2>9. Covered(region) = pixels BY <2>5, <2>7, <2>8 DEF Covered
  <2> HIDE DEF region, pixels, C
  <2>10. stale \subseteq Covered(dirty) \cup torn \cup put /\ stale \subseteq Pixels
    BY DEF ScreenInv
  <2>11. stale' \subseteq Covered(dirty') \cup torn' \cup put' BY <1>3, <2>9, <2>10
  <2>12. ScreenInv(C)' BY <1>2, <1>3, <2>6, <2>10, <2>11 DEF ScreenInv, C
  <2> QED BY <2>4, <2>12
<1>4. CASE \E p \in pixels : Torn(RowsBefore(pixels, x, y, p))
  <2> HIDE DEF pixels
  <2>1. \A p \in pixels : RowsBefore(pixels, x, y, p) \subseteq Pixels
    BY <1>2 DEF RowsBefore
  <2>2. ScreenInv(B)' BY <1>4, <2>1, TearingKeeps
  <2> QED BY <2>2
<1> QED BY <1>1, <1>3, <1>4 DEF DsmDrawBitmap

(* The steps that do not call the DSM table. *)
LegacyStep ==
  \/ text' = None /\ (LegacyCall \/ Present)
  \/ \E x, y \in Coords, w, h \in Sizes : DrawTextEx(x, y, w, h)
  \/ TextTurn \/ TextEnds
  \/ UNCHANGED vars

LEMMA StepKinds ==
  ASSUME [Next]_vars
  PROVE  \/ LegacyStep /\ UNCHANGED <<mixed, wide>>
         \/ text' = None /\ DsmCall /\ mixed' = TRUE
  BY DEF Next, LegacyStep, vars

(* They keep the invariant, in any bounds.. *)
LEMMA LegacyStepKeeps ==
  ASSUME NEW B, Narrow(B), ScreenInv(B), NoneIsApart, LegacyStep
  PROVE  ScreenInv(B)'
<1>1. CASE text' = None /\ LegacyCall BY <1>1, LegacyCallKeeps
<1>2. CASE text' = None /\ Present BY <1>2, PresentKeeps
<1>3. ASSUME NEW x \in Coords, NEW y \in Coords, NEW w \in Sizes, NEW h \in Sizes,
             DrawTextEx(x, y, w, h)
      PROVE  ScreenInv(B)'
  BY <1>3, DrawTextExKeeps
<1>4. CASE TextTurn BY <1>4, TextTurnKeeps
<1>5. CASE TextEnds BY <1>5, LoopKeeps DEF TextEnds
<1>6. CASE UNCHANGED vars
  <2>1. text \in TextBox \cup {None} BY DEF ScreenInv
  <2> QED BY <1>6, <2>1, LoopKeeps DEF vars
<1> QED BY <1>1, <1>2, <1>3, <1>4, <1>5, <1>6 DEF LegacyStep

(* .. and put nothing aside. *)
LEMMA LegacyStepPutsNothing ==
  ASSUME LegacyStep
  PROVE  put' \subseteq put
<1>1. \A pixels, region : Painted(pixels, region) => put' \subseteq put BY DEF Painted
<1>2. \A pixels : Torn(pixels) => put' \subseteq put BY DEF Torn
<1>3. CASE LegacyCall
  <2>1. PICK x \in Coords, y \in Coords :
          \/ DrawPoint(x, y)
          \/ \E w, h \in Lengths : DrawRect(x, y, w, h)
          \/ \E w, h \in Sizes : \/ DispUpEx(x, y, w, h)
                                 \/ DrawBitmap(x, y, w, h)
                                 \/ DrawBitmapEx(x, y, w, h)
          \/ \E total \in Sizes : DrawText(x, y, total)
    BY <1>3 DEF LegacyCall
  <2>2. DrawPoint(x, y) => put' \subseteq put BY <1>1 DEF DrawPoint
  <2>3. \A w, h : DrawRect(x, y, w, h) => put' \subseteq put BY <1>1 DEF DrawRect
  <2>4. \A w, h : DispUpEx(x, y, w, h) => put' \subseteq put BY <1>1 DEF DispUpEx
  <2>5. \A w, h : DrawBitmap(x, y, w, h) => put' \subseteq put BY <1>1, <1>2 DEF DrawBitmap
  <2>6. \A w, h : DrawBitmapEx(x, y, w, h) => put' \subseteq put
    BY <1>1, <1>2 DEF DrawBitmapEx
  <2>7. \A total : DrawText(x, y, total) => put' \subseteq put BY <1>1 DEF DrawText
  <2> QED BY <2>1, <2>2, <2>3, <2>4, <2>5, <2>6, <2>7
<1>4. CASE Present BY <1>4 DEF Present
<1>5. CASE \E x, y \in Coords, w, h \in Sizes : DrawTextEx(x, y, w, h)
  BY <1>5 DEF DrawTextEx
<1>6. CASE TextTurn
  <2>1. \A t, w : DrawGlyph(t, w) => put' \subseteq put BY <1>1 DEF DrawGlyph
  <2> QED BY <1>6, <2>1 DEF TextTurn
<1>7. CASE TextEnds \/ UNCHANGED vars BY <1>7 DEF TextEnds, vars
<1> QED BY <1>3, <1>4, <1>5, <1>6, <1>7 DEF LegacyStep

LEMMA InitInv ==
  ASSUME NEW B, Init
  PROVE  ScreenInv(B)
  BY DEF Init, ScreenInv

LEMMA OfScreenNarrow == Narrow(OfScreen)
  BY ScreenAssumption DEF Narrow, Bounds, OfScreen, IntMin

-----------------------------------------------------------------------------
(* As long as no DSM call has been made: the invariant in the bounds of the*)
(* screen, and nothing has been put aside.                                 *)
LegacyInv == mixed \in BOOLEAN /\ (mixed = FALSE => ScreenInv(OfScreen) /\ put = {})

LEMMA LegacyInvHolds == Spec => []LegacyInv
<1> SUFFICES ASSUME NoneIsApart PROVE Spec => []LegacyInv
  BY NoneAssumption DEF NoneIsApart
<1>1. Init => LegacyInv BY InitInv DEF Init, LegacyInv
<1>2. LegacyInv /\ [Next]_vars => LegacyInv'
  <2> SUFFICES ASSUME LegacyInv, [Next]_vars PROVE LegacyInv'
    OBVIOUS
  <2>1. CASE text' = None /\ DsmCall /\ mixed' = TRUE BY <2>1 DEF LegacyInv
  <2>2. CASE LegacyStep /\ UNCHANGED <<mixed, wide>>
    <3>1. CASE mixed = FALSE
      <4>1. ScreenInv(OfScreen)'
        BY <2>2, <3>1, OfScreenNarrow, LegacyStepKeeps DEF LegacyInv
      <4>2. put' = {} BY <2>2, <3>1, LegacyStepPutsNothing DEF LegacyInv
      <4> QED BY <2>2, <3>1, <4>1, <4>2 DEF LegacyInv
    <3>2. CASE mixed # FALSE BY <2>2, <3>2 DEF LegacyInv
    <3> QED BY <3>1, <3>2
  <2> QED BY <2>1, <2>2, StepKinds
<1> QED BY <1>1, <1>2, PTL DEF Spec

(* mark_dirty_region forgets no painted pixel, for screens and calls of    *)
(* every size: as long as no DSM call is made, a pixel that was painted is *)
(* in the dirty region until the window shows it, but for what a call has  *)
(* painted before it faulted.                                              *)
THEOREM NothingForgotten == Spec => [](mixed = FALSE => StaleIsDirty)
<1>1. LegacyInv => (mixed = FALSE => StaleIsDirty)
  BY DEF LegacyInv, ScreenInv, StaleIsDirty
<1> QED BY <1>1, LegacyInvHolds, PTL

(* The region that take_dirty_region hands out is not empty and on the     *)
(* screen, as long as no DSM call is made.                                 *)
THEOREM RegionOnScreen == Spec => []DirtyOnScreen
<1>1. LegacyInv => DirtyOnScreen
  BY DEF LegacyInv, ScreenInv, DirtyOnScreen, Inside, OfScreen
<1> QED BY <1>1, LegacyInvHolds, PTL

(* With both tables: in some bounds, as long as every bitmap of the DSM    *)
(* table has fitted a region.                                              *)
MixedInv == wide \in BOOLEAN /\ (~wide => \E B : Narrow(B) /\ ScreenInv(B))

(* What is painted is in the region, torn by a fault or put aside by a DSM *)
(* bitmap, as long as none of those was too large or too far off for a     *)
(* region (mark_dirty_region and the assignment of the DSM call).          *)
THEOREM AllAccountedFor == Spec => []StaleIsAccountedFor
<1> SUFFICES ASSUME NoneIsApart PROVE Spec => []StaleIsAccountedFor
  BY NoneAssumption DEF NoneIsApart
<1>1. Init => MixedInv
  <2> SUFFICES ASSUME Init PROVE MixedInv
    OBVIOUS
  <2> QED BY InitInv, OfScreenNarrow DEF Init, MixedInv
<1>2. MixedInv /\ [Next]_vars => MixedInv'
  <2> SUFFICES ASSUME MixedInv, [Next]_vars PROVE MixedInv'
    OBVIOUS
  <2>1. wide' \in BOOLEAN /\ (wide => wide')
    BY DEF MixedInv, Next, vars, DsmCall, DsmDrawBitmap
  <2>2. CASE wide BY <2>1, <2>2 DEF MixedInv
  <2>3. CASE ~wide
    <3>1. PICK B : Narrow(B) /\ ScreenInv(B) BY <2>3 DEF MixedInv
    <3>2. CASE LegacyStep
      <4>1. ScreenInv(B)' BY <3>1, <3>2, LegacyStepKeeps
      <4> QED BY <2>1, <3>1, <4>1 DEF MixedInv
    <3>3. CASE text' = None /\ DsmCall
      BY <2>1, <3>1, <3>3, DsmCallKeeps DEF MixedInv
    <3> QED BY <3>2, <3>3, StepKinds
  <2> QED BY <2>1, <2>2, <2>3 DEF MixedInv
<1>3. MixedInv => StaleIsAccountedFor
  BY DEF MixedInv, ScreenInv, StaleIsAccountedFor
<1> QED BY <1>1, <1>2, <1>3, PTL DEF Spec

-----------------------------------------------------------------------------
(* The types, whatever the guest calls and however its sums overflow.      *)

LEMMA JoinedTyped ==
  ASSUME NEW a \in Region, NEW b \in Region
  PROVE  Joined(a, b) \in Region
<1>1. U16 \in Nat /\ U16 > 0 BY ScreenAssumption
<1>2. /\ a.x \in Int /\ a.y \in Int /\ a.w \in Int /\ a.h \in Int
      /\ b.x \in Int /\ b.y \in Int /\ b.w \in Int /\ b.h \in Int
  BY <1>1 DEF Region
<1> DEFINE left == Smaller(a.x, b.x)
<1> DEFINE top == Smaller(a.y, b.y)
<1> DEFINE right == Larger(WrapAdd(a.x, a.w), WrapAdd(b.x, b.w))
<1> DEFINE bottom == Larger(WrapAdd(a.y, a.h), WrapAdd(b.y, b.h))
<1>3. /\ WrapAdd(a.x, a.w) \in Int /\ WrapAdd(b.x, b.w) \in Int
      /\ WrapAdd(a.y, a.h) \in Int /\ WrapAdd(b.y, b.h) \in Int
  BY <1>2, WrapIsInt
<1>4. left \in Int /\ top \in Int /\ right \in Int /\ bottom \in Int
  BY <1>2, <1>3 DEF Smaller, Larger
<1>5. Joined(a, b) = [x |-> left, y |-> top, w |-> (right - left) % U16,
                      h |-> (bottom - top) % U16]
  BY DEF Joined
<1> HIDE DEF left, top, right, bottom
<1>6. (right - left) % U16 \in 0 .. U16 - 1 /\ (bottom - top) % U16 \in 0 .. U16 - 1
  BY <1>1, <1>4, ModIsInt
<1> QED BY <1>4, <1>5, <1>6 DEF Region

LEMMA MarkedTyped ==
  ASSUME NEW d \in Region \cup {None}, NEW x \in Int, NEW y \in Int, NEW w \in Int,
         NEW h \in Int
  PROVE  Marked(d, x, y, w, h) \in Region \cup {None}
<1> DEFINE x0 == Clamp(x, Width)
<1> DEFINE y0 == Clamp(y, Height)
<1> DEFINE x1 == Clamp(SatAdd(x, w), Width)
<1> DEFINE y1 == Clamp(SatAdd(y, h), Height)
<1> DEFINE next == [x |-> x0, y |-> y0, w |-> x1 - x0, h |-> y1 - y0]
<1>1. x0 \in 0 .. Width /\ x1 \in 0 .. Width /\ y0 \in 0 .. Height /\ y1 \in 0 .. Height
  BY ScreenAssumption DEF Clamp, SatAdd, Smaller, Larger, IntMin
<1>2. Marked(d, x, y, w, h) =
        IF x0 >= x1 \/ y0 >= y1 THEN d ELSE IF d = None THEN next ELSE Joined(d, next)
  BY DEF Marked
<1> HIDE DEF x0, y0, x1, y1
<1>3. CASE x0 >= x1 \/ y0 >= y1 BY <1>2, <1>3
<1>4. CASE ~(x0 >= x1 \/ y0 >= y1)
  <2>1. next \in Region BY <1>1, <1>4, ScreenAssumption DEF Region
  <2> HIDE DEF next
  <2> QED BY <1>2, <1>4, <2>1, JoinedTyped
<1> QED BY <1>3, <1>4

(* The types of what a drawing call leaves. *)
Drawn == dirty' \in Region \cup {None} /\ stale' \subseteq Pixels /\ torn' \cup put' \subseteq stale'

LEMMA PaintedTyped ==
  ASSUME TypeOK, NEW pixels, NEW region, pixels \subseteq Pixels,
         region \in Region \cup {None}, Painted(pixels, region)
  PROVE  Drawn
  BY DEF TypeOK, Painted, Drawn

LEMMA PaintedMarkedTyped ==
  ASSUME TypeOK, NEW pixels, pixels \subseteq Pixels,
         NEW x \in Int, NEW y \in Int, NEW w \in Int, NEW h \in Int,
         Painted(pixels, Marked(dirty, x, y, w, h))
  PROVE  Drawn
<1>1. Marked(dirty, x, y, w, h) \in Region \cup {None} BY MarkedTyped DEF TypeOK
<1> QED BY <1>1, PaintedTyped

LEMMA TornTyped ==
  ASSUME TypeOK, NEW pixels, pixels \subseteq Pixels, Torn(pixels)
  PROVE  Drawn
  BY DEF TypeOK, Torn, Drawn

LEMMA LegacyCallTyped ==
  ASSUME TypeOK, LegacyCall
  PROVE  Drawn
<1>1. PICK x \in Coords, y \in Coords :
        \/ DrawPoint(x, y)
        \/ \E w, h \in Lengths : DrawRect(x, y, w, h)
        \/ \E w, h \in Sizes : \/ DispUpEx(x, y, w, h)
                               \/ DrawBitmap(x, y, w, h)
                               \/ DrawBitmapEx(x, y, w, h)
        \/ \E total \in Sizes : DrawText(x, y, total)
  BY DEF LegacyCall
<1>2. x \in Int /\ y \in Int BY NumbersAreInts
<1>3. ASSUME DrawPoint(x, y) PROVE Drawn
  BY <1>2, <1>3, PaintedMarkedTyped DEF DrawPoint
<1>4. ASSUME NEW w \in Lengths, NEW h \in Lengths, DrawRect(x, y, w, h) PROVE Drawn
  <2> DEFINE right == WrapAdd(x, w)
  <2> DEFINE bottom == WrapAdd(y, h)
  <2>1. right \in Int /\ bottom \in Int BY <1>2, NumbersAreInts, WrapIsInt
  <2> DEFINE x0 == Larger(x, 0)
  <2> DEFINE y0 == Larger(y, 0)
  <2> DEFINE x1 == Smaller(right, Width)
  <2> DEFINE y1 == Smaller(bottom, Height)
  <2>2. Painted(Filled(x, y, w, h), Marked(dirty, x0, y0, x1 - x0, y1 - y0))
    BY <1>4 DEF DrawRect
  <2> HIDE DEF right, bottom
  <2>3. x0 \in Int /\ y0 \in Int /\ x1 - x0 \in Int /\ y1 - y0 \in Int
    BY <1>2, <2>1, NumbersAreInts DEF Larger, Smaller
  <2>4. Filled(x, y, w, h) \subseteq Pixels BY DEF Filled, Box
  <2> HIDE DEF x0, y0, x1, y1
  <2> QED BY <2>2, <2>3, <2>4, PaintedMarkedTyped
<1>5. ASSUME NEW w \in Sizes, NEW h \in Sizes, DispUpEx(x, y, w, h) PROVE Drawn
  BY <1>2, <1>5, NumbersAreInts, PaintedMarkedTyped DEF DispUpEx
<1>6. \A w, h : Bitmap(x, y, w, h) \subseteq Pixels BY DEF Bitmap, Box
<1>7. ASSUME NEW w \in Sizes, NEW h \in Sizes, DrawBitmap(x, y, w, h) PROVE Drawn
  <2> DEFINE pixels == Bitmap(x, y, w, h)
  <2>1. \A p \in pixels : RowsBefore(pixels, x, y, p) \subseteq Pixels BY <1>6 DEF RowsBefore
  <2>2. CASE Painted(pixels, Marked(dirty, x, y, w, h))
    BY <1>2, <1>6, <2>2, NumbersAreInts, PaintedMarkedTyped
  <2>3. CASE \E p \in pixels : Torn(RowsBefore(pixels, x, y, p))
    BY <2>1, <2>3, TornTyped
  <2> QED BY <1>7, <2>2, <2>3 DEF DrawBitmap
<1>8. ASSUME NEW w \in Sizes, NEW h \in Sizes, DrawBitmapEx(x, y, w, h) PROVE Drawn
  BY <1>2, <1>6, <1>8, NumbersAreInts, PaintedMarkedTyped, TornTyped DEF DrawBitmapEx
<1>9. ASSUME NEW total \in Sizes, DrawText(x, y, total) PROVE Drawn
  <2>1. \A w, h : Bitmap(x, y, w, h) \subseteq Pixels BY <1>6
  <2> QED BY <1>2, <1>9, <2>1, NumbersAreInts, PaintedMarkedTyped DEF DrawText
<1> QED BY <1>1, <1>3, <1>4, <1>5, <1>7, <1>8, <1>9

LEMMA DsmCallTyped ==
  ASSUME TypeOK, DsmCall
  PROVE  Drawn
<1>1. PICK x \in Coords, y \in Coords, w \in DsmSizes, h \in DsmSizes :
        DsmDrawBitmap(x, y, w, h)
  BY DEF DsmCall
<1> DEFINE pixels == DsmBitmap(x, y, w, h)
<1> DEFINE region == [x |-> x, y |-> y, w |-> w % U16, h |-> h % U16]
<1>2. pixels \subseteq Pixels BY DEF DsmBitmap
<1>3. region \in Region
  <2>1. /\ x \in Int /\ y \in Int /\ w \in Int /\ h \in Int /\ U16 \in Nat /\ U16 > 0
    BY NumbersAreInts, ScreenAssumption DEF U32
  <2>2. w % U16 \in 0 .. U16 - 1 /\ h % U16 \in 0 .. U16 - 1 BY <2>1, ModIsInt
  <2> QED BY <2>1, <2>2 DEF Region
<1>4. CASE /\ stale' = stale \cup pixels /\ torn' = torn \ pixels
           /\ put' = (put \cup (stale \cap Covered(dirty))) \ pixels
           /\ dirty' = region
  BY <1>2, <1>3, <1>4 DEF TypeOK, Drawn
<1>5. CASE \E p \in pixels : Torn(RowsBefore(pixels, x, y, p))
  <2>1. \A p \in pixels : RowsBefore(pixels, x, y, p) \subseteq Pixels
    BY <1>2 DEF RowsBefore
  <2> QED BY <1>5, <2>1, TornTyped
<1> QED BY <1>1, <1>4, <1>5 DEF DsmDrawBitmap

LEMMA DrawGlyphTyped ==
  ASSUME TypeOK, NEW t \in TextBox, NEW w \in GlyphWidths, DrawGlyph(t, w)
  PROVE  Drawn
<1>1. /\ t.x \in Int /\ t.y \in Int /\ t.right \in Int /\ t.bottom \in Int
      /\ t.cx \in Int /\ t.cy \in Int /\ w \in Nat
  BY NumbersAreInts DEF TextBox
<1> DEFINE x0 == Larger(Larger(t.cx, t.x), 0)
<1> DEFINE y0 == Larger(Larger(t.cy, t.y), 0)
<1> DEFINE x1 == Smaller(Smaller(SatAdd(t.cx, w), t.right), Width)
<1> DEFINE y1 == Smaller(Smaller(SatAdd(t.cy, GlyphHeight), t.bottom), Height)
<1>2. x0 \in Int /\ y0 \in Int /\ x1 \in Int /\ y1 \in Int
  BY <1>1, NumbersAreInts DEF Larger, Smaller, SatAdd, IntMin
<1>3. PICK pixels \in SUBSET (Bitmap(t.cx, t.cy, w, GlyphHeight)
                              \cap Box(t.x, t.y, t.right, t.bottom)) :
        Painted(pixels, IF x0 < x1 /\ y0 < y1
                        THEN Marked(dirty, x0, y0, x1 - x0, y1 - y0) ELSE dirty)
  BY DEF DrawGlyph
<1>4. pixels \subseteq Pixels BY DEF Box
<1> HIDE DEF x0, y0, x1, y1
<1>5. CASE x0 < x1 /\ y0 < y1
  <2>1. Painted(pixels, Marked(dirty, x0, y0, x1 - x0, y1 - y0)) BY <1>3, <1>5
  <2>2. x1 - x0 \in Int /\ y1 - y0 \in Int BY <1>2
  <2> QED BY <1>2, <1>4, <2>1, <2>2, PaintedMarkedTyped
<1>6. CASE ~(x0 < x1 /\ y0 < y1)
  BY <1>3, <1>4, <1>6, PaintedTyped DEF TypeOK
<1> QED BY <1>5, <1>6

LEMMA TextTurnTyped ==
  ASSUME TypeOK, TextTurn
  PROVE  Drawn /\ text' \in TextBox \cup {None}
<1>1. text \in TextBox /\ text.left > 0 BY DEF TextTurn, TypeOK
<1>2. PICK w \in GlyphWidths, ch \in {"glyph", "LF", "CR"} :
        IF Stops(text, w, ch)
        THEN text' = None /\ UNCHANGED <<dirty, stale, torn, put>>
        ELSE /\ text' = [PenFor(text, w, ch) EXCEPT !.left = @ - 1,
                         !.cx = IF ch = "glyph" THEN SatAdd(@, w) ELSE @]
             /\ \/ ch = "glyph" /\ DrawGlyph(PenFor(text, w, ch), w)
                \/ UNCHANGED <<dirty, stale, torn, put>>
  BY DEF TextTurn
<1> DEFINE t == PenFor(text, w, ch)
<1>3. t \in TextBox /\ t.left = text.left BY <1>1, PenIsTyped
<1>4. UNCHANGED <<dirty, stale, torn, put>> => Drawn BY DEF TypeOK, Drawn
<1>5. CASE Stops(text, w, ch) BY <1>2, <1>4, <1>5
<1>6. CASE ~Stops(text, w, ch)
  <2>1. /\ text' = [t EXCEPT !.left = @ - 1, !.cx = IF ch = "glyph" THEN SatAdd(@, w) ELSE @]
        /\ DrawGlyph(t, w) \/ UNCHANGED <<dirty, stale, torn, put>>
    BY <1>2, <1>6
  <2> HIDE DEF t
  <2>2. SatAdd(t.cx, w) \in Int
    BY <1>3, NumbersAreInts DEF TextBox, SatAdd, Smaller, Larger, IntMin
  <2>3. t.left - 1 \in 0 .. MaxChars BY <1>1, <1>3, NumbersAreInts DEF TextBox
  <2>4. text' \in TextBox BY <1>3, <2>1, <2>2, <2>3 DEF TextBox
  <2>5. Drawn BY <1>3, <1>4, <2>1, DrawGlyphTyped
  <2> QED BY <2>4, <2>5
<1> QED BY <1>5, <1>6

LEMMA DrawTextExTyped ==
  ASSUME NEW x \in Coords, NEW y \in Coords, NEW w \in Sizes, NEW h \in Sizes,
         DrawTextEx(x, y, w, h)
  PROVE  text' \in TextBox
<1>1. x \in Int /\ y \in Int /\ SatAdd(x, w) \in Int /\ SatAdd(y, h) \in Int
  BY NumbersAreInts DEF SatAdd, Smaller, Larger, IntMin
<1> QED BY <1>1 DEF DrawTextEx, TextBox

(* Every variable has its type (the fields of ExtHost's region and loop).  *)
THEOREM ScreenTypes == Spec => []TypeOK
<1>1. Init => TypeOK BY DEF Init, TypeOK
<1>2. TypeOK /\ [Next]_vars => TypeOK'
  <2> SUFFICES ASSUME TypeOK, [Next]_vars PROVE TypeOK'
    OBVIOUS
  <2>1. mixed' \in BOOLEAN /\ wide' \in BOOLEAN
    BY DEF TypeOK, Next, vars, DsmCall, DsmDrawBitmap
  <2>2. Drawn /\ text' \in TextBox \cup {None} => TypeOK' BY <2>1 DEF Drawn, TypeOK
  <2>3. UNCHANGED <<dirty, stale, torn, put>> => Drawn BY DEF TypeOK, Drawn
  <2>4. CASE text' = None /\ LegacyCall BY <2>2, <2>4, LegacyCallTyped
  <2>5. CASE text' = None /\ DsmCall BY <2>2, <2>5, DsmCallTyped
  <2>6. CASE text' = None /\ Present BY <2>2, <2>6 DEF Present, TypeOK, Drawn
  <2>7. ASSUME NEW x \in Coords, NEW y \in Coords, NEW w \in Sizes, NEW h \in Sizes,
               DrawTextEx(x, y, w, h)
        PROVE  TypeOK'
    BY <2>2, <2>3, <2>7, DrawTextExTyped DEF DrawTextEx
  <2>8. CASE TextTurn BY <2>2, <2>8, TextTurnTyped
  <2>9. CASE TextEnds BY <2>2, <2>3, <2>9 DEF TextEnds
  <2>10. CASE UNCHANGED vars BY <2>2, <2>3, <2>10 DEF vars, TypeOK
  <2> QED BY <2>4, <2>5, <2>6, <2>7, <2>8, <2>9, <2>10 DEF Next
<1> QED BY <1>1, <1>2, PTL DEF Spec
=============================================================================
