------------------------------- MODULE Screen -------------------------------
(***************************************************************************)
(* The screen of ExtHost (crates/vmrp-platform/src/lib.rs): a buffer of    *)
(* pixels that the guest's drawing calls paint, and one dirty region that  *)
(* grows to cover what was painted.  Between two slices of the guest the   *)
(* runner takes the region (drain_host_ui in apps/vmrp-windows/src/main.rs)*)
(* and the window presenter copies that part of the buffer and shows it    *)
(* (presenter.rs).  A pixel that is painted and in no region is one the    *)
(* window does not show.                                                   *)
(*                                                                         *)
(* Colours are left out: a pixel is stale or it is not.  A bitmap, a text  *)
(* with its glyphs and a transparent colour paint some subset of the       *)
(* pixels they cover.                                                      *)
(***************************************************************************)
EXTENDS Integers, FiniteSets

CONSTANTS
  Width, Height, (* SCREEN_WIDTH, SCREEN_HEIGHT: 240 and 320               *)
  IntMax,        (* i32::MAX                                               *)
  U16,           (* u16::MAX + 1                                           *)
  Coords,        (* the coordinates the guest passes, i32                  *)
  Sizes,         (* the widths and heights it passes as u16                *)
  DsmSizes,      (* those of the DSM bitmap call, u32                      *)
  Lengths,       (* those it passes as i32                                 *)
  GlyphWidths,   (* the advance of a glyph: 8 and 16                       *)
  GlyphHeight,   (* the height of a line: 16                               *)
  LineGap,       (* between two lines: 2                                   *)
  MaxChars,      (* bound: characters of a text in a box                   *)
  None           (* no dirty region, no text                               *)

IntMin == -IntMax - 1
U32 == 2 * (IntMax + 1)
Int32 == IntMin .. IntMax

ASSUME ScreenAssumption ==
  /\ Width \in Nat \ {0} /\ Height \in Nat \ {0} /\ IntMax \in Nat
  /\ U16 \in Nat /\ U16 <= IntMax + 1 /\ Width < U16 /\ Height < U16
  /\ Coords \subseteq Int32 /\ Lengths \subseteq Int32
  /\ Sizes \subseteq 0 .. U16 - 1 /\ DsmSizes \subseteq 0 .. U32 - 1
  /\ GlyphWidths \subseteq 0 .. U16 - 1 /\ GlyphHeight \in 0 .. U16 - 1 /\ LineGap \in 0 .. IntMax /\ MaxChars \in Nat

VARIABLES
  dirty, (* dirty_region                                                   *)
  stale, (* the pixels that were painted and that the presenter lacks      *)
  torn,  (* history: those of them that a call painted before it faulted   *)
  put,   (* history: those whose region a DSM call has put aside           *)
  text,  (* the loop of drawTextEx, None when no call is in it             *)
  mixed, (* history: whether the DSM table has been called                 *)
  wide   (* history: whether with a bitmap that no region can describe     *)

vars == <<dirty, stale, torn, put, text, mixed, wide>>

Pixels == (0 .. Width - 1) \X (0 .. Height - 1)
Region == [x : Int, y : Int, w : 0 .. U16 - 1, h : 0 .. U16 - 1]

Smaller(a, b) == IF a <= b THEN a ELSE b
Larger(a, b) == IF a <= b THEN b ELSE a
Clamp(a, hi) == Smaller(Larger(a, 0), hi)
SatAdd(a, b) == Larger(IntMin, Smaller(IntMax, a + b))
(* The sum of the release build, which wraps around; a debug build panics. *)
WrapAdd(a, b) == ((a + b - IntMin) % U32) + IntMin

(* The pixels from (x0, y0) to before (x1, y1). *)
Box(x0, y0, x1, y1) ==
  {p \in Pixels : x0 <= p[1] /\ p[1] < x1 /\ y0 <= p[2] /\ p[2] < y1}
Covered(r) == IF r = None THEN {} ELSE Box(r.x, r.y, r.x + r.w, r.y + r.h)

-----------------------------------------------------------------------------
(* The smallest region over two, in sums that may overflow if a region is  *)
(* one that the DSM bitmap call has set.                                   *)
Joined(a, b) ==
  LET left == Smaller(a.x, b.x)
      top == Smaller(a.y, b.y)
  IN [x |-> left, y |-> top,
      w |-> (Larger(WrapAdd(a.x, a.w), WrapAdd(b.x, b.w)) - left) % U16,
      h |-> (Larger(WrapAdd(a.y, a.h), WrapAdd(b.y, b.h)) - top) % U16]

(* Mutant of Marked: what was dirty before is forgotten. *)
MarkedAnew(d, x, y, w, h) ==
  LET x0 == Clamp(x, Width)  x1 == Clamp(SatAdd(x, w), Width)
      y0 == Clamp(y, Height) y1 == Clamp(SatAdd(y, h), Height)
  IN IF x0 >= x1 \/ y0 >= y1 THEN d
     ELSE [x |-> x0, y |-> y0, w |-> x1 - x0, h |-> y1 - y0]

(* Mutant of Marked: a region is not cut to the screen. *)
MarkedUncut(d, x, y, w, h) ==
  LET next == [x |-> x, y |-> y, w |-> w, h |-> h]
  IN IF w = 0 \/ h = 0 THEN d ELSE IF d = None THEN next ELSE Joined(d, next)

(* mark_dirty_region. *)
Marked(d, x, y, w, h) ==
  LET x0 == Clamp(x, Width)
      y0 == Clamp(y, Height)
      x1 == Clamp(SatAdd(x, w), Width)
      y1 == Clamp(SatAdd(y, h), Height)
      next == [x |-> x0, y |-> y0, w |-> x1 - x0, h |-> y1 - y0]
  IN IF x0 >= x1 \/ y0 >= y1 THEN d ELSE IF d = None THEN next ELSE Joined(d, next)

Init ==
  /\ dirty = None /\ stale = {} /\ torn = {} /\ put = {} /\ text = None
  /\ mixed = FALSE /\ wide = FALSE

(* A call has painted the pixels and marked a region. *)
Painted(pixels, region) ==
  /\ stale' = stale \cup pixels
  /\ torn' = torn \ pixels
  /\ put' = put \ pixels
  /\ dirty' = region

(* A call that faulted on the guest's memory half way: nothing is marked.  *)
Torn(pixels) ==
  /\ stale' = stale \cup pixels
  /\ torn' = torn \cup (pixels \ Covered(dirty))
  /\ UNCHANGED <<dirty, put>>

(* dispUpEx: marks, and paints nothing. *)
DispUpEx(x, y, w, h) == Painted({}, Marked(dirty, x, y, w, h))

(* Mutant of DrawPoint: a point beside the screen is not left out. *)
DrawPointAnywhere(x, y) == Painted({<<x, y>>}, Marked(dirty, x, y, 1, 1))

(* drawPoint: plot_screen_pixel. *)
DrawPoint(x, y) ==
  /\ <<x, y>> \in Pixels
  /\ Painted({<<x, y>>}, Marked(dirty, x, y, 1, 1))

(* fill_screen_rect, whose right and lower ends are sums that may overflow. *)
Filled(x, y, w, h) ==
  Box(Larger(x, 0), Larger(y, 0), WrapAdd(x, w), WrapAdd(y, h))

(* drawRect. *)
DrawRect(x, y, w, h) ==
  LET x0 == Larger(x, 0)
      y0 == Larger(y, 0)
      x1 == Smaller(WrapAdd(x, w), Width)
      y1 == Smaller(WrapAdd(y, h), Height)
  IN /\ x0 < x1 /\ y0 < y1
     /\ Painted(Filled(x, y, w, h), Marked(dirty, x0, y0, x1 - x0, y1 - y0))

(* The pixels of the screen that a bitmap at (x, y) covers. *)
Bitmap(x, y, w, h) == Box(x, y, x + w, y + h)

(* blit_raw_rgb565_bitmap goes row by row from the corner (x, y): it paints*)
(* all of the bitmap, or what comes before the pixel whose read faults.    *)
RowsBefore(pixels, x, y, p) ==
  LET Row(q) == (q[2] - y) % U32
      Column(q) == (q[1] - x) % U32
  IN {q \in pixels : Row(q) < Row(p) \/ (Row(q) = Row(p) /\ Column(q) < Column(p))}

(* drawBitmap of the legacy table. *)
DrawBitmap(x, y, w, h) ==
  LET pixels == Bitmap(x, y, w, h)
  IN \/ Painted(pixels, Marked(dirty, x, y, w, h))
     \/ \E p \in pixels : Torn(RowsBefore(pixels, x, y, p))

(* The same for a bitmap with u32 sides, whose loops count to them and     *)
(* wrap around at the ends of i32.                                         *)
DsmBitmap(x, y, w, h) == {p \in Pixels : (p[1] - x) % U32 < w /\ (p[2] - y) % U32 < h}

(* A region can describe the bitmap, and the smallest rectangle over it    *)
(* and the screen.                                                         *)
FitsFrom(c, n, screen) ==
  c + n <= IntMax /\ Larger(c + n, screen) - Smaller(c, 0) < U16
FitsRegion(x, y, w, h) == FitsFrom(x, w, Width) /\ FitsFrom(y, h, Height)

(* DrawBitmap of the DSM table paints all of the bitmap, and puts a region *)
(* of its own, with the sides cut to u16 and its corner as it is, in the   *)
(* place of what was dirty before.                                         *)
DsmDrawBitmap(x, y, w, h) ==
  LET pixels == DsmBitmap(x, y, w, h)
  IN \/ /\ stale' = stale \cup pixels
        /\ torn' = torn \ pixels
        /\ put' = (put \cup (stale \cap Covered(dirty))) \ pixels
        /\ dirty' = [x |-> x, y |-> y, w |-> w % U16, h |-> h % U16]
        /\ wide' = (wide \/ ~FitsRegion(x, y, w, h))
     \/ (\E p \in pixels : Torn(RowsBefore(pixels, x, y, p))) /\ wide' = wide

(* drawBitmapEx: the source's own bounds and the transparent colour leave  *)
(* pixels out.                                                             *)
DrawBitmapEx(x, y, w, h) ==
  \E pixels \in SUBSET Bitmap(x, y, w, h) :
    Painted(pixels, Marked(dirty, x, y, w, h)) \/ Torn(pixels)

(* drawText: the glyphs of one line, read whole before the first is drawn. *)
DrawText(x, y, total) ==
  \E pixels \in SUBSET Bitmap(x, y, total, GlyphHeight) :
    Painted(pixels, Marked(dirty, x, y, total, GlyphHeight))

-----------------------------------------------------------------------------
(* drawTextEx: a loop over the characters of a text that is drawn in a box *)
(* and may be broken into lines.  Every glyph marks its part of the box.   *)

TextBox == [x : Int, right : Int, bottom : Int, y : Int, lines : BOOLEAN,
            cx : Int, cy : Int, height : Nat, left : 0 .. MaxChars]

ASSUME NoneAssumption == None \notin Region /\ None \notin TextBox

DrawTextEx(x, y, w, h) ==
  /\ \E count \in 0 .. MaxChars, lines \in BOOLEAN :
       text' = [x |-> x, y |-> y, right |-> SatAdd(x, w), bottom |-> SatAdd(y, h),
                lines |-> lines, cx |-> x, cy |-> y, height |-> 0, left |-> count]
  /\ UNCHANGED <<dirty, stale, torn, put>>

(* A character of width w has no room on its line, or is a line feed.      *)
Breaks(t, w, ch) == SatAdd(t.cx, w) > t.right \/ ch = "LF"
NextLine(t) == SatAdd(SatAdd(t.cy, t.height), LineGap)

(* The pen before the character is drawn. *)
PenFor(t, w, ch) ==
  CASE ~t.lines -> t
    [] t.lines /\ Breaks(t, w, ch) ->
         [t EXCEPT !.cx = t.x, !.cy = NextLine(t), !.height = GlyphHeight]
    [] OTHER -> [t EXCEPT !.height = Larger(@, GlyphHeight)]

(* Neither it nor one after it is drawn. *)
Stops(t, w, ch) ==
  IF t.lines THEN Breaks(t, w, ch) /\ NextLine(t) > t.bottom
  ELSE t.cx > t.right \/ ch = "LF"

(* draw_sky16_char_clipped: what of a glyph is in the box. *)
DrawGlyph(t, w) ==
  LET x0 == Larger(Larger(t.cx, t.x), 0)
      y0 == Larger(Larger(t.cy, t.y), 0)
      x1 == Smaller(Smaller(SatAdd(t.cx, w), t.right), Width)
      y1 == Smaller(Smaller(SatAdd(t.cy, GlyphHeight), t.bottom), Height)
      mark == IF x0 < x1 /\ y0 < y1 THEN Marked(dirty, x0, y0, x1 - x0, y1 - y0)
              ELSE dirty
  IN \E pixels \in SUBSET (Bitmap(t.cx, t.cy, w, GlyphHeight)
                           \cap Box(t.x, t.y, t.right, t.bottom)) :
       Painted(pixels, mark)

(* One turn of the loop; a line feed or a carriage return draws nothing,   *)
(* and neither does a character that the font lacks.                       *)
TextTurn ==
  /\ text # None /\ text.left > 0
  /\ \E w \in GlyphWidths, ch \in {"glyph", "LF", "CR"} :
       LET t == PenFor(text, w, ch)
       IN IF Stops(text, w, ch)
          THEN text' = None /\ UNCHANGED <<dirty, stale, torn, put>>
          ELSE /\ text' = [t EXCEPT !.left = @ - 1,
                                   !.cx = IF ch = "glyph" THEN SatAdd(@, w) ELSE @]
               /\ \/ ch = "glyph" /\ DrawGlyph(t, w)
                  \/ UNCHANGED <<dirty, stale, torn, put>>

TextEnds ==
  /\ text # None /\ text.left = 0
  /\ text' = None
  /\ UNCHANGED <<dirty, stale, torn, put>>

-----------------------------------------------------------------------------
(* copy_rgb565_region_to_bgra: the part of the region on the screen. *)
Copied(r) == Box(Larger(r.x, 0), Larger(r.y, 0), WrapAdd(r.x, r.w), WrapAdd(r.y, r.h))

(* drain_host_ui: the region is taken and its part of the buffer is copied *)
(* to the presenter, which shows all it has.                               *)
Present ==
  /\ dirty # None
  /\ dirty' = None
  /\ stale' = stale \ Copied(dirty) /\ torn' = torn \ Copied(dirty)
  /\ put' = put \ Copied(dirty)

LegacyCall ==
  \E x, y \in Coords :
    \/ DrawPoint(x, y)
    \/ \E w, h \in Lengths : DrawRect(x, y, w, h)
    \/ \E w, h \in Sizes : \/ DispUpEx(x, y, w, h)
                           \/ DrawBitmap(x, y, w, h)
                           \/ DrawBitmapEx(x, y, w, h)
    \/ \E total \in Sizes : DrawText(x, y, total)

DsmCall == \E x, y \in Coords, w, h \in DsmSizes : DsmDrawBitmap(x, y, w, h)

Next ==
  \/ /\ text = None /\ text' = None /\ UNCHANGED <<mixed, wide>>
     /\ LegacyCall \/ Present
  \/ /\ text = None /\ text' = None /\ mixed' = TRUE
     /\ DsmCall
  \/ /\ text = None /\ UNCHANGED <<mixed, wide>>
     /\ \E x, y \in Coords, w, h \in Sizes : DrawTextEx(x, y, w, h)
  \/ UNCHANGED <<mixed, wide>> /\ (TextTurn \/ TextEnds)

Spec == Init /\ [][Next]_vars

-----------------------------------------------------------------------------
TypeOK ==
  /\ dirty \in Region \cup {None}
  /\ stale \subseteq Pixels /\ torn \cup put \subseteq stale
  /\ text \in TextBox \cup {None} /\ mixed \in BOOLEAN /\ wide \in BOOLEAN

(* Every pixel that was painted and that the window does not show is in    *)
(* the dirty region, so the next drain shows it; but for what a drawing    *)
(* call painted before it faulted (mark_dirty_region, take_dirty_region).  *)
StaleIsDirty == stale \subseteq Covered(dirty) \cup torn

(* The same when the guest also calls the DSM table, but for what its      *)
(* bitmap call has put aside: as long as none of its bitmaps is too large  *)
(* or too far off for a region that also covers the screen, no pixel is    *)
(* forgotten in any other way.  (One that is paints more than it marks.)   *)
StaleIsAccountedFor == ~wide => stale \subseteq Covered(dirty) \cup torn \cup put

(* The dirty region is not empty and lies on the screen, as long as the    *)
(* DSM bitmap call has not put its own there: the presenter's sums on its  *)
(* corners cannot overflow.                                                *)
DirtyOnScreen ==
  ~mixed /\ dirty # None =>
    /\ dirty.x >= 0 /\ dirty.w > 0 /\ dirty.x + dirty.w <= Width
    /\ dirty.y >= 0 /\ dirty.h > 0 /\ dirty.y + dirty.h <= Height

=============================================================================
