------------------------------- MODULE GaugeLayout -------------------------------
(***************************************************************************)
(* What gts9-charger.c draws: rectangles clipped to the framebuffer, and    *)
(* the gauge stacked in units of a hundredth of the screen's short side.    *)
(* A glyph is taken for the cell it is drawn in.                            *)
(***************************************************************************)
EXTENDS Integers

CONSTANTS xres, yres  \* the visible size of /dev/fb0

ASSUME ScreenAssumption == xres \in Nat \ {0} /\ yres \in Nat \ {0}

Rect(x, y, w, h) == [x |-> x, y |-> y, w |-> w, h |-> h]

\* fill(): what the loops write of a rectangle, in pixels of one axis.
Low(a) == IF a < 0 THEN 0 ELSE a
Length(a, n, limit) ==
  LET kept == IF a < 0 THEN n + a ELSE n IN
  IF Low(a) + kept > limit THEN limit - Low(a) ELSE kept
Fill(r) == Rect(Low(r.x), Low(r.y), Length(r.x, r.w, xres), Length(r.y, r.h, yres))
Columns(r) == Fill(r).x .. Fill(r).x + Fill(r).w - 1
Rows(r) == Fill(r).y .. Fill(r).y + Fill(r).h - 1

--------------------------------------------------------------------------------
(* draw().                                                                  *)

AtLeast1(n) == IF n > 1 THEN n ELSE 1
u == (IF xres < yres THEN xres ELSE yres) \div 100
Ns == AtLeast1(u)
Ms == AtLeast1(u \div 2)
Hs == AtLeast1(u \div 3)
BodyW == u * 12
BodyH == u * 6
Thick == IF u > 2 THEN u \div 2 ELSE 1
Gap == u * 2
HintH(hint) == IF hint THEN Gap + 7 * Hs ELSE 0
Total(hint) == BodyH + Gap + 7 * Ns + Gap + 7 * Ms + HintH(hint)
Top(hint) == (yres - Total(hint)) \div 2
Left == xres \div 2 - BodyW \div 2

Body(hint) == Rect(Left, Top(hint), BodyW, BodyH)
\* The battery's terminal.
Nub(hint) == Rect(Left + BodyW, Top(hint) + BodyH \div 3, Thick * 2, BodyH \div 3)
Clamped(pct) == IF pct < 0 THEN 0 ELSE IF pct > 100 THEN 100 ELSE pct
FillW(pct) == ((BodyW - 4 * Thick) * Clamped(pct)) \div 100
Level(hint, pct) == Rect(Left + 2 * Thick, Top(hint) + 2 * Thick, FillW(pct), BodyH - 4 * Thick)
TextW(scale, chars) == chars * 6 * scale - scale
Line(y, scale, chars) ==
  Rect(xres \div 2 - TextW(scale, chars) \div 2, y, TextW(scale, chars), 7 * scale)
Percent(hint, chars) == Line(Top(hint) + BodyH + Gap, Ns, chars)
Status(hint, chars) == Line(Top(hint) + BodyH + Gap + 7 * Ns + Gap, Ms, chars)
\* "HOLD POWER TO START", drawn if hint.
Hint(hint) == Line(Top(hint) + BodyH + Gap + 7 * Ns + Gap + 7 * Ms + Gap, Hs, 19)
================================================================================
