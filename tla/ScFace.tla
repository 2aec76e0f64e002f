------------------------------- MODULE ScFace -------------------------------
(***************************************************************************)
(* The face on the panel of the Stack-chan demo: what lcd_fill() is asked  *)
(* to fill for each expression, pixel for pixel, and what a part of the    *)
(* face looks like after it has been drawn over another                    *)
(* (stackchan_main.c).                                                     *)
(*                                                                         *)
(* The face has two parts, the eyes and the mouth. A drawing routine       *)
(* clears the box of its part and then fills white and black rectangles.   *)
(***************************************************************************)
EXTENDS Integers, FiniteSets

LCD_W == 320
LCD_H == 240
LCD_CHUNK == 2048

EYE_R == 16
EYE_LX == 96
EYE_RX == 224
EYE_Y == 100
MOUTH_W == 90
MOUTH_H == 8
MOUTH_Y == 168

NEUTRAL == 0
HAPPY == 1
SAD == 2
ANGRY == 3
SLEEPY == 4
SURPRISED == 5
Expressions == 0 .. 5

-----------------------------------------------------------------------------
(* Rectangles.                                                             *)

\* The arguments of lcd_fill(), which does nothing if the area is empty.
Rect(x, y, w, h) == IF w <= 0 \/ h <= 0 THEN {} ELSE {[x |-> x, y |-> y, w |-> w, h |-> h]}

Inside(r, b) ==
  r.x >= b.x /\ r.y >= b.y /\ r.x + r.w <= b.x + b.w /\ r.y + r.h <= b.y + b.h

Meet(r, b) ==
  /\ r.x < b.x + b.w /\ b.x < r.x + r.w
  /\ r.y < b.y + b.h /\ b.y < r.y + r.h

Panel == [x |-> 0, y |-> 0, w |-> LCD_W, h |-> LCD_H]

\* The transactions of a fill: the command, then the pixels in chunks.
Transactions(r) == 1 + (r.w * r.h * 2 + LCD_CHUNK - 1) \div LCD_CHUNK

\* sc->trans[]
MaxTransactions == 2 + (LCD_W * LCD_H * 2) \div LCD_CHUNK

\* The widest row that stays in the circle, at each dy.
HalfWidth(r, dy) ==
  CHOOSE dx \in 0 .. r : dx * dx + dy * dy <= r * r /\ (dx + 1) * (dx + 1) + dy * dy > r * r

lcd_circle(cx, cy, r) ==
  UNION {Rect(cx - HalfWidth(r, dy), cy + dy, 2 * HalfWidth(r, dy) + 1, 1) : dy \in -r .. r}

-----------------------------------------------------------------------------
(* The parts.                                                              *)

Parts == {"eyes", "mouth"}

\* Mutant: the box of a normal eye, too small for the surprised one.
EYE_BOX_Small == 18

EYE_BOX == 28

EyeBox(cx) ==
  [x |-> cx - EYE_BOX, y |-> EYE_Y - EYE_BOX, w |-> 2 * EYE_BOX + 1, h |-> 2 * EYE_BOX + 1]

MouthBox == [x |-> 100, y |-> 130, w |-> 120, h |-> 100]

Boxes(part) == IF part = "mouth" THEN {MouthBox} ELSE {EyeBox(EYE_LX), EyeBox(EYE_RX)}

\* A look: an expression, and whether the eyes are open. A routine fills the
\* white rectangles first and the black ones over them.
Look(expr, open) == [expr |-> expr, open |-> open]

face_eye_white(cx, l) ==
  IF ~l.open \/ l.expr = SLEEPY THEN Rect(cx - EYE_R, EYE_Y - 3, 2 * EYE_R + 1, 6)
  ELSE IF l.expr = SAD THEN lcd_circle(cx, EYE_Y + 4, EYE_R - 4)
  ELSE IF l.expr = SURPRISED THEN lcd_circle(cx, EYE_Y, EYE_R + 6)
  ELSE lcd_circle(cx, EYE_Y, EYE_R)

\* The brow of an angry eye slopes down towards the middle of the face.
Brow(cx) ==
  UNION {LET cut == 2 * (y - (EYE_Y - EYE_R - 2))
         IN  Rect(IF cx = EYE_LX THEN cx - EYE_R + cut ELSE cx - EYE_R, y,
                  2 * EYE_R + 1 - cut, 1) : y \in EYE_Y - EYE_R .. EYE_Y}

face_eye_black(cx, l) ==
  IF ~l.open THEN {}
  ELSE IF l.expr = HAPPY THEN lcd_circle(cx, EYE_Y + 8, EYE_R)
  ELSE IF l.expr = ANGRY THEN Brow(cx)
  ELSE {}

face_mouth_white(e) ==
  LET cx == LCD_W \div 2
  IN  CASE e = HAPPY -> lcd_circle(cx, 160, 30)
        [] e = SAD -> lcd_circle(cx, 196, 30)
        [] e = ANGRY -> Rect(cx - 30, 172, 60, 6)
        [] e = SLEEPY -> Rect(cx - 15, 170, 30, 6)
        [] e = SURPRISED -> lcd_circle(cx, 175, 14)
        [] OTHER -> Rect(cx - MOUTH_W \div 2, MOUTH_Y, MOUTH_W, MOUTH_H)

face_mouth_black(e) ==
  LET cx == LCD_W \div 2
  IN  CASE e = HAPPY -> lcd_circle(cx, 148, 30)
        [] e = SAD -> lcd_circle(cx, 208, 30)
        [] e = SURPRISED -> lcd_circle(cx, 175, 8)
        [] OTHER -> {}

-----------------------------------------------------------------------------
(* Drawing over what is there.                                             *)

Looks == {Look(e, o) : e \in Expressions, o \in BOOLEAN}

\* Constant tables, so that TLC works them out once.
White ==
  [part \in Parts |-> [l \in Looks |->
     IF part = "mouth" THEN face_mouth_white(l.expr)
     ELSE face_eye_white(EYE_LX, l) \cup face_eye_white(EYE_RX, l)]]

Black ==
  [part \in Parts |-> [l \in Looks |->
     IF part = "mouth" THEN face_mouth_black(l.expr)
     ELSE face_eye_black(EYE_LX, l) \cup face_eye_black(EYE_RX, l)]]

\* Clearing its boxes removes every white pixel of the look.
ClearedByBox ==
  [part \in Parts |-> [l \in Looks |->
     \A r \in White[part][l] : \E b \in Boxes(part) : Inside(r, b)]]

\* Drawing the part touches nothing white of the other part.
KeepsOther ==
  [part \in Parts |-> [l \in Looks |->
     \A r \in White[part][l] \cup Black[part][l] \cup Boxes(part) :
     \A q \in Parts \ {part} : \A b \in UNION {White[q][k] : k \in Looks} : ~Meet(r, b)]]

\* Every fill of the look is inside the panel and fits the transfer.
FitsPanel ==
  [part \in Parts |-> [l \in Looks |->
     \A r \in White[part][l] \cup Black[part][l] \cup Boxes(part) :
       Inside(r, Panel) /\ Transactions(r) <= MaxTransactions]]

\* A part that nobody has drawn, and one that is no look as a whole.
Blank == Look(-1, FALSE)
Smeared == Look(-2, FALSE)

\* The panel after the look l of a part has been drawn.
Draw(screen, part, l) ==
  [q \in Parts |->
     IF q = part
     THEN IF screen[q] # Smeared /\ (screen[q] = Blank \/ ClearedByBox[q][screen[q]])
          THEN l ELSE Smeared
     ELSE IF KeepsOther[part][l] THEN screen[q] ELSE Smeared]

=============================================================================
