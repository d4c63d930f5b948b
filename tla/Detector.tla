----------------------------- MODULE Detector -----------------------------
(***************************************************************************)
(* The arithmetic around the network in YOLO_MODEL/cpp/trt_engine.cpp: the *)
(* frame is scaled and padded to the network's input, the rows that come   *)
(* out become boxes, and of boxes that overlap the best one is kept.       *)
(*                                                                         *)
(* Floats are integers in small units: pixels of the network's input,      *)
(* percent for scores and for the overlap; in the frame, where boxes are   *)
(* scaled to, parts of a pixel so small that nothing is rounded.           *)
(***************************************************************************)
EXTENDS Integers, Sequences, SequencesExt

CONSTANTS
  InputW, InputH,   (* size of the network's input                           *)
  ConfThreshold,    (* conf_thres                                            *)
  IouThreshold      (* iou_thres                                             *)

ASSUME DetectorAssumption ==
  /\ InputW \in Nat \ {0} /\ InputH \in Nat \ {0}
  /\ ConfThreshold \in 0..100 /\ IouThreshold \in 0..100

Least(a, b)    == IF a < b THEN a ELSE b
Greatest(a, b) == IF a > b THEN a ELSE b
Within(x, lo, hi) == Greatest(lo, Least(x, hi))

(* std::round(n / d), n >= -d / 2. *)
Round(n, d) == (2 * n + d) \div (2 * d)

(***************************************************************************)
(* letterbox(): the scale is the smaller of the two ratios, a fraction.    *)
(***************************************************************************)
ScaleOf(frame) ==
  IF InputW * frame.h <= InputH * frame.w
  THEN [num |-> InputW, den |-> frame.w] ELSE [num |-> InputH, den |-> frame.h]

Resized(frame) ==
  LET r == ScaleOf(frame)
  IN [w |-> Round(frame.w * r.num, r.den), h |-> Round(frame.h * r.num, r.den)]

(* cv::resize() throws when a side comes to nothing. *)
CanResize(frame) == Resized(frame).w > 0 /\ Resized(frame).h > 0

(* Mutation of Borders: both sides are rounded alike.                       *)
BordersAlike(room) == <<Round(room, 2), Round(room, 2)>>

(* Both sides of a border of room pixels: round(room / 2 -+ 0.1). *)
Borders(room) == <<Round(5 * room - 1, 10), Round(5 * room + 1, 10)>>

Canvas(frame) ==
  LET size == Resized(frame)
      x == Borders(InputW - size.w)
      y == Borders(InputH - size.h)
  IN [w |-> size.w + x[1] + x[2], h |-> size.h + y[1] + y[2]]

(* scale_box_to_frame().  InputW - size.w is twice pad_x, and the unit in    *)
(* the frame a (2 * num)-th of a pixel.                                      *)
Placed(b, frame) ==
  LET r == ScaleOf(frame)
      size == Resized(frame)
      X(x) == (2 * x - (InputW - size.w)) * r.den
      Y(y) == (2 * y - (InputH - size.h)) * r.den
  IN [x1 |-> X(b.x1), x2 |-> X(b.x2), y1 |-> Y(b.y1), y2 |-> Y(b.y2),
      conf |-> b.conf, cls |-> b.cls]

(* The clamps: what lies beside the frame is cut. *)
InFrame(b, frame) ==
  LET pixel == 2 * ScaleOf(frame).num
      X(x) == Within(x, 0, (frame.w - 1) * pixel)
      Y(y) == Within(y, 0, (frame.h - 1) * pixel)
  IN [Placed(b, frame) EXCEPT !.x1 = X(@), !.x2 = X(@), !.y1 = Y(@), !.y2 = Y(@)]

Cut(b, frame) == InFrame(b, frame) # Placed(b, frame)

(***************************************************************************)
(* The rows of the network: the first of the best classes counts, and the  *)
(* score is the product.                                                   *)
(***************************************************************************)
NetworkRow == [cx : Int, cy : Int, w : Int, h : Int, obj : 0..100,
               scores : Seq(0..100)]

BestClass(row) ==
  CHOOSE c \in DOMAIN row.scores :
    \A d \in DOMAIN row.scores :
      \/ row.scores[d] < row.scores[c]
      \/ row.scores[d] = row.scores[c] /\ c <= d

Confidence(row) == (row.obj * row.scores[BestClass(row)]) \div 100

BoxOf(row) ==
  [x1 |-> row.cx - row.w \div 2, x2 |-> row.cx + row.w \div 2,
   y1 |-> row.cy - row.h \div 2, y2 |-> row.cy + row.h \div 2,
   conf |-> Confidence(row), cls |-> BestClass(row)]

Candidates(rows) ==
  {BoxOf(row) : row \in {r \in rows : r.obj > 0 /\ Confidence(r) >= ConfThreshold}}

(***************************************************************************)
(* nms().  std::sort leaves boxes of one confidence in any order.          *)
(***************************************************************************)
Overlap(a, b) ==
  LET Side(lo, hi) == Greatest(0, hi - lo)
      Area(c) == Side(c.x1, c.x2) * Side(c.y1, c.y2)
      inter == Side(Greatest(a.x1, b.x1), Least(a.x2, b.x2))
               * Side(Greatest(a.y1, b.y1), Least(a.y2, b.y2))
  IN [inter |-> inter, uni |-> Area(a) + Area(b) - inter]

(* iou(a, b) > iou_thres *)
OverlapTooMuch(a, b) ==
  LET o == Overlap(a, b) IN o.uni > 0 /\ 100 * o.inter > IouThreshold * o.uni

Rivals(a, b) == a.cls = b.cls /\ OverlapTooMuch(a, b)

Sorted(boxes) ==
  {s \in SetToSeqs(boxes) :
     \A i \in DOMAIN s : \A j \in 1..i : s[j].conf >= s[i].conf}

(* Mutation of Removed: a box is removed by one that was removed itself.    *)
RemovedByAny(i, s, kept) == \E j \in 1..i - 1 : Rivals(s[j], s[i])

Removed(i, s, kept) == \E j \in DOMAIN kept : Rivals(kept[j], s[i])

Suppress(s) ==
  LET keep[i \in 0..Len(s)] ==
        IF i = 0 THEN <<>>
        ELSE IF Removed(i, s, keep[i - 1]) THEN keep[i - 1]
        ELSE Append(keep[i - 1], s[i])
  IN keep[Len(s)]
============================================================================
