---------------------------- MODULE MCYoloFiles ----------------------------
(***************************************************************************)
(* Frames and rows for YoloFiles: borders of even and odd width on either  *)
(* side, a frame too narrow to be scaled; rows that overlap in a chain,    *)
(* rows of one confidence, of two classes, and too weak to count.          *)
(***************************************************************************)
EXTENDS YoloFiles

SomeFrames == {[w |-> 16, h |-> 9], [w |-> 3, h |-> 5], [w |-> 8, h |-> 8],
               [w |-> 1, h |-> 40]}

Row(x, y, obj, a, b) ==
  [cx |-> x, cy |-> y, w |-> 4, h |-> 4, obj |-> obj, scores |-> <<a, b>>]

Chain == {Row(2, 2, 90, 90, 10), Row(3, 2, 90, 80, 10), Row(4, 2, 90, 70, 10)}
Ties  == {Row(2, 2, 90, 90, 10), Row(3, 2, 90, 90, 10), Row(4, 2, 90, 90, 90)}
Mixed == {Row(3, 3, 90, 10, 90), Row(2, 3, 60, 50, 50), Row(3, 2, 0, 90, 10),
          Row(2, 2, 40, 50, 10)}

SomeRows == {{}, Chain, Ties, Mixed}
============================================================================
