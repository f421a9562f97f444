----------------------------- MODULE MCReadings -----------------------------
(***************************************************************************)
(* Readings with answers of the chip whose fields are at the ends of their *)
(* ranges, and in between where the two fields share a byte, and with the  *)
(* least and the greatest of the other values.  Cleaning and two of the    *)
(* texts take more than one step, and the boxes of the lines overlap.      *)
(***************************************************************************)
EXTENDS Readings

\* 28: calibrated; 156: calibrated and busy.
MCBuffers ==
  {<<28, a, b, shared, c, d>> :
     a, b, c, d \in {0, 255}, shared \in {0, 15, 16, 90, 240, 255}}
    \cup {<<28, 0, 196, 160, 0, 1>>, <<28, 102, 51, 54, 0, 1>>,
          <<156, 255, 255, 255, 255, 255>>}

\* 0: the title bar; 1: row 30; 2: row 46 alone; 3: rows 46 and 48; 4: rows 62 and 64;
\* 5: row 64 alone.
MCAreas == 0 .. 5

MCBox ==
  [l \in Rows \X Labels |->
     CASE l[1] = 30 -> {1} [] l[1] = 46 -> {2, 3} [] l[1] = 48 -> {3}
       [] l[1] = 62 -> {4} [] l[1] = 64 -> {4, 5}]

=============================================================================
