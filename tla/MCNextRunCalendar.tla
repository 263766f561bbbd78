------------------------- MODULE MCNextRunCalendar -------------------------
(***************************************************************************)
(* Days of four hours of two minutes, weeks of three days, and short       *)
(* months between longer ones; the clock is changed in the second month    *)
(* and back in the third.                                                  *)
(***************************************************************************)
EXTENDS NextRunCalendar

Months == <<4, 3, 5, 4, 5>>
=============================================================================
