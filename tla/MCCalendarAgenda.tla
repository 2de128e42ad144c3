-------------------------- MODULE MCCalendarAgenda --------------------------
(* Ann's calendar fills the page limit exactly and one more event passes   *)
(* it; Bob's holds an event that cannot be mapped.                         *)
EXTENDS CalendarAgenda

MCFirstCalendar == [m \in Emails |-> IF m = "ann" THEN {1, 2, 3} ELSE {2, 4}]
=============================================================================
