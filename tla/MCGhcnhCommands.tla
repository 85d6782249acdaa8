--------------------------- MODULE MCGhcnhCommands ---------------------------
(* GhcnhCommands with two annual files and a window across their border. *)
EXTENDS GhcnhCommands

Row(t, F, amount) == [ts |-> t, malformed |-> FALSE, flaws |-> F, amount |-> amount]
Dry(t) == Row(t, {}, "observed_zero")
Wet(t) == Row(t, {}, "observed_positive")
Torn == [Dry(2) EXCEPT !.malformed = TRUE]

(* A window across the border, and one that ends on it. *)
MCRequests == {[start |-> 1, end |-> 8], [start |-> 2, end |-> 5]}

(* Repeats, conflicts, flaws that hide one another, rows out of order,     *)
(* outside the window and unreadable, an empty and a too long file.        *)
MCUpstream ==
  [y \in {0, 1} |->
     IF y = 0
     THEN {<<Dry(2), Dry(2), Wet(1)>>, <<Dry(2), Wet(2)>>, <<Wet(3), Torn>>, <<>>,
           <<Row(2, {"bad_place", "trace_rainfall"}, "none"),
             Row(2, {"bad_place", "trace_rainfall"}, "none"), Wet(3)>>,
           <<Wet(1), Wet(2), Wet(3), Wet(0)>>}
     ELSE {<<Wet(6), Dry(9)>>, <<Wet(4)>>,
           <<Row(7, {"missing_rainfall", "source_quality_flag"}, "none")>>}]

Task(command, source, pin, reports) ==
  [command |-> command, source |-> source, pin |-> pin, reports |-> reports]

MCTasks ==
  {Task("preview", "http", NoPin, {}),
   Task("import", "http", <<Dry(2), Dry(2), Wet(1)>>, {"json"}),
   Task("import", "fixture", NoPin, {"json"}),
   Task("validate", "http", NoPin, {"json", "markdown"}),
   Task("validate", "fixture", <<Wet(3), Torn>>, {"markdown"})}
=============================================================================
