--------------------------- MODULE DataflowClaims ---------------------------
(***************************************************************************)
(* What the README and the comments of src/src/message.c say about the     *)
(* readings that are logged and the code does not do.  Each claim is       *)
(* checked by a run of its own, and each is violated.                      *)
(***************************************************************************)
EXTENDS Dataflow

(* message.c:99-100, "f is 1 when given temperature is in Fahrenheit", and *)
(* the same of k and c: a reading is written in the unit it was taken in.  *)
LabelledRight == line.kind = "temperature" => line.units \subseteq {line.unit}

(* README.md:15, "Light looks for a transformation of day and light. If    *)
(* there is a change it logs a message": a change that a working sensor    *)
(* sees, with room in the queue, is alerted in the same cycle or still     *)
(* noted, in day or night, for a later one.                                *)
Sends(m) ==
  \E i \in Len(light_to_log) + 1 .. Len(light_to_log') : light_to_log'[i] = m

ChangesLogged ==
  [][/\ "light" \notin failed' /\ Len(light_to_log) + 1 < MaxMsg
     =>
     /\ Nightfall(prev_lumen') => night' \/ Sends(Alert(FALSE))
     /\ Daybreak(prev_lumen')  => day' \/ Sends(Alert(TRUE))]_vars
=============================================================================
