------------------------- MODULE MCDirectPublisher -------------------------
(* Instances of DirectPublisher for TLC. *)
EXTENDS DirectPublisher

\* One scalar and one nested dictionary with two fields.
MCFlatKeys == {"rpm"}
MCNestedKeys == {"gps"}
MCChildren == {"lat", "lng"}
==============================================================================
