------------------------------ MODULE Evidence -------------------------------
(***************************************************************************)
(* What the program knows is a value or Unknown: absent, unreadable or of  *)
(* no meaning. Unknown is never read as false, zero, unavailable or        *)
(* exhausted ("unknown = value null", lib/runtime-snapshot.js:24).         *)
(***************************************************************************)
CONSTANT Unknown
=============================================================================
