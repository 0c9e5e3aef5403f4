--------------------------- MODULE MCRequestBody ---------------------------
(* RequestBody with limits of a few bytes, so that every file and framing   *)
(* size on both sides of each limit, and every cut into messages, occurs.   *)
EXTENDS RequestBody
=============================================================================
