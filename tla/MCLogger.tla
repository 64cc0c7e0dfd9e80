------------------------------ MODULE MCLogger ------------------------------
(* Two threads and one appender; formats of up to four characters, which are
   the %, the letter d, one of the other letters, and a text. *)
EXTENDS Logger

CONSTANTS t1, t2, a1

MCFormats == BoundedSeq({"%", "d", "m", "x"}, 4)
MCLevels == {1, 3}
=============================================================================
