------------------------------ MODULE LogFormat ------------------------------
(***************************************************************************)
(* LoggerFormatter (src/log.cc): how a format is taken apart when it is    *)
(* set, and how an event is written with it.  A format is a sequence of    *)
(* characters; a line is a sequence of characters and of what the items    *)
(* show of the event.  Positions count from 0, as in the code.             *)
(***************************************************************************)
EXTENDS Integers, SequencesExt

(* The letters that push an item, besides d. *)
Letters == {"T", "t", "F", "p", "f", "l", "m", "n"}
(* The letters whose items are commented out. *)
Silent == {"N", "c"}

Text(f, from, length) ==
    [text |-> SubSeq(f, from + 1, from + length), item |-> ""]
Item(letter) == [text |-> << >>, item |-> letter]

(* The text before the % of a letter at i; d takes the % for a part of it. *)
TextBefore(f, start, i) ==
    IF start > i - 2 THEN << >>
    ELSE << Text(f, start, i - start - IF f[i + 1] = "d" THEN 0 ELSE 1) >>

(* Mutant: the text after a letter begins with the letter. *)
InitStep_letter_kept(f, s, i) ==
    IF f[i + 1] = "%" THEN [s EXCEPT !.status = 1]
    ELSE IF s.status = 1 /\ f[i + 1] \in Letters \cup Silent \cup {"d"}
    THEN [status |-> 0, start |-> i,
          seq |-> s.seq \o TextBefore(f, s.start, i)
                  \o IF f[i + 1] \in Silent THEN << >>
                     ELSE << Item(f[i + 1]) >>]
    ELSE s

(* The body of the loop: after a %, up to the next letter that it knows. *)
InitStep(f, s, i) ==
    IF f[i + 1] = "%" THEN [s EXCEPT !.status = 1]
    ELSE IF s.status = 1 /\ f[i + 1] \in Letters \cup Silent \cup {"d"}
    THEN [status |-> 0, start |-> i + 1,
          seq |-> s.seq \o TextBefore(f, s.start, i)
                  \o IF f[i + 1] \in Silent THEN << >>
                     ELSE << Item(f[i + 1]) >>]
    ELSE s

(* LoggerFormatter::init: the formatSequence_ of a format. *)
init(f) ==
    LET end == FoldLeftDomain(LAMBDA s, k : InitStep(f, s, k - 1),
                              [status |-> 0, start |-> 0, seq |-> << >>], f)
    IN end.seq \o IF end.start < Len(f)
                  THEN << Text(f, end.start, Len(f) - end.start) >>
                  ELSE << >>

(* EventParse: what an item shows of an event: for three of them, what it is
   of the event.  The others are shown by their letter, so that a line tells
   which item is where and not what it says of a time, a file or a line number.
   Two of those do not say what the comment in init says: %n is "\r\n" there
   and std::endl in the code, and %F, the coroutine's id, is always -1 (what
   the macros NETCO_LOG_LEVEL and NETCO_LOG_FMT_LEVEL pass for it). *)
Shown(letter, event) ==
    CASE letter = "m" -> event.message
      [] letter = "p" -> event.level
      [] letter = "t" -> event.thread
      [] OTHER -> letter

(* LoggerFormatter::format *)
format(seq, event) ==
    FlattenSeq([k \in DOMAIN seq |->
        IF seq[k].item = "" THEN seq[k].text
        ELSE << Shown(seq[k].item, event) >>])

-----------------------------------------------------------------------------
(* What the comment in init says of a format: a % and a letter show the item,
   everything else is text.  As it is, this holds for formats in which every %
   is followed by a letter, no letter is silent, and no text is before a %d. *)
Documented(f, event) ==
    LET line[k \in 1 .. Len(f) + 2] ==
            IF k > Len(f) THEN << >>
            ELSE IF f[k] = "%"
            THEN << Shown(f[k + 1], event) >> \o line[k + 2]
            ELSE << f[k] >> \o line[k + 1]
    IN line[1]

Plain(f) ==
    \A k \in 1 .. Len(f) : f[k] = "%" =>
        /\ k < Len(f) /\ f[k + 1] \in Letters \cup {"d"}
        /\ f[k + 1] = "d" /\ k > 1 => k > 2 /\ f[k - 2] = "%"
=============================================================================
