---------------------------- MODULE PoolReaderSpec ----------------------------
(***************************************************************************)
(* What reading a raw pool promises (spec section 6, the pool reader): in *)
(* one step, the text becomes its columns, each with one value per line   *)
(* in line order, or, when a token is not a number or a line has a       *)
(* different number of columns than the first, the read fails as a whole  *)
(* (section 7: no partial pool).                                          *)
(*                                                                         *)
(* A file is a sequence of lines, a line a sequence of tokens.  A token   *)
(* that parses is its own value; Bad is one that does not.  Every number  *)
(* of a file is distinct (10 * line + column), so a value out of place    *)
(* shows; the text is therefore given by its shape, which tokens of each *)
(* line parse.                                                             *)
(***************************************************************************)
EXTENDS Integers, Sequences, Functions

CONSTANTS
    MaxLines,   \* lines of a file
    MaxWidth    \* tokens of a line

VARIABLES
    text,       \* the shape of the text being read
    status,     \* "reading", "ok" or "failed"
    pool        \* the columns read, when status = "ok"

vars == <<text, status, pool>>

Bad == -1

\* The shape of a line: which of its 1 .. MaxWidth tokens parse.
Shapes == UNION {[1 .. w -> BOOLEAN] : w \in 1 .. MaxWidth}

\* Line l of the given shape.
Realise(shape, l) == [c \in DOMAIN shape |-> IF shape[c] THEN 10 * l + c ELSE Bad]

Texts == UNION {[1 .. n -> Shapes] : n \in 0 .. MaxLines}

\* The file of a text.
FileOf(t) == [l \in DOMAIN t |-> Realise(t[l], l)]

\* A line the reader must reject.
LineIsBad(f, l) == Bad \in Range(f[l]) \/ Len(f[l]) # Len(f[1])

Malformed(f) == \E l \in DOMAIN f : LineIsBad(f, l)

\* The columns of a well-formed file; none for an empty one.
Columns(f) ==
    IF f = <<>> THEN <<>>
    ELSE [c \in 1 .. Len(f[1]) |-> [l \in DOMAIN f |-> f[l][c]]]

Init ==
    /\ text \in Texts
    /\ status = "reading"
    /\ pool = <<>>

Read ==
    /\ status = "reading"
    /\ IF Malformed(FileOf(text))
          THEN status' = "failed" /\ pool' = <<>>
          ELSE status' = "ok" /\ pool' = Columns(FileOf(text))
    /\ UNCHANGED text

Spec == Init /\ [][Read]_vars

=============================================================================
