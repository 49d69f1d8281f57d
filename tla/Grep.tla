-------------------------------- MODULE Grep --------------------------------
(***************************************************************************)
(* user/grep.c: a line buffer filled by read()s of any length, and the     *)
(* recursive matcher of ^ . * $ patterns.  A text is a sequence of         *)
(* characters, "n" the newline.                                            *)
(***************************************************************************)
EXTENDS Integers, Sequences

CONSTANTS
  Cases,     \* pairs of a pattern and an input
  BUFSIZE    \* sizeof(buf)

VARIABLES
  re, text,  \* the pattern and the input
  pos,       \* characters read so far
  buf,       \* the m characters in the buffer
  out,       \* lines written
  eof        \* read() has returned 0

grepvars == <<re, text, pos, buf, out, eof>>

GrepStart == pos = 0 /\ buf = <<>> /\ out = <<>> /\ eof = FALSE
GrepInit == (\E c \in Cases : re = c[1] /\ text = c[2]) /\ GrepStart

-----------------------------------------------------------------------------
From(s, i) == SubSeq(s, i, Len(s))

RECURSIVE matchhere(_, _), matchstar(_, _, _)
matchhere(r, t) ==
  CASE r = <<>> -> TRUE
    [] Len(r) > 1 /\ r[2] = "*" -> matchstar(r[1], From(r, 3), t)
    [] r = <<"$">> -> t = <<>>
    [] OTHER -> t # <<>> /\ (r[1] = "." \/ r[1] = t[1]) /\ matchhere(Tail(r), Tail(t))
matchstar(c, r, t) ==
  matchhere(r, t) \/ (t # <<>> /\ (t[1] = c \/ c = ".") /\ matchstar(c, r, Tail(t)))
match(r, t) ==
  IF r # <<>> /\ r[1] = "^" THEN matchhere(Tail(r), t) ELSE \E i \in 1..Len(t) + 1 : matchhere(r, From(t, i))

\* The complete lines of b, and what follows the last of them.
RECURSIVE lines(_)
lines(b) ==
  IF \A i \in 1..Len(b) : b[i] # "n" THEN <<>>
  ELSE LET q == CHOOSE i \in 1..Len(b) : b[i] = "n" /\ \A j \in 1..i - 1 : b[j] # "n"
       IN <<SubSeq(b, 1, q - 1)>> \o lines(From(b, q + 1))
kept_none(b) == <<>>
kept(b) == From(b, (CHOOSE i \in 0..Len(b) : (i = 0 \/ b[i] = "n") /\ \A j \in i + 1..Len(b) : b[j] # "n") + 1)

\* An iteration of grep()'s loop: read() returns some of what is there.
grep(n) ==
  LET b == buf \o SubSeq(text, pos + 1, pos + n) IN
  /\ ~eof
  /\ n \in 1..Len(text) - pos /\ n <= BUFSIZE - Len(buf) - 1
  /\ pos' = pos + n
  /\ out' = out \o SelectSeq(lines(b), LAMBDA t : match(re, t))
  /\ buf' = kept(b)
  /\ UNCHANGED <<re, text, eof>>
\* read() returns 0: at the end of the input, or asked for no bytes.
grep_end ==
  /\ ~eof
  /\ pos = Len(text) \/ Len(buf) = BUFSIZE - 1
  /\ eof' = TRUE
  /\ UNCHANGED <<re, text, pos, buf, out>>

GrepNext == (\E n \in 1..BUFSIZE : grep(n)) \/ grep_end

-----------------------------------------------------------------------------
(* The meaning of a pattern: a sequence of characters, each optionally     *)
(* starred, that the text can be cut along.                                *)
Star(r, i) == i < Len(r) /\ r[i + 1] = "*"
Is(c, x) == c = "." \/ c = x
RECURSIVE Reaches(_, _, _, _)
Reaches(r, i, t, j) ==      \* the pattern from i on matches at j
  IF i > Len(r) THEN TRUE
  ELSE IF Star(r, i) THEN \E k \in j..Len(t) + 1 : (\A x \in j..k - 1 : Is(r[i], t[x])) /\ Reaches(r, i + 2, t, k)
  ELSE IF r[i] = "$" /\ i = Len(r) THEN j = Len(t) + 1
  ELSE j <= Len(t) /\ Is(r[i], t[j]) /\ Reaches(r, i + 1, t, j + 1)
Matches(r, t) ==
  IF r # <<>> /\ r[1] = "^" THEN Reaches(r, 2, t, 1) ELSE \E j \in 1..Len(t) + 1 : Reaches(r, 1, t, j)

\* The lines before the first that, with its newline, does not fit the buffer.
Fitting(ls) == SubSeq(ls, 1, CHOOSE k \in 0..Len(ls) : /\ \A i \in 1..k : Len(ls[i]) < BUFSIZE - 1
                                                       /\ k < Len(ls) => Len(ls[k + 1]) >= BUFSIZE - 1)

(* Whatever lengths read() returns, grep() writes the lines of the input   *)
(* that match, in order and whole, up to the first that does not fit its   *)
(* buffer, where it stops without a word; a last line without its newline  *)
(* is not looked at.                                                       *)
GrepExact == eof => out = SelectSeq(Fitting(lines(text)), LAMBDA t : Matches(re, t))
=============================================================================
