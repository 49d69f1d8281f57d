------------------------------- MODULE Shell --------------------------------
(***************************************************************************)
(* The shell, user/sh.c: the recursive-descent parser of a command line,   *)
(* and the processes, descriptors and pipes with which runcmd() carries    *)
(* out the command.                                                        *)
(*                                                                         *)
(* A line is a sequence of characters: " " stands for whitespace, "a" for  *)
(* an ordinary character.  A command is <<"EXEC", argv>>, <<"REDIR", cmd,  *)
(* file, op>>, <<"PIPE", left, right>>, <<"LIST", left, right>> or         *)
(* <<"BACK", cmd>>.                                                        *)
(***************************************************************************)
EXTENDS Integers, Sequences, FiniteSets

CONSTANTS
  Inputs,       \* the lines that are parsed
  RunInputs,    \* the ones of them that are also run
  MAXARGS,
  Pids,        \* processes 1.. that a line may use
  NFD,         \* descriptors per process
  MaxFaults    \* bound on the calls to fork(), open(), exec() and pipe() that fail

Symbols == {"<", "|", ">", "&", ";", "(", ")"}
NUL == "0"

-----------------------------------------------------------------------------
(* The parser.  A position is an index into the line; past its end is the  *)
(* terminating NUL.  A result r has ok = FALSE where the code panics.      *)

char(l, s) == IF s > Len(l) THEN NUL ELSE l[s]

RECURSIVE skip(_, _), word_end(_, _)
skip(l, s) == IF char(l, s) = " " THEN skip(l, s + 1) ELSE s
word_end(l, s) == IF char(l, s) \in Symbols \union {" ", NUL} THEN s ELSE word_end(l, s + 1)

token(l, ret, q, eq) == [ret |-> ret, q |-> q, eq |-> eq, s |-> skip(l, eq)]
token_at(l, s) ==
  CASE char(l, s) = NUL -> token(l, NUL, s, s)
    [] char(l, s) = ">" /\ char(l, s + 1) = ">" -> token(l, "+", s, s + 2)
    [] char(l, s) \in Symbols /\ (char(l, s) = ">" => char(l, s + 1) # ">") -> token(l, char(l, s), s, s + 1)
    [] OTHER -> token(l, "a", s, word_end(l, s))
gettoken(l, s) == token_at(l, skip(l, s))
peek(l, s, toks) == char(l, skip(l, s)) \in toks

Parsed(s, cmd) == [ok |-> TRUE, s |-> s, cmd |-> cmd]
Syntax == [ok |-> FALSE, s |-> 0, cmd |-> <<>>]

\* parseredirs() finds a list of <<file, op>>, a file being its <<q, eq>>.
RECURSIVE parseredirs(_, _), wrap(_, _)
redir_word(l, rs, op, f) ==
  IF f.ret # "a" THEN [ok |-> FALSE, s |-> 0, redirs |-> <<>>]
  ELSE parseredirs(l, [ok |-> TRUE, s |-> f.s, redirs |-> Append(rs, <<<<f.q, f.eq>>, op>>)])
redir_file(l, rs, tok) == redir_word(l, rs, tok.ret, gettoken(l, tok.s))
parseredirs(l, r) == IF r.ok /\ peek(l, r.s, {"<", ">"}) THEN redir_file(l, r.redirs, gettoken(l, r.s)) ELSE r
\* The first redirection is the innermost command.
wrap(cmd, rs) == IF rs = <<>> THEN cmd ELSE wrap(<<"REDIR", cmd, Head(rs)[1], Head(rs)[2]>>, Tail(rs))

too_many_off(argc) == argc > MAXARGS
too_many(argc) == argc >= MAXARGS

\* parseexec()'s loop: r holds the redirections so far, argv the words.
RECURSIVE exec_words(_, _, _)
exec_word(l, tok, r, argv) ==
  IF tok.ret = NUL THEN Parsed(tok.s, wrap(<<"EXEC", argv>>, r.redirs))
  ELSE IF tok.ret # "a" \/ too_many(Len(argv) + 1) THEN Syntax
  ELSE exec_words(l, parseredirs(l, [r EXCEPT !.s = tok.s]), Append(argv, <<tok.q, tok.eq>>))
exec_words(l, r, argv) ==
  IF ~r.ok THEN Syntax
  ELSE IF peek(l, r.s, {"|", ")", "&", ";"}) THEN Parsed(r.s, wrap(<<"EXEC", argv>>, r.redirs))
  ELSE exec_word(l, gettoken(l, r.s), r, argv)

RECURSIVE parseline(_, _), parsepipe(_, _), line_rest(_, _)
block_redirs(cmd, r) == IF r.ok THEN Parsed(r.s, wrap(cmd, r.redirs)) ELSE Syntax
block_end(l, r) ==
  IF r.ok /\ peek(l, r.s, {")"})
  THEN block_redirs(r.cmd, parseredirs(l, [ok |-> TRUE, s |-> gettoken(l, r.s).s, redirs |-> <<>>]))
  ELSE Syntax
parseblock(l, s) == block_end(l, parseline(l, gettoken(l, s).s))
parseexec(l, s) ==
  IF peek(l, s, {"("}) THEN parseblock(l, s)
  ELSE exec_words(l, parseredirs(l, [ok |-> TRUE, s |-> s, redirs |-> <<>>]), <<>>)

backcmd(s, cmd) == Parsed(s, <<"BACK", cmd>>)
both(kind, left, r) == IF r.ok THEN Parsed(r.s, <<kind, left, r.cmd>>) ELSE Syntax
pipe_rest(l, r) ==
  IF r.ok /\ peek(l, r.s, {"|"}) THEN both("PIPE", r.cmd, parsepipe(l, gettoken(l, r.s).s)) ELSE r
parsepipe(l, s) == pipe_rest(l, parseexec(l, s))
line_rest(l, r) ==
  CASE ~r.ok -> r
    [] r.ok /\ peek(l, r.s, {"&"}) -> line_rest(l, backcmd(gettoken(l, r.s).s, r.cmd))
    [] r.ok /\ peek(l, r.s, {";"}) -> both("LIST", r.cmd, parseline(l, gettoken(l, r.s).s))
    [] OTHER -> r
parseline(l, s) == line_rest(l, parsepipe(l, s))

\* nulterminate(): the positions that it overwrites with NUL, and the words
\* as they are then read.
RECURSIVE nulterminate(_), strings(_, _, _)
nulterminate(cmd) ==
  CASE cmd[1] = "EXEC" -> {cmd[2][i][2] : i \in 1..Len(cmd[2])}
    [] cmd[1] = "REDIR" -> nulterminate(cmd[2]) \union {cmd[3][2]}
    [] cmd[1] = "BACK" -> nulterminate(cmd[2])
    [] OTHER -> nulterminate(cmd[2]) \union nulterminate(cmd[3])
string(l, nuls, q) ==
  LET ends == {e \in q..Len(l) + 1 : e \in nuls \/ e = Len(l) + 1} IN
  SubSeq(l, q, (CHOOSE e \in ends : \A f \in ends : e <= f) - 1)
strings(l, nuls, cmd) ==
  CASE cmd[1] = "EXEC" -> <<"EXEC", [i \in 1..Len(cmd[2]) |-> string(l, nuls, cmd[2][i][1])]>>
    [] cmd[1] = "REDIR" -> <<"REDIR", strings(l, nuls, cmd[2]), string(l, nuls, cmd[3][1]), cmd[4]>>
    [] cmd[1] = "BACK" -> <<"BACK", strings(l, nuls, cmd[2])>>
    [] OTHER -> <<cmd[1], strings(l, nuls, cmd[2]), strings(l, nuls, cmd[3])>>

\* The set of the command; empty where parsecmd() panics.
accepted(l, r) == IF r.ok /\ skip(l, r.s) > Len(l) THEN {strings(l, nulterminate(r.cmd), r.cmd)} ELSE {}
parsecmd(l) == accepted(l, parseline(l, 1))

-----------------------------------------------------------------------------
(* The grammar, as the set of trees of a sequence of tokens.               *)

RECURSIVE Lex(_), Words(_, _, _), LineTrees(_), BackTrees(_), PipeTrees(_)
Lex(l) ==
  CASE l = <<>> -> <<>>
    [] l # <<>> /\ l[1] = " " -> Lex(Tail(l))
    [] Len(l) > 1 /\ l[1] = ">" /\ l[2] = ">" -> <<<<"+">>>> \o Lex(SubSeq(l, 3, Len(l)))
    [] l # <<>> /\ l[1] \in Symbols /\ ~(Len(l) > 1 /\ l[1] = ">" /\ l[2] = ">") -> <<<<l[1]>>>> \o Lex(Tail(l))
    [] OTHER -> LET n == CHOOSE k \in 1..Len(l) : /\ \A i \in 1..k : l[i] = "a"
                                                  /\ k = Len(l) \/ l[k + 1] # "a"
                IN <<SubSeq(l, 1, n)>> \o Lex(SubSeq(l, n + 1, Len(l)))
IsWord(t) == t[1] = "a"
IsRedir(t) == t \in {<<"<">>, <<">">>, <<"+">>}

\* t is words and redirections: their commands, around cmd if it is given.
Words(t, argv, rs) ==
  CASE t = <<>> -> IF Len(argv) < MAXARGS THEN {<<argv, rs>>} ELSE {}
    [] t # <<>> /\ IsWord(t[1]) -> Words(Tail(t), Append(argv, t[1]), rs)
    [] Len(t) > 1 /\ IsRedir(t[1]) /\ IsWord(t[2]) -> Words(SubSeq(t, 3, Len(t)), argv, Append(rs, <<t[2], t[1][1]>>))
    [] OTHER -> {}
Blocks(t) ==
  IF t = <<>> \/ t[1] # <<"(">> THEN {}
  ELSE UNION {{wrap(c, w[2]) : c \in LineTrees(SubSeq(t, 2, j - 1)), w \in {v \in Words(SubSeq(t, j + 1, Len(t)), <<>>, <<>>) : v[1] = <<>>}}
              : j \in {i \in 2..Len(t) : t[i] = <<")">>}}
ExecTrees(t) == {wrap(<<"EXEC", w[1]>>, w[2]) : w \in Words(t, <<>>, <<>>)} \union Blocks(t)
Splits(t, sep) == {i \in 1..Len(t) : t[i] = <<sep>>}
PipeTrees(t) ==
  ExecTrees(t) \union UNION {{<<"PIPE", a, b>> : a \in ExecTrees(SubSeq(t, 1, i - 1)), b \in PipeTrees(SubSeq(t, i + 1, Len(t)))}
                             : i \in Splits(t, "|")}
BackTrees(t) ==
  PipeTrees(t) \union (IF t # <<>> /\ t[Len(t)] = <<"&">> THEN {<<"BACK", c>> : c \in BackTrees(SubSeq(t, 1, Len(t) - 1))} ELSE {})
LineTrees(t) ==
  BackTrees(t) \union UNION {{<<"LIST", a, b>> : a \in BackTrees(SubSeq(t, 1, i - 1)), b \in LineTrees(SubSeq(t, i + 1, Len(t)))}
                             : i \in Splits(t, ";")}
-----------------------------------------------------------------------------
(* runcmd().  Process 0 is the shell that reads the line; a process whose  *)
(* parent exited belongs to init (-1), which reaps it.                     *)

VARIABLES
  line,
  shell,    \* main(): "prompt", "wait" for the child, "done"
  proc,     \* st, cmd, fd, par and pipe of the processes
  want,     \* what descriptors 0 and 1 of a process must be when it execs
  npipes,   \* pipes made so far
  faults

shellvars == <<line, shell, proc, want, npipes, faults>>

Shut == <<"none">>
Tty == <<"tty">>
Stdio == [f \in 0..NFD - 1 |-> IF f <= 2 THEN Tty ELSE Shut]
NoProc_ == [st |-> "none", cmd |-> <<>>, fd |-> [f \in 0..NFD - 1 |-> Shut], par |-> -1, pipe |-> <<>>]

ShellStart ==
  /\ shell = "prompt"
  /\ proc = [p \in Pids |-> NoProc_]
  /\ want = [p \in Pids |-> <<Tty, Tty>>]
  /\ npipes = 0 /\ faults = 0
ShellInit == line \in Inputs \union RunInputs /\ ShellStart

Lowest(S) == CHOOSE x \in S : \A y \in S : x <= y
Free_(fd) == {f \in 0..NFD - 1 : fd[f] = Shut}
FreePids == {p \in Pids : proc[p].st = "none"}
Closing(fd, S) == [f \in 0..NFD - 1 |-> IF f \in S THEN Shut ELSE fd[f]]
Duped(fd, k) == [fd EXCEPT ![Lowest(Free_(fd))] = fd[k]]
RunsA(p, kind) == proc[p].st = "run" /\ proc[p].cmd[1] = kind

Newborn(par, cmd, fd) == [st |-> "run", cmd |-> cmd, fd |-> fd, par |-> par, pipe |-> <<>>]
\* proc with c forked, or with p exited: its descriptors are closed, its
\* children go to init, and it waits for its parent unless that is init.
Forked(P, c, child) == [P EXCEPT ![c] = child]
Exited(P, p) ==
  [c \in Pids |->
    IF c = p THEN (IF P[p].par = -1 THEN NoProc_ ELSE [NoProc_ EXCEPT !.st = "zombie", !.par = P[p].par])
    ELSE IF P[c].par # p THEN P[c]
    ELSE IF P[c].st = "zombie" THEN NoProc_ ELSE [P[c] EXCEPT !.par = -1]]

\* A call fails: the process prints a message and exits.
fault(p) ==
  /\ faults < MaxFaults /\ faults' = faults + 1
  /\ proc' = Exited(proc, p)
  /\ UNCHANGED <<line, shell, want, npipes>>

exec_cmd(p) ==
  /\ RunsA(p, "EXEC")
  /\ IF proc[p].cmd[2] = <<>> THEN proc' = Exited(proc, p) ELSE proc' = [proc EXCEPT ![p].st = "exec"]
  /\ UNCHANGED <<line, shell, want, npipes, faults>>

redir_fd(op) == IF op = "<" THEN 0 ELSE 1
redir_cmd(p) ==
  LET c == proc[p].cmd
      fd == Closing(proc[p].fd, {redir_fd(c[4])}) IN
  /\ RunsA(p, "REDIR")
  /\ proc' = [proc EXCEPT ![p].fd = [fd EXCEPT ![Lowest(Free_(fd))] = <<"file", c[3]>>], ![p].cmd = c[2]]
  /\ want' = [want EXCEPT ![p][redir_fd(c[4]) + 1] = <<"file", c[3]>>]
  /\ UNCHANGED <<line, shell, npipes, faults>>

\* One child runs the left command; the same process goes on to the right.
list_cmd(p) ==
  LET c == Lowest(FreePids) IN
  /\ RunsA(p, "LIST") /\ FreePids # {}
  /\ proc' = Forked([proc EXCEPT ![p].st = "list"], c, Newborn(p, proc[p].cmd[2], proc[p].fd))
  /\ want' = [want EXCEPT ![c] = want[p]]
  /\ UNCHANGED <<line, shell, npipes, faults>>
back_cmd(p) ==
  LET c == Lowest(FreePids) IN
  /\ RunsA(p, "BACK") /\ FreePids # {}
  /\ proc' = Exited(Forked(proc, c, Newborn(p, proc[p].cmd[2], proc[p].fd)), p)
  /\ want' = [want EXCEPT ![c] = want[p]]
  /\ UNCHANGED <<line, shell, npipes, faults>>

\* The descriptors of the two children of a pipe with ends e.
pipe_left(fd, e) == Closing(Duped(Closing(fd, {1}), e[2]), {e[1], e[2]})
pipe_right_keeps(fd, e) == Closing(Duped(Closing(fd, {0}), e[1]), {e[1]})
pipe_right(fd, e) == Closing(Duped(Closing(fd, {0}), e[1]), {e[1], e[2]})

pipe_cmd(p) ==
  LET fd == proc[p].fd
      r == Lowest(Free_(fd))
      w == Lowest(Free_(fd) \ {r})
      both_ends == [fd EXCEPT ![r] = <<"r", npipes>>, ![w] = <<"w", npipes>>]
      c == Lowest(FreePids) IN
  /\ RunsA(p, "PIPE") /\ FreePids # {} /\ Cardinality(Free_(fd)) >= 2
  /\ npipes' = npipes + 1
  /\ proc' = Forked([proc EXCEPT ![p].st = "pipe", ![p].fd = both_ends, ![p].pipe = <<r, w>>],
                    c, Newborn(p, proc[p].cmd[2], pipe_left(both_ends, <<r, w>>)))
  /\ want' = [want EXCEPT ![c] = <<want[p][1], <<"w", npipes>>>>]
  /\ UNCHANGED <<line, shell, faults>>
pipe_second(p) ==
  LET c == Lowest(FreePids)
      e == proc[p].pipe IN
  /\ proc[p].st = "pipe" /\ FreePids # {}
  /\ proc' = Forked([proc EXCEPT ![p].st = "close"], c, Newborn(p, proc[p].cmd[3], pipe_right(proc[p].fd, e)))
  /\ want' = [want EXCEPT ![c] = <<proc[p].fd[e[1]], want[p][2]>>]
  /\ UNCHANGED <<line, shell, npipes, faults>>
pipe_close(p) ==
  /\ proc[p].st = "close"
  /\ proc' = [proc EXCEPT ![p].st = "wait2", ![p].fd = Closing(@, {proc[p].pipe[1], proc[p].pipe[2]})]
  /\ UNCHANGED <<line, shell, want, npipes, faults>>

\* wait(0) by p, of any child, or at once when there is none.
Waited(p, P) ==
  CASE proc[p].st = "list" -> [P EXCEPT ![p].st = "run", ![p].cmd = proc[p].cmd[3]]
    [] proc[p].st = "wait2" -> [P EXCEPT ![p].st = "wait1"]
    [] OTHER -> Exited(P, p)
wait(p) ==
  /\ proc[p].st \in {"list", "wait2", "wait1"}
  /\ \/ \E c \in Pids : proc[c].st = "zombie" /\ proc[c].par = p /\ proc' = Waited(p, [proc EXCEPT ![c] = NoProc_])
     \/ (\A c \in Pids : proc[c].par # p) /\ proc' = Waited(p, proc)
  /\ UNCHANGED <<line, shell, want, npipes, faults>>

\* External: a program that reads its standard input to the end, and exits.
program(p) ==
  /\ proc[p].st = "exec"
  /\ proc[p].fd[0][1] = "r" => \A q \in Pids, f \in 0..NFD - 1 : proc[q].fd[f] # <<"w", proc[p].fd[0][2]>>
  /\ proc' = Exited(proc, p)
  /\ UNCHANGED <<line, shell, want, npipes, faults>>

main_fork ==
  /\ shell = "prompt" /\ line \in RunInputs
  /\ shell' = "wait"
  /\ \E cmd \in parsecmd(line) : proc' = Forked(proc, Lowest(Pids), Newborn(0, cmd, Stdio))
  /\ UNCHANGED <<line, want, npipes, faults>>
main_wait ==
  /\ shell = "wait"
  /\ \E c \in Pids : proc[c].st = "zombie" /\ proc[c].par = 0 /\ proc' = [proc EXCEPT ![c] = NoProc_]
  /\ shell' = "done"
  /\ UNCHANGED <<line, want, npipes, faults>>

ShellNext ==
  \/ main_fork
  \/ main_wait
  \/ \E p \in Pids :
       \/ exec_cmd(p) \/ redir_cmd(p) \/ list_cmd(p) \/ back_cmd(p)
       \/ pipe_cmd(p) \/ pipe_second(p) \/ pipe_close(p)
       \/ wait(p)
       \/ program(p)
       \/ (proc[p].st \in {"run", "pipe"} /\ fault(p))

-----------------------------------------------------------------------------
(* What holds.                                                             *)

(* The parser accepts exactly the lines of the shell's grammar, builds the *)
(* command of the only tree that such a line has, and after nulterminate() *)
(* every argument and file name reads as the word that stood in the line,  *)
(* although the terminators are written over the line that was parsed.     *)
ParserExact == shell = "prompt" => parsecmd(line) = LineTrees(Lex(line))

(* A program starts with descriptors 0, 1 and 2 only, its input and output *)
(* being the pipe ends or files that the command says.  So no pipe end is  *)
(* left behind to hold back an end of file, and while any process of the   *)
(* line is left some process can go on: no pipeline hangs, and main()      *)
(* always gets back to the prompt, whichever calls fail.                   *)
PipelineCompletes ==
  /\ \A p \in Pids : proc[p].st = "exec" =>
       /\ \A f \in 0..NFD - 1 : (proc[p].fd[f] # Shut) = (f <= 2)
       /\ <<proc[p].fd[0], proc[p].fd[1]>> = want[p]
  /\ shell = "wait" \/ (\E p \in Pids : proc[p].st # "none") =>
       ENABLED (main_wait \/ \E p \in Pids : exec_cmd(p) \/ redir_cmd(p) \/ list_cmd(p) \/ back_cmd(p) \/ pipe_cmd(p)
                                             \/ pipe_second(p) \/ pipe_close(p) \/ wait(p) \/ program(p))
=============================================================================
