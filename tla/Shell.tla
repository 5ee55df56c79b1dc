-------------------------------- MODULE Shell -------------------------------
(***************************************************************************)
(* The shell (sh.c): parsing of a command line and what runcmd does with   *)
(* it, as a program.  A line is a sequence of tokens, which is what        *)
(* gettoken makes of its characters: words and | & ; < > + ( ), where +    *)
(* stands for >>.  A parser returns a command and the tokens it has left.  *)
(***************************************************************************)
EXTENDS SysCalls, Processes

MAXARGS == 10

Word(t) == t \notin {"|", "&", ";", "<", ">", "+", "(", ")"}
peek(ts, toks) == ts # << >> /\ ts[1] \in toks

\* panic: the forked shell that parses the line exits.
Panic == [type |-> "PANIC"]
Parsed(cmd, ts) == [cmd |-> cmd, ts |-> ts]
IsPanic(r) == r.cmd.type = "PANIC"
panic == Parsed(Panic, << >>)

execcmd(argv)     == [type |-> "EXEC", argv |-> argv]
redircmd(cmd, tok, f) == [type |-> "REDIR", cmd |-> cmd, file |-> f,
                          mode |-> IF tok = "<" THEN "RDONLY" ELSE "WRONLY",
                          fd |-> IF tok = "<" THEN 0 ELSE 1]
pipecmd(l, r)     == [type |-> "PIPE", left |-> l, right |-> r]
listcmd(l, r)     == [type |-> "LIST", left |-> l, right |-> r]
backcmd(cmd)      == [type |-> "BACK", cmd |-> cmd]

RECURSIVE parseredirs(_, _), parseargs(_, _, _), backs(_), parseexec(_), parsepipe(_), parseline(_)

\* The redirections at the front of ts, each around the command so far.
parseredirs(cmd, ts) ==
  IF ~peek(ts, {"<", ">", "+"}) THEN Parsed(cmd, ts)
  ELSE IF Len(ts) < 2 \/ ~Word(ts[2]) THEN panic
  ELSE parseredirs(redircmd(cmd, ts[1], ts[2]), Tail(Tail(ts)))

\* parseexec's loop.  redirs are the tokens of the redirections seen so far: in the
\* code the redirections wrap a command to which arguments are still added.
parseargs(argv, redirs, ts) ==
  LET n == CHOOSE k \in 0 .. Len(ts) : /\ k % 2 = 0
                                       /\ ~peek(SubSeq(ts, k + 1, Len(ts)), {"<", ">", "+"})
                                       /\ \A j \in 0 .. k - 1 : j % 2 = 0 => ts[j + 1] \in {"<", ">", "+"}
      all == redirs \o SubSeq(ts, 1, n)
      rest == SubSeq(ts, n + 1, Len(ts))
  IN  IF parseredirs(execcmd(argv), ts).cmd.type = "PANIC" THEN panic
      ELSE IF rest = << >> \/ peek(rest, {"|", ")", "&", ";"})
           THEN Parsed(parseredirs(execcmd(argv), all).cmd, rest)
      ELSE IF ~Word(rest[1]) \/ Len(argv) + 1 >= MAXARGS THEN panic
      ELSE parseargs(Append(argv, rest[1]), all, Tail(rest))

\* parseexec and parseblock.
parseexec(ts) ==
  LET block == parseline(Tail(ts)) IN
  IF ~peek(ts, {"("}) THEN parseargs(<< >>, << >>, ts)
  ELSE IF IsPanic(block) \/ ~peek(block.ts, {")"}) THEN panic
  ELSE parseredirs(block.cmd, Tail(block.ts))

parsepipe(ts) ==
  LET l == parseexec(ts)  r == parsepipe(Tail(l.ts)) IN
  IF IsPanic(l) \/ ~peek(l.ts, {"|"}) THEN l
  ELSE IF IsPanic(r) THEN panic ELSE Parsed(pipecmd(l.cmd, r.cmd), r.ts)

backs(r) == IF peek(r.ts, {"&"}) THEN backs(Parsed(backcmd(r.cmd), Tail(r.ts))) ELSE r

parseline(ts) ==
  LET l == parsepipe(ts)  b == backs(l)  r == parseline(Tail(b.ts)) IN
  IF IsPanic(l) \/ ~peek(b.ts, {";"}) THEN IF IsPanic(l) THEN l ELSE b
  ELSE IF IsPanic(r) THEN panic ELSE Parsed(listcmd(b.cmd, r.cmd), r.ts)

parsecmd(ts) == LET r == parseline(ts) IN IF IsPanic(r) \/ r.ts # << >> THEN Panic ELSE r.cmd

-----------------------------------------------------------------------------
(* Running a command *)

\* Mutant: the shell keeps the write end of its pipe open while it waits.
CloseBothNot == <<close(ReadEnd)>>
CloseBoth == <<close(ReadEnd), close(WriteEnd)>>

RECURSIVE runcmd(_)
runcmd(cmd) ==
  CASE cmd.type = "PANIC" -> << >>
    [] cmd.type = "EXEC" ->
         IF cmd.argv = << >> THEN << >> ELSE <<call("exec", rel(<<cmd.argv[1]>>), "must")>>
    [] cmd.type = "REDIR" ->
         <<close(cmd.fd), IF cmd.mode = "RDONLY" THEN open(rel(<<cmd.file>>), cmd.mode, "must")
                          ELSE creat(rel(<<cmd.file>>), cmd.mode, "must")>> \o runcmd(cmd.cmd)
    [] cmd.type = "LIST" ->
         <<fork(runcmd(cmd.left), "must"), wait("any")>> \o runcmd(cmd.right)
    [] cmd.type = "PIPE" ->
         <<call("pipe", 0, "must"),
           fork(<<close(1), dup(WriteEnd), close(ReadEnd), close(WriteEnd)>> \o runcmd(cmd.left), "must"),
           fork(<<close(0), dup(ReadEnd), close(ReadEnd), close(WriteEnd)>> \o runcmd(cmd.right), "must")>>
         \o CloseBoth \o <<wait("any"), wait("any")>>
    [] cmd.type = "BACK" -> <<fork(runcmd(cmd.cmd), "must")>>

\* What main does with one line: cd is the shell's own, all else is a child's.
Line(ts) == IF peek(ts, {"cd"}) THEN <<chdir(rel(Tail(ts)), "any")>>
            ELSE <<fork(runcmd(parsecmd(ts)), "must"), wait("any")>>

\* The programs the shell is asked to run: echo writes its argument, wc reads its
\* input to the end and writes the counts.
echo == <<write(1, 1, "any")>>
wc   == <<readall(0, 2, 0, "any"), write(1, 1, "any")>>
=============================================================================
