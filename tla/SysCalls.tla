------------------------------ MODULE SysCalls -------------------------------
(***************************************************************************)
(* System calls as data: a program is a sequence of them.  e says what the *)
(* program expects: "any", "ok" (else a test has failed), "no" (it has     *)
(* failed if the call succeeds), "must" (else it exits).  alt is what it   *)
(* does instead of the rest when a call that must succeed does not.        *)
(***************************************************************************)
EXTENDS Sequences, Integers

call(c, a, e) == [c |-> c, a |-> a, e |-> e, alt |-> << >>]
Or(c, prog) == [c EXCEPT !.alt = prog]

rel(e) == [abs |-> FALSE, e |-> e]
abs(e) == [abs |-> TRUE, e |-> e]

open(path, mode, e)  == call("open", [path |-> path, mode |-> mode, create |-> FALSE], e)
creat(path, mode, e) == call("open", [path |-> path, mode |-> mode, create |-> TRUE], e)

\* A read that has to return want bytes, and reads of n bytes each until nothing comes
\* any more that have to return total bytes together.
readsome(fd, n, want, e)  == call("read", [fd |-> fd, n |-> n, all |-> FALSE, want |-> want], e)
read(fd, n, e)            == readsome(fd, n, n, e)
readall(fd, n, total, e)  == call("read", [fd |-> fd, n |-> n, all |-> TRUE, want |-> total], e)

write(fd, n, e)  == call("write", [fd |-> fd, n |-> n], e)
link(old, new, e) == call("link", [old |-> old, new |-> new], e)
close(fd) == call("close", fd, "any")
dup(fd)   == call("dup", fd, "any")
mkdir(path, e)  == call("mkdir", path, e)
unlink(path, e) == call("unlink", path, e)
chdir(path, e)  == call("chdir", path, e)
fork(prog, e)   == call("fork", prog, e)
wait(e) == call("wait", 0, e)
spin == call("spin", 0, "any")               \* for(;;): only a signal ends it
=============================================================================
