------------------------------ MODULE FsCalls -------------------------------
(***************************************************************************)
(* The file system calls a user program makes (user/user.h), as records    *)
(* that also hold the result the program insists on: a number, any         *)
(* non-negative number (Ok) or nothing (Whatever).  A path is a sequence   *)
(* of elements, "/" first in an absolute one; what a program writes is a   *)
(* sequence of numbers.                                                    *)
(***************************************************************************)
EXTENDS Integers, Sequences

Ok       == -101
Whatever == -100

NoCall == [op |-> "none", path |-> <<>>, new |-> <<>>, mode |-> {}, fd |-> 0,
           n |-> 0, buf |-> <<>>, child |-> <<>>, want |-> Whatever, data |-> {}]

\* mode is the set of flags of omode; {} is O_RDONLY.
open(path, mode, want) ==
    [NoCall EXCEPT !.op = "open", !.path = path, !.mode = mode, !.want = want]
mkdir(path, want)  == [NoCall EXCEPT !.op = "mkdir", !.path = path, !.want = want]
mknod(path, major) == [NoCall EXCEPT !.op = "mknod", !.path = path, !.n = major]
link(old, new, want) ==
    [NoCall EXCEPT !.op = "link", !.path = old, !.new = new, !.want = want]
unlink(path, want) == [NoCall EXCEPT !.op = "unlink", !.path = path, !.want = want]
chdir(path, want)  == [NoCall EXCEPT !.op = "chdir", !.path = path, !.want = want]
exec(path, want)   == [NoCall EXCEPT !.op = "exec", !.path = path, !.want = want]
close(fd)          == [NoCall EXCEPT !.op = "close", !.fd = fd]
dup(fd, want)      == [NoCall EXCEPT !.op = "dup", !.fd = fd, !.want = want]
write(fd, buf, want) ==
    [NoCall EXCEPT !.op = "write", !.fd = fd, !.buf = buf, !.want = want]
writebad(fd, len)  ==   \* a buffer address that is not mapped
    [NoCall EXCEPT !.op = "write", !.fd = fd, !.buf = [k \in 1 .. len |-> 0], !.n = -1]
fork(child)        == [NoCall EXCEPT !.op = "fork", !.child = child, !.want = Ok]
wait               == [NoCall EXCEPT !.op = "wait"]
exit               == [NoCall EXCEPT !.op = "exit"]

\* read of at most n cells; data holds the contents the program accepts, {}
\* when it does not look.  fstat the same, for <<ino, nlink, size>>.
read(fd, n, want, data) ==
    [NoCall EXCEPT !.op = "read", !.fd = fd, !.n = n, !.want = want, !.data = data]
fstat(fd, data) == [NoCall EXCEPT !.op = "fstat", !.fd = fd, !.want = 0, !.data = data]

\* The call returned what the program insists on.
Satisfied(call, ret, data) ==
    /\ CASE call.want = Whatever -> TRUE
         [] call.want = Ok       -> ret >= 0
         [] OTHER                -> ret = call.want
    /\ call.data # {} => data \in call.data

\* Scripts: a list of calls in order; n times a choice between lists.
Do(calls)      == <<{calls}>>
Repeat(n, set) == [k \in 1 .. n |-> set]
=============================================================================
