------------------------------ MODULE FsTests -------------------------------
(***************************************************************************)
(* The file system tests of user/usertests.c, and the user programs        *)
(* forphan, dorphan and init, as scripts of system calls with the results  *)
(* they insist on.  A loop runs a few times instead of many (N below, per  *)
(* test), a buffer is a few cells, and descriptors 0, 1, 2 are free, since *)
(* the console is not opened first.                                        *)
(***************************************************************************)
EXTENDS FsCalls, SequencesExt

CREATE == {"CREATE"}
RDONLY == {}
WRONLY == {"WRONLY"}
RDWR   == {"RDWR"}
TRUNC  == {"TRUNC"}

\* The calls f(1), ..., f(n) one after the other.
Loop(n, f(_)) == FlattenSeq([k \in 1 .. n |-> f(k)])

\* A buffer of n cells v, and the k-th of a family of names.
Fill(v, n) == [k \in 1 .. n |-> v]
Name(s, k) == <<<<"b0", "b1", "b2", "b3", "b4", "b5">>, <<"z0", "z1", "z2", "z3", "z4", "z5", "z6">>,
                <<"p0", "p1", "p2">>, <<"q0", "q1", "q2">>, <<"C0", "C1">>>>[s][k]

\* close(open(path, mode)), when it opens: descriptor fd.
OpenClose(path, mode, fd, want) == <<open(path, mode, want), close(fd)>>

---------------------------------------------------------------------------
(* One process.                                                            *)

truncate1 == LET tf == <<"tf">> IN Do(<<
    unlink(tf, Whatever),
    open(tf, CREATE \cup WRONLY \cup TRUNC, 0), write(0, <<1, 2, 3, 4>>, 4), close(0),
    open(tf, RDONLY, 0), read(0, 10, 4, {<<1, 2, 3, 4>>}),
    open(tf, WRONLY \cup TRUNC, 1), open(tf, RDONLY, 2), read(2, 10, 0, {}),
    read(0, 10, 0, {}),
    write(1, <<1, 2, 3, 4, 5, 6>>, 6), read(2, 10, 6, {}), read(0, 10, 2, {<<5, 6>>}),
    unlink(tf, 0), close(1), close(0), close(2)>>)

truncate2 == LET tf == <<"tf">> IN Do(<<
    unlink(tf, Whatever),
    open(tf, CREATE \cup TRUNC \cup WRONLY, 0), write(0, <<1, 2, 3, 4>>, 4),
    open(tf, TRUNC \cup WRONLY, 1), write(0, <<9>>, -1),
    unlink(tf, 0), close(0), close(1)>>)

iputtest == Do(<<
    mkdir(<<"id">>, 0), chdir(<<"id">>, 0), unlink(<<"..", "id">>, 0), chdir(<<"/">>, 0)>>)

opentest == Do(OpenClose(<<"echo">>, RDONLY, 0, Ok) \o <<open(<<"none">>, RDONLY, -1)>>)

\* N = 3, SZ = 2
writetest == Do(<<open(<<"small">>, CREATE \cup RDWR, 0)>>
    \o Loop(3, LAMBDA k : <<write(0, <<1, 1>>, 2), write(0, <<2, 2>>, 2)>>)
    \o <<close(0), open(<<"small">>, RDONLY, 0),
         read(0, 12, 12, {<<1, 1, 2, 2, 1, 1, 2, 2, 1, 1, 2, 2>>}),
         close(0), unlink(<<"small">>, 0)>>)

\* Block by block up to the largest file; bs and maxfile are BSIZE and MAXFILE.
writebig(bs, maxfile) == Do(<<open(<<"big">>, CREATE \cup RDWR, 0)>>
    \o Loop(maxfile, LAMBDA k : <<write(0, Fill(k, bs), bs)>>)
    \o <<write(0, <<1>>, -1), close(0), open(<<"big">>, RDONLY, 0)>>
    \o Loop(maxfile, LAMBDA k : <<read(0, bs, bs, {Fill(k, bs)})>>)
    \o <<read(0, bs, 0, {}), close(0), unlink(<<"big">>, 0)>>)

\* N = 4
createtest == Do(Loop(4, LAMBDA k : OpenClose(<<Name(1, k)>>, CREATE \cup RDWR, 0, Whatever))
    \o Loop(4, LAMBDA k : <<unlink(<<Name(1, k)>>, Whatever)>>))

dirtest == Do(<<
    mkdir(<<"dir0">>, 0), chdir(<<"dir0">>, 0), chdir(<<"..">>, 0), unlink(<<"dir0">>, 0)>>)

unlinkread == LET u == <<"ur">> IN Do(<<
    open(u, CREATE \cup RDWR, 0), write(0, <<7, 6, 5, 5, 4>>, 5), close(0),
    open(u, RDWR, 0), unlink(u, 0),
    open(u, CREATE \cup RDWR, 1), write(1, <<3, 3, 3>>, 3), close(1),
    read(0, 20, 5, {<<7, 6, 5, 5, 4>>}), write(0, Fill(1, 10), 10),
    close(0), unlink(u, 0)>>)

linktest == LET a == <<"lf1">> b == <<"lf2">> IN Do(<<
    unlink(a, Whatever), unlink(b, Whatever),
    open(a, CREATE \cup RDWR, 0), write(0, Fill(1, 5), 5), close(0),
    link(a, b, 0), unlink(a, 0), open(a, RDONLY, -1),
    open(b, RDONLY, 0), read(0, 20, 5, {}), close(0),
    link(b, b, -1), unlink(b, 0), link(b, a, -1), link(<<".">>, a, -1)>>)

subdir == LET d(x) == <<"dd">> \o x IN Do(<<
    unlink(<<"ff">>, Whatever), mkdir(d(<<>>), 0),
    open(d(<<"ff">>), CREATE \cup RDWR, 0), write(0, <<1, 1>>, 2), close(0),
    unlink(d(<<>>), -1), mkdir(<<"/", "dd", "dd">>, 0),
    open(d(<<"dd", "ff">>), CREATE \cup RDWR, 0), write(0, <<2, 2>>, 2), close(0),
    open(d(<<"dd", "..", "ff">>), RDONLY, 0), read(0, 20, 2, {<<1, 1>>}), close(0),
    link(d(<<"dd", "ff">>), d(<<"dd", "ffff">>), 0), unlink(d(<<"dd", "ff">>), 0),
    open(d(<<"dd", "ff">>), RDONLY, -1),
    chdir(d(<<>>), 0), chdir(<<"dd", "..", "..", "dd">>, 0),
    chdir(<<"dd", "..", "..", "..", "dd">>, 0), chdir(<<".", "..">>, 0),
    open(d(<<"dd", "ffff">>), RDONLY, 0), read(0, 20, 2, {}), close(0),
    open(d(<<"dd", "ff">>), RDONLY, -1),
    open(d(<<"ff", "ff">>), CREATE \cup RDWR, -1), open(d(<<"xx", "ff">>), CREATE \cup RDWR, -1),
    open(d(<<>>), CREATE, -1), open(d(<<>>), RDWR, -1), open(d(<<>>), WRONLY, -1),
    link(d(<<"ff", "ff">>), d(<<"dd", "xx">>), -1),
    link(d(<<"xx", "ff">>), d(<<"dd", "xx">>), -1),
    link(d(<<"ff">>), d(<<"dd", "ffff">>), -1),
    mkdir(d(<<"ff", "ff">>), -1), mkdir(d(<<"xx", "ff">>), -1), mkdir(d(<<"dd", "ffff">>), -1),
    unlink(d(<<"xx", "ff">>), -1), unlink(d(<<"ff", "ff">>), -1),
    chdir(d(<<"ff">>), -1), chdir(d(<<"xx">>), -1),
    unlink(d(<<"dd", "ffff">>), 0), unlink(d(<<"ff">>), 0), unlink(d(<<>>), -1),
    unlink(d(<<"dd">>), 0), unlink(d(<<>>), 0)>>)

\* sz = 7, 11: not a multiple of the block size, over one transaction.
bigwrite == LET b == <<"bw">>
                round(sz) == <<open(b, CREATE \cup RDWR, 0), write(0, Fill(1, sz), sz),
                               write(0, Fill(2, sz), sz), close(0), unlink(b, 0)>>
            IN  Do(<<unlink(b, Whatever)>> \o round(7) \o round(11))

\* N = 3, SZ = 6
bigfile == LET b == <<"bf">> IN Do(<<unlink(b, Whatever), open(b, CREATE \cup RDWR, 0)>>
    \o Loop(3, LAMBDA k : <<write(0, Fill(k, 6), 6)>>)
    \o <<close(0), open(b, RDONLY, 0)>>
    \o Loop(6, LAMBDA k : <<read(0, 3, 3, {Fill((k + 1) \div 2, 3)})>>)
    \o <<read(0, 3, 0, {}), close(0), unlink(b, 0)>>)

fourteen == LET a == "12345678901234" b == "123456789012345" IN Do(<<
    mkdir(<<a>>, 0), mkdir(<<a, b>>, 0),
    open(<<b, b, b>>, CREATE, 0), close(0), open(<<a, a, a>>, RDONLY, 0), close(0),
    mkdir(<<a, a>>, -1), mkdir(<<b, a>>, -1),
    unlink(<<b, a>>, Whatever), unlink(<<a, a>>, Whatever), unlink(<<a, a, a>>, Whatever),
    unlink(<<b, b, b>>, Whatever), unlink(<<a, b>>, Whatever), unlink(<<a>>, Whatever)>>)

rmdot == LET d == <<"dots">> IN Do(<<
    mkdir(d, 0), chdir(d, 0), unlink(<<".">>, -1), unlink(<<"..">>, -1), chdir(<<"/">>, 0),
    unlink(d \o <<".">>, -1), unlink(d \o <<"..">>, -1), unlink(d, 0)>>)

dirfile == LET f == <<"df">> x == <<"df", "xx">> IN Do(<<
    open(f, CREATE, 0), close(0), chdir(f, -1),
    open(x, RDONLY, -1), open(x, CREATE, -1), mkdir(x, -1), unlink(x, -1),
    link(<<"README">>, x, -1), unlink(f, 0),
    open(<<".">>, RDWR, -1), open(<<".">>, RDONLY, 0), write(0, <<1>>, -1), close(0)>>)

\* NINODE + 1 rounds there, 2 here: a lost reference shows in the table.
iref == LET round == <<mkdir(<<"ir">>, 0), chdir(<<"ir">>, 0), mkdir(<<>>, -1),
                       link(<<"README">>, <<>>, -1), open(<<>>, CREATE, -1),
                       open(<<"xx">>, CREATE, 0), close(0), unlink(<<"xx">>, 0)>>
            undo  == <<chdir(<<"..">>, 0), unlink(<<"ir">>, 0)>>
        IN  Do(round \o round \o undo \o undo \o <<chdir(<<"/">>, 0)>>)

\* N = 5: the names take the root directory into its indirect block.
bigdir == LET x == <<"bd">> IN Do(<<unlink(x, Whatever), open(x, CREATE, 0), close(0)>>
    \o Loop(5, LAMBDA k : <<link(x, <<Name(2, k)>>, 0)>>)
    \o <<unlink(x, 0)>>
    \o Loop(5, LAMBDA k : <<unlink(<<Name(2, k)>>, 0)>>))

\* assumed_free = 4
badwrite == LET j == <<"junk">> IN Do(<<unlink(j, Whatever)>>
    \o Loop(4, LAMBDA k : <<open(j, CREATE \cup WRONLY, 0), writebad(0, 1), close(0),
                            unlink(j, 0)>>)
    \o <<open(j, CREATE \cup WRONLY, 0), write(0, <<1>>, 1), close(0), unlink(j, 0)>>)

\* Two big files, the second short; then names until the directory cannot
\* grow, and a directory that cannot have its block.
diskfull(bs, maxfile) == LET full(k) == <<Name(1, k)>> zz(k) == <<Name(2, k)>> IN Do(
    <<unlink(<<"dfd">>, Whatever), open(full(1), CREATE \cup RDWR \cup TRUNC, 0)>>
    \o Loop(maxfile, LAMBDA k : <<write(0, Fill(1, bs), bs)>>)
    \o <<close(0), open(full(2), CREATE \cup RDWR \cup TRUNC, 0)>>
    \o Loop(2, LAMBDA k : <<write(0, Fill(2, bs), Whatever)>>) \o <<close(0)>>
    \o Loop(2, LAMBDA k : <<unlink(zz(k), Whatever),
                            open(zz(k), CREATE \cup RDWR \cup TRUNC, Whatever), close(0)>>)
    \o <<mkdir(<<"dfd">>, -1), unlink(<<"dfd">>, Whatever)>>
    \o Loop(2, LAMBDA k : <<unlink(zz(k), Whatever), unlink(full(k), 0)>>))

\* N = 7, more than there are free inodes.
outofinodes == Do(
    Loop(7, LAMBDA k : <<unlink(<<Name(2, k)>>, Whatever),
                         open(<<Name(2, k)>>, CREATE \cup RDWR \cup TRUNC, Whatever), close(0)>>)
    \o Loop(7, LAMBDA k : <<unlink(<<Name(2, k)>>, Whatever)>>))

\* init up to its fork; sh is echo here.
init == Do(<<open(<<"console">>, RDWR, -1), mknod(<<"console">>, 1),
             open(<<"console">>, RDWR, 0), dup(0, 1), dup(0, 2),
             fork(Do(<<exec(<<"echo">>, 0), exec(<<"README">>, -1), exec(<<"none">>, -1), exit>>)),
             wait>>)

\* Not a test of the repository: descriptors that are not open or have the
\* wrong mode, and the largest file in one write, then one byte more.
edges(size) == Do(<<dup(0, -1), read(0, 1, -1, {}), write(2, <<1>>, -1), close(1),
    open(<<"README">>, RDONLY, 0), write(0, <<1>>, -1), dup(0, 1),
    read(1, 1, 1, {}), read(0, 9, 0, {}), dup(1, 2), dup(2, -1), close(0), close(1),
    open(<<"one">>, CREATE \cup RDWR, 0), write(0, Fill(1, size), size), write(0, <<1>>, -1),
    close(0), unlink(<<"one">>, 0)>>)

---------------------------------------------------------------------------
(* Several processes.                                                      *)

\* Forks until there is no process left, then waits for each child.
forktest == Do(<<fork(Do(<<exit>>)), fork(Do(<<exit>>)),
                 [fork(<<>>) EXCEPT !.want = -1], wait, wait, [wait EXCEPT !.want = -1]>>)

\* Two rounds in the parent, one in the child, instead of 150 and 100.
truncate3 == LET tf == <<"tf">>
                 child == Do(<<open(tf, WRONLY, 0), write(0, Fill(1, 5), 5), close(0),
                               open(tf, RDONLY, 0), read(0, 10, Whatever, {}), close(0), exit>>)
                 round == <<open(tf, CREATE \cup WRONLY \cup TRUNC, 0),
                            write(0, Fill(2, 3), 3), close(0)>>
             IN  Do(OpenClose(tf, CREATE \cup TRUNC \cup WRONLY, 0, 0) \o <<fork(child)>>
                    \o round \o <<wait, unlink(tf, 0)>>)

exitiputtest == Do(<<
    fork(Do(<<mkdir(<<"id">>, 0), chdir(<<"id">>, 0), unlink(<<"..", "id">>, 0), exit>>)),
    wait>>)

openiputtest == Do(<<
    mkdir(<<"oi">>, 0), fork(Do(<<open(<<"oi">>, RDWR, -1), exit>>)),
    unlink(<<"oi">>, 0), wait>>)

\* N = 2, SZ = 3
sharedfd == LET f == <<"sf">>
                puts(v) == Loop(2, LAMBDA k : <<write(0, Fill(v, 3), 3)>>)
                mixed == {s \in [1 .. 12 -> {1, 2}] :
                            \A k \in 0 .. 3 : \A j \in 1 .. 3 : s[3 * k + j] = s[3 * k + 1]}
                fair  == {s \in mixed : Len(SelectSeq(s, LAMBDA v : v = 1)) = 6}
            IN  Do(<<unlink(f, Whatever), open(f, CREATE \cup RDWR, 0),
                     fork(Do(puts(2) \o <<exit>>))>> \o puts(1)
                   \o <<wait, close(0), open(f, RDONLY, 0), read(0, 12, 12, fair),
                        close(0), unlink(f, 0)>>)

\* NCHILD = 2, N = 1, SZ = 5
fourfiles == LET child(k) == Do(<<open(<<Name(1, k)>>, CREATE \cup RDWR, 0),
                                  write(0, Fill(k, 5), 5), exit>>)
             IN  Do(Loop(2, LAMBDA k : <<unlink(<<Name(1, k)>>, Whatever), fork(child(k))>>)
                    \o <<wait, wait>>
                    \o Loop(2, LAMBDA k : <<open(<<Name(1, k)>>, RDONLY, 0),
                                            read(0, 5, 5, {Fill(k, 5)}),
                                            close(0), unlink(<<Name(1, k)>>, 0)>>))

\* NCHILD = 1, N = 3
createdelete == LET name(i) == <<Name(3, i + 1)>>
                    create(i) == OpenClose(name(i), CREATE \cup RDWR, 0, 0)
                IN  Do(<<fork(Do(create(0) \o create(1) \o create(2) \o <<unlink(name(1), 0), exit>>)), wait>>
                       \o OpenClose(name(0), RDONLY, 0, 0)
                       \o <<open(name(1), RDONLY, -1)>>
                       \o OpenClose(name(2), RDONLY, 0, 0)
                       \o <<unlink(name(0), 0), unlink(name(2), 0)>>)

\* N = 2: both create C0; both link it to C1; the child opens C0 twice and
\* unlinks C1 twice while the parent unlinks and opens.
concreate ==
    LET C(k) == <<Name(5, k)>>
        opens(k)   == OpenClose(C(k), RDONLY, 0, Whatever)
        unlinks(k) == <<unlink(C(k), Whatever), unlink(C(k), Whatever)>>
    IN  Do(<<unlink(C(1), Whatever), fork(Do(OpenClose(C(1), CREATE \cup RDWR, 0, 0) \o <<exit>>))>>
           \o OpenClose(C(1), CREATE \cup RDWR, 0, 0) \o <<wait,
             unlink(C(2), Whatever), fork(Do(<<link(C(1), C(2), Whatever), exit>>)),
             link(C(1), C(2), Whatever), wait,
             open(C(1), RDONLY, 0), fstat(0, {<<5, 2, 0>>}), close(0),
             fork(Do(opens(1) \o <<exit>>))>> \o unlinks(1) \o <<wait,
             fork(Do(unlinks(2) \o <<exit>>))>> \o opens(2) \o <<wait>>)

\* One random choice in the parent, n in the child, instead of 100 each.
linkunlink(n) ==
    LET x == <<"x">>
        choice == {OpenClose(x, CREATE \cup RDWR, 0, Whatever),
                   <<link(<<"cat">>, x, Whatever)>>, <<unlink(x, Whatever)>>}
    IN  Do(<<unlink(x, Whatever), fork(Repeat(n, choice) \o Do(<<exit>>))>>)
        \o Repeat(1, choice) \o Do(<<wait>>)

\* Cases of go that make and remove the directory a, without grindir, which
\* only lengthens the paths: what = 3, 9 and 20.
go3  == <<unlink(<<"a">>, Whatever)>>
go9  == <<mkdir(<<"a">>, Whatever), open(<<"a", "a">>, CREATE \cup RDWR, Whatever),
          close(0), unlink(<<"a", "a">>, Whatever)>>
go20 == <<unlink(<<"a">>, Whatever), mkdir(<<"a">>, Whatever), chdir(<<"a">>, Whatever),
          unlink(<<"..", "a">>, Whatever),
          open(<<"x">>, CREATE \cup RDWR, Whatever), unlink(<<"x">>, Whatever)>>

\* iter: two processes, each with one choice here.
grind == LET go(cases) == Repeat(1, cases) \o Do(<<exit>>)
         IN  Do(<<fork(go({go9, go20})), fork(go({go3})), wait, wait>>)

---------------------------------------------------------------------------
(* Programs that end in a crash; and what a boot after it must find.       *)

forphan == Do(<<open(<<"file0">>, CREATE \cup WRONLY, 0), fstat(0, {<<5, 1, 0>>}),
                unlink(<<"file0">>, 0), open(<<"file0">>, RDONLY, -1)>>)

dorphan == Do(<<mkdir(<<"dd">>, 0), chdir(<<"dd">>, 0), unlink(<<"..", "dd">>, 0)>>)

\* Three processes each writing a file of their own.
logstress == LET child(k) == Do(<<open(<<Name(1, k)>>, CREATE \cup RDWR, 0),
                                  write(0, Fill(k, 6), 6), exit>>)
             IN  Do(<<fork(child(1)), fork(child(2)), wait, wait>>)
=============================================================================
