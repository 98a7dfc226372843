------------------------------ MODULE FileSys -------------------------------
(***************************************************************************)
(* The file system calls (kernel/sysfile.c, kernel/file.c, the concurrent  *)
(* part of kernel/fs.c, and the file side of fork, exit, wait and exec),   *)
(* run by several processes over one disk that may crash.                  *)
(*                                                                         *)
(* A system call is a list of frames still to run, th[p].todo.  One step   *)
(* runs the code between two points where another process can be seen:     *)
(* from taking an inode's sleep-lock to giving it back (Inodes has that    *)
(* code), or one critical section of itable.lock or ftable.lock.  A lock   *)
(* that stays held over several steps is in the variable lock.  The log is *)
(* the one of module Transactions: begin_op joins tx, and when the last    *)
(* call leaves, what the calls wrote becomes durable, all at once.         *)
(*                                                                         *)
(* The programs the processes run are scripts: sequences of sets of lists  *)
(* of system calls, from which a process picks one list each time.         *)
(***************************************************************************)
EXTENDS Inodes, FsCalls, SequencesExt

CONSTANTS NPROC,        \* processes; 1 is the first user process
          NFILE,        \* entries of ftable
          NOFILE,       \* descriptors of a process
          NDEV,         \* device numbers below NDEV are accepted by open
          MAXOPBLOCKS,  \* blocks one system call may log
          ELF_MAGIC,    \* first cell of an executable
          Tests,        \* names of the programs to choose from
          Program(_),   \* test -> script of process 1
          AfterCrash(_),\* test -> script of process 1 after a crash
          MaxCrashes(_),\* test -> bound on the crashes
          Image(_)      \* test -> [inode, used, data] written by mkfs

VARIABLES fs,       \* inode, used, data, it and panic, as Inodes describes
          durable,  \* inode, used and data at the last commit
          tx,       \* the processes between begin_op and end_op
          lock,     \* inode table entry -> process holding its sleep-lock, or 0
          ftable,   \* the open files
          proc,     \* state, parent, cwd and ofile of a process; its script
          th,       \* where the process is in its system call, and its result
          test,     \* the test being run
          crashes,  \* crashes so far
          lost      \* inodes given a name in a directory already removed

vars == <<fs, durable, tx, lock, ftable, proc, th, test, crashes, lost>>

Procs == 1 .. NPROC
Files == 1 .. NFILE
Fds   == 0 .. NOFILE - 1

\* struct file with ref 0; a process slot; a thread that has returned.
NoFile == [ref |-> 0, type |-> "none", ip |-> 0, off |-> 0,
           readable |-> FALSE, writable |-> FALSE, major |-> 0]
NoProc == [state |-> "unused", parent |-> 0, cwd |-> 0,
           ofile |-> [fd \in Fds |-> 0], script |-> <<>>, calls |-> <<>>]
Idle   == [todo |-> <<>>, ip |-> 0, dp |-> 0, old |-> 0, path |-> <<>>, name |-> "",
           wr |-> {}, call |-> NoCall, ret |-> 0, data |-> <<>>]

F(f, i) == [f |-> f, i |-> i]

View(p) == [inode |-> fs.inode, used |-> fs.used, data |-> fs.data, it |-> fs.it,
            panic |-> fs.panic, wr |-> th[p].wr, intx |-> tx # {}]
Kept(s) == [inode |-> s.inode, used |-> s.used, data |-> s.data, it |-> s.it,
            panic |-> s.panic]
OnDisk(s) == [inode |-> s.inode, used |-> s.used, data |-> s.data]

At(p, f)  == th[p].todo # <<>> /\ Head(th[p].todo).f = f
Arg(p)    == Head(th[p].todo).i
Rest(p)   == Tail(th[p].todo)
Free(i)   == lock[i] = 0
Mine(p,i) == lock[i] \in {0, p}

\* The step leaves the file system as s and the thread as r.
Step(p, s, r) == /\ fs' = Kept(s)
                 /\ th' = [th EXCEPT ![p] = [r EXCEPT !.wr = s.wr]]

\* The thread continues with todo; Fail also sets its result to -1.
Then(p, todo) == [th[p] EXCEPT !.todo = todo]
Fail(p, todo) == [th[p] EXCEPT !.todo = todo, !.ret = -1]
End == <<F("end", 0)>>

---------------------------------------------------------------------------
(* Transactions.                                                           *)

Begin(p) ==
    /\ At(p, "begin")
    /\ tx' = tx \cup {p}
    /\ th' = [th EXCEPT ![p] = Then(p, Rest(p))]
    /\ UNCHANGED <<fs, durable, lock, ftable, proc, test, crashes, lost>>

\* Mutant: the first call to leave commits for all.
EndOpEager(p) ==
    /\ At(p, "end")
    /\ tx' = tx \ {p}
    /\ durable' = OnDisk(fs)
    /\ th' = [th EXCEPT ![p] = [Then(p, Rest(p)) EXCEPT !.wr = {}]]
    /\ UNCHANGED <<fs, lock, ftable, proc, test, crashes, lost>>

EndOp(p) ==
    /\ At(p, "end")
    /\ tx' = tx \ {p}
    /\ durable' = IF tx' = {} THEN OnDisk(fs) ELSE durable
    /\ th' = [th EXCEPT ![p] = [Then(p, Rest(p)) EXCEPT !.wr = {}]]
    /\ UNCHANGED <<fs, lock, ftable, proc, test, crashes, lost>>

---------------------------------------------------------------------------
(* Path names.                                                             *)

\* What skipelem copies of an element: DIRSIZ characters.  The tests' only
\* name longer than DIRSIZ is "123456789012345".
Elem(e) == IF e = "123456789012345" THEN "12345678901234" ELSE e

\* The start of namex, and its end when the path has no element: ip is the
\* inode to start from, with a reference of its own.  The path is a sequence
\* of elements, "/" first in an absolute one.
Namex(p, s, path, parent, r) ==
    LET abs   == path # <<>> /\ Head(path) = "/"
        elems == IF abs THEN Tail(path) ELSE path
        start == IF abs THEN Iget(s, ROOTINO)
                 ELSE [s |-> Idup(s, proc[p].cwd), r |-> proc[p].cwd]
        walk  == IF parent THEN "walkparent" ELSE "walk"
    IN  [s |-> start.s,
         r |-> CASE elems # <<>> -> [r EXCEPT !.ip = start.r, !.path = elems,
                                              !.todo = <<F(walk, 0)>> \o @]
                 [] elems = <<>> /\ parent ->
                      [r EXCEPT !.ip = 0, !.todo = <<F("iput", start.r)>> \o @]
                 [] OTHER -> [r EXCEPT !.ip = start.r]]

\* One turn of the loop of namex: lock ip, look the element up, unlock, put.
Walk(p) ==
    LET parent == At(p, "walkparent")
        ip     == th[p].ip
        s      == Ilock(View(p), ip)
        name   == Elem(Head(th[p].path))
        more   == Tail(th[p].path)
        found  == Dirlookup(s, ip, name)
        next   == Iget(found.s, found.inum)
        put    == <<F("iput", ip)>>
    IN  /\ At(p, "walk") \/ parent
        /\ Free(ip)
        /\ \/ /\ s.it[ip].di.type # "dir"
              /\ Step(p, s, [Then(p, put \o Rest(p)) EXCEPT !.ip = 0])
           \/ /\ s.it[ip].di.type = "dir" /\ parent /\ more = <<>>
              /\ Step(p, s, [Then(p, Rest(p)) EXCEPT !.name = name])
           \/ /\ s.it[ip].di.type = "dir" /\ ~(parent /\ more = <<>>)
              /\ found.r = -1
              /\ Step(p, found.s, [Then(p, put \o Rest(p)) EXCEPT !.ip = 0])
           \/ /\ s.it[ip].di.type = "dir" /\ ~(parent /\ more = <<>>)
              /\ found.r # -1
              /\ Step(p, next.s,
                      [Then(p, put \o (IF more = <<>> THEN Rest(p) ELSE th[p].todo))
                         EXCEPT !.ip = next.r, !.path = more])
        /\ UNCHANGED <<durable, tx, lock, ftable, proc, test, crashes, lost>>

---------------------------------------------------------------------------
(* iput: the test and the decrement run under itable.lock, which is given  *)
(* up while the inode is freed.                                            *)

Iput(p) ==
    LET i == Arg(p)
    IN  /\ At(p, "iput")
        /\ \/ /\ LastUnlinked(fs, i)
              /\ Free(i)
              /\ lock' = [lock EXCEPT ![i] = p]
              /\ th' = [th EXCEPT ![p] = Then(p, <<F("itrunc", i)>> \o Rest(p))]
              /\ UNCHANGED fs
           \/ /\ ~LastUnlinked(fs, i)
              /\ fs' = [fs EXCEPT !.it[i].ref = @ - 1]
              /\ th' = [th EXCEPT ![p] = Then(p, Rest(p))]
              /\ UNCHANGED lock
        /\ UNCHANGED <<durable, tx, ftable, proc, test, crashes, lost>>

\* The inode's blocks are freed, then the inode: from here on ialloc may hand
\* its number out, while the entry still holds the old copy.
IputTrunc(p) ==
    LET i == Arg(p)
        t == Itrunc(View(p), i)
    IN  /\ At(p, "itrunc")
        /\ Step(p, Iupdate([t EXCEPT !.it[i].di.type = "free"], i),
                Then(p, <<F("ifreed", i)>> \o Rest(p)))
        /\ UNCHANGED <<durable, tx, lock, ftable, proc, test, crashes, lost>>

\* Mutant: valid is not cleared.
IputFreedValid(p) ==
    /\ At(p, "ifreed")
    /\ lock' = [lock EXCEPT ![Arg(p)] = 0]
    /\ th' = [th EXCEPT ![p] = Then(p, <<F("idrop", Arg(p))>> \o Rest(p))]
    /\ UNCHANGED <<fs, durable, tx, ftable, proc, test, crashes, lost>>

IputFreed(p) ==
    LET i == Arg(p)
    IN  /\ At(p, "ifreed")
        /\ fs' = [fs EXCEPT !.it[i].valid = FALSE]
        /\ lock' = [lock EXCEPT ![i] = 0]
        /\ th' = [th EXCEPT ![p] = Then(p, <<F("idrop", i)>> \o Rest(p))]
        /\ UNCHANGED <<durable, tx, ftable, proc, test, crashes, lost>>

\* Mutant: the count was already lowered before the inode was freed.
IputDropTwice(p) ==
    /\ At(p, "idrop")
    /\ fs' = [fs EXCEPT !.it[Arg(p)].ref = @ - 2]
    /\ th' = [th EXCEPT ![p] = Then(p, Rest(p))]
    /\ UNCHANGED <<durable, tx, lock, ftable, proc, test, crashes, lost>>

IputDrop(p) ==
    /\ At(p, "idrop")
    /\ fs' = [fs EXCEPT !.it[Arg(p)].ref = @ - 1]
    /\ th' = [th EXCEPT ![p] = Then(p, Rest(p))]
    /\ UNCHANGED <<durable, tx, lock, ftable, proc, test, crashes, lost>>

Iunlock(p) ==
    /\ At(p, "iunlock")
    /\ lock' = [lock EXCEPT ![Arg(p)] = 0]
    /\ th' = [th EXCEPT ![p] = Then(p, Rest(p))]
    /\ UNCHANGED <<fs, durable, tx, ftable, proc, test, crashes, lost>>

---------------------------------------------------------------------------
(* create: look the name up in dp; if it is there lock what it names, else *)
(* allocate an inode and link it, dp locked all along.  The inode is       *)
(* returned locked in th.ip, 0 when create fails.                          *)

CreateType(c) == CASE c.op = "open"  -> "file"
                   [] c.op = "mkdir" -> "dir"
                   [] c.op = "mknod" -> "device"

Create(p) ==
    LET dp    == th[p].ip
        type  == CreateType(th[p].call)
        s     == Ilock(View(p), dp)
        look  == Dirlookup(s, dp, th[p].name)
        found == Iget(look.s, look.inum)
        new   == Ialloc(look.s, type)
        put   == <<F("iput", dp)>>
    IN  /\ At(p, "create")
        /\ \/ /\ dp = 0
              /\ th' = [th EXCEPT ![p] = Then(p, Rest(p))]
              /\ UNCHANGED <<fs, lock>>
           \/ /\ dp # 0 /\ Free(dp) /\ look.r # -1
              /\ Step(p, found.s, [Then(p, put \o <<F("createfound", 0)>> \o Rest(p))
                                     EXCEPT !.ip = found.r])
              /\ UNCHANGED lock
           \/ /\ dp # 0 /\ Free(dp) /\ look.r = -1 /\ new.r = 0
              /\ Step(p, new.s, [Then(p, put \o Rest(p)) EXCEPT !.ip = 0])
              /\ UNCHANGED lock
           \/ /\ dp # 0 /\ Free(dp) /\ look.r = -1 /\ new.r # 0
              /\ Step(p, new.s, [Then(p, <<F("createnew", 0)>> \o Rest(p))
                                   EXCEPT !.ip = new.r, !.dp = dp])
              /\ lock' = [lock EXCEPT ![dp] = p]
        /\ UNCHANGED <<durable, tx, ftable, proc, test, crashes, lost>>

CreateFound(p) ==
    LET ip == th[p].ip
        s  == Ilock(View(p), ip)
    IN  /\ At(p, "createfound")
        /\ Free(ip)
        /\ \/ /\ th[p].call.op = "open" /\ s.it[ip].di.type \in {"file", "device"}
              /\ lock' = [lock EXCEPT ![ip] = p]
              /\ Step(p, s, Then(p, Rest(p)))
           \/ /\ ~(th[p].call.op = "open" /\ s.it[ip].di.type \in {"file", "device"})
              /\ Step(p, s, [Then(p, <<F("iput", ip)>> \o Rest(p)) EXCEPT !.ip = 0])
              /\ UNCHANGED lock
        /\ UNCHANGED <<durable, tx, ftable, proc, test, crashes, lost>>

CreateNew(p) ==
    LET ip   == th[p].ip
        dp   == th[p].dp
        dir  == th[p].call.op = "mkdir"
        inum == fs.it[ip].inum
        s    == Ilock(View(p), ip)
        t    == Iupdate([s EXCEPT !.it[ip].di.nlink = 1,
                                  !.it[ip].di.major = IF th[p].call.op = "mknod"
                                                      THEN th[p].call.n ELSE 0], ip)
        dot  == Dirlink(t, ip, ".", inum)
        dots == Dirlink(dot.s, ip, "..", fs.it[dp].inum)
        own  == CASE ~dir        -> [s |-> t, r |-> 0]
                  [] dot.r = -1  -> dot
                  [] OTHER       -> dots
        name == Dirlink(own.s, dp, th[p].name, inum)
        ok   == own.r # -1 /\ name.r # -1
        bad  == Iupdate([(IF own.r = -1 THEN own.s ELSE name.s)
                           EXCEPT !.it[ip].di.nlink = 0], ip)
    IN  /\ At(p, "createnew")
        /\ Free(ip)
        /\ \/ /\ ok
              /\ Step(p, IF dir THEN AddLinks(name.s, dp, 1) ELSE name.s,
                      Then(p, <<F("iput", dp)>> \o Rest(p)))
              /\ lock' = [lock EXCEPT ![dp] = 0, ![ip] = p]
              /\ lost' = IF fs.it[dp].di.nlink = 0
                         THEN lost \cup {inum, fs.it[dp].inum} ELSE lost
           \/ /\ ~ok
              /\ Step(p, bad, [Then(p, <<F("iput", ip), F("iunlock", dp), F("iput", dp)>>
                                        \o Rest(p)) EXCEPT !.ip = 0])
              /\ UNCHANGED <<lock, lost>>
        /\ UNCHANGED <<durable, tx, ftable, proc, test, crashes>>

---------------------------------------------------------------------------
(* open, mkdir and mknod after create or namei.                            *)

\* filealloc and fdalloc: the lowest free ones; 0 and -1 when there is none.
Filealloc == LET free == {f \in Files : ftable[f].ref = 0}
             IN  IF free = {} THEN 0 ELSE Min(free)
Fdalloc(p) == LET free == {fd \in Fds : proc[p].ofile[fd] = 0}
              IN  IF free = {} THEN -1 ELSE Min(free)

OpenFile(p) ==
    LET ip    == th[p].ip
        mode  == th[p].call.mode
        s     == Ilock(View(p), ip)
        di    == s.it[ip].di
        f     == Filealloc
        fd    == Fdalloc(p)
        bad   == \/ di.type = "dir" /\ "CREATE" \notin mode /\ mode # {}
                 \/ di.type = "device" /\ (di.major < 0 \/ di.major >= NDEV)
                 \/ f = 0
                 \/ fd = -1
        trunc == "TRUNC" \in mode /\ di.type = "file"
    IN  /\ At(p, "open")
        /\ \/ /\ ip = 0
              /\ th' = [th EXCEPT ![p] = Fail(p, Rest(p))]
              /\ UNCHANGED <<fs, lock, ftable, proc>>
           \/ /\ ip # 0 /\ Mine(p, ip) /\ bad
              /\ Step(p, s, Fail(p, <<F("iput", ip)>> \o Rest(p)))
              /\ lock' = [lock EXCEPT ![ip] = 0]
              /\ UNCHANGED <<ftable, proc>>
           \/ /\ ip # 0 /\ Mine(p, ip) /\ ~bad
              /\ ftable' = [ftable EXCEPT ![f] =
                    [ref |-> 1, type |-> IF di.type = "device" THEN "device" ELSE "inode",
                     ip |-> ip, off |-> 0, major |-> di.major,
                     readable |-> "WRONLY" \notin mode,
                     writable |-> {"WRONLY", "RDWR"} \cap mode # {}]]
              /\ proc' = [proc EXCEPT ![p].ofile[fd] = f]
              /\ Step(p, IF trunc THEN Itrunc(s, ip) ELSE s,
                      [Then(p, Rest(p)) EXCEPT !.ret = fd])
              /\ lock' = [lock EXCEPT ![ip] = 0]
        /\ UNCHANGED <<durable, tx, test, crashes, lost>>

\* The end of mkdir and mknod.
Made(p) ==
    LET ip == th[p].ip
    IN  /\ At(p, "made")
        /\ \/ /\ ip = 0
              /\ th' = [th EXCEPT ![p] = Fail(p, Rest(p))]
              /\ UNCHANGED lock
           \/ /\ ip # 0
              /\ th' = [th EXCEPT ![p] = Then(p, <<F("iput", ip)>> \o Rest(p))]
              /\ lock' = [lock EXCEPT ![ip] = 0]
        /\ UNCHANGED <<fs, durable, tx, ftable, proc, test, crashes, lost>>

---------------------------------------------------------------------------
(* link: the count is raised first, the name added later; undone when the  *)
(* name cannot be added.                                                   *)

LinkOld(p) ==
    LET ip == th[p].ip
        s  == Ilock(View(p), ip)
        nx == Namex(p, AddLinks(s, ip, 1), th[p].call.new, TRUE,
                    [Then(p, <<F("linknew", 0)>> \o Rest(p)) EXCEPT !.old = ip])
    IN  /\ At(p, "linkold")
        /\ \/ /\ ip = 0
              /\ th' = [th EXCEPT ![p] = Fail(p, Rest(p))]
              /\ UNCHANGED fs
           \/ /\ ip # 0 /\ Free(ip) /\ s.it[ip].di.type = "dir"
              /\ Step(p, s, Fail(p, <<F("iput", ip)>> \o Rest(p)))
           \/ /\ ip # 0 /\ Free(ip) /\ s.it[ip].di.type # "dir"
              /\ Step(p, nx.s, nx.r)
        /\ UNCHANGED <<durable, tx, lock, ftable, proc, test, crashes, lost>>

LinkNew(p) ==
    LET dp   == th[p].ip
        old  == th[p].old
        s    == Ilock(View(p), dp)
        name == Dirlink(s, dp, th[p].name, s.it[old].inum)
        undo == <<F("linkbad", 0)>> \o Rest(p)
    IN  /\ At(p, "linknew")
        /\ \/ /\ dp = 0
              /\ th' = [th EXCEPT ![p] = Then(p, undo)]
              /\ UNCHANGED <<fs, lost>>
           \/ /\ dp # 0 /\ Free(dp) /\ name.r = -1
              /\ Step(p, name.s, Then(p, <<F("iput", dp)>> \o undo))
              /\ UNCHANGED lost
           \/ /\ dp # 0 /\ Free(dp) /\ name.r # -1
              /\ Step(p, name.s, Then(p, <<F("iput", dp), F("iput", old)>> \o Rest(p)))
              /\ lost' = IF s.it[dp].di.nlink = 0
                         THEN lost \cup {s.it[old].inum} ELSE lost
        /\ UNCHANGED <<durable, tx, lock, ftable, proc, test, crashes>>

LinkBad(p) ==
    LET old == th[p].old
    IN  /\ At(p, "linkbad")
        /\ Free(old)
        /\ Step(p, AddLinks(Ilock(View(p), old), old, -1),
                Fail(p, <<F("iput", old)>> \o Rest(p)))
        /\ UNCHANGED <<durable, tx, lock, ftable, proc, test, crashes, lost>>

---------------------------------------------------------------------------
(* unlink: dp and then ip are locked together.                             *)

Unlink(p) ==
    LET dp   == th[p].ip
        s    == Ilock(View(p), dp)
        look == Dirlookup(s, dp, th[p].name)
        got  == Iget(look.s, look.inum)
        dots == th[p].name \in {".", ".."}
    IN  /\ At(p, "unlink")
        /\ \/ /\ dp = 0
              /\ th' = [th EXCEPT ![p] = Fail(p, Rest(p))]
              /\ UNCHANGED <<fs, lock>>
           \/ /\ dp # 0 /\ Free(dp) /\ (dots \/ look.r = -1)
              /\ Step(p, IF dots THEN s ELSE look.s, Fail(p, <<F("iput", dp)>> \o Rest(p)))
              /\ UNCHANGED lock
           \/ /\ dp # 0 /\ Free(dp) /\ ~dots /\ look.r # -1
              /\ Step(p, got.s, [Then(p, <<F("unlinkentry", look.r)>> \o Rest(p))
                                   EXCEPT !.dp = dp, !.ip = got.r])
              /\ lock' = [lock EXCEPT ![dp] = p]
        /\ UNCHANGED <<durable, tx, ftable, proc, test, crashes, lost>>

UnlinkEntry(p) ==
    LET dp    == th[p].dp
        ip    == th[p].ip
        s     == LET t == Ilock(View(p), ip)
                 IN  IF t.it[ip].di.nlink < 1 THEN Panic(t, "unlink: nlink < 1") ELSE t
        dir   == s.it[ip].di.type = "dir"
        full  == dir /\ ~Isdirempty(s, ip)
        w     == Writei(s, dp, Arg(p), <<Cell(0)>>, FALSE)
        t     == IF w.r # 1 THEN Panic(w.s, "unlink: writei") ELSE w.s
        done  == IF dir THEN AddLinks(t, dp, -1) ELSE t
    IN  /\ At(p, "unlinkentry")
        /\ Free(ip)
        /\ \/ /\ full
              /\ Step(p, s, Fail(p, <<F("iput", ip), F("iunlock", dp), F("iput", dp)>>
                                    \o Rest(p)))
              /\ UNCHANGED lock
           \/ /\ ~full
              /\ Step(p, done, Then(p, <<F("iput", dp), F("unlinkcount", 0)>> \o Rest(p)))
              /\ lock' = [lock EXCEPT ![dp] = 0, ![ip] = p]
        /\ UNCHANGED <<durable, tx, ftable, proc, test, crashes, lost>>

UnlinkCount(p) ==
    LET ip == th[p].ip
    IN  /\ At(p, "unlinkcount")
        /\ Step(p, AddLinks(View(p), ip, -1), Then(p, <<F("iput", ip)>> \o Rest(p)))
        /\ lock' = [lock EXCEPT ![ip] = 0]
        /\ UNCHANGED <<durable, tx, ftable, proc, test, crashes, lost>>

---------------------------------------------------------------------------
(* chdir, and the file part of exec.                                       *)

Chdir(p) ==
    LET ip == th[p].ip
        s  == Ilock(View(p), ip)
    IN  /\ At(p, "chdir")
        /\ \/ /\ ip = 0
              /\ th' = [th EXCEPT ![p] = Fail(p, Rest(p))]
              /\ UNCHANGED fs
           \/ /\ ip # 0 /\ Free(ip) /\ s.it[ip].di.type # "dir"
              /\ Step(p, s, Fail(p, <<F("iput", ip)>> \o Rest(p)))
           \/ /\ ip # 0 /\ Free(ip) /\ s.it[ip].di.type = "dir"
              /\ Step(p, s, Then(p, <<F("iput", proc[p].cwd)>> \o Rest(p)
                                    \o <<F("setcwd", ip)>>))
        /\ UNCHANGED <<durable, tx, lock, ftable, proc, test, crashes, lost>>

SetCwd(p) ==
    /\ At(p, "setcwd")
    /\ proc' = [proc EXCEPT ![p].cwd = Arg(p)]
    /\ th' = [th EXCEPT ![p] = Then(p, Rest(p))]
    /\ UNCHANGED <<fs, durable, tx, lock, ftable, test, crashes, lost>>

\* kexec up to iunlockput(ip): the header is read with ip locked.
ExecFile(p) ==
    LET ip == th[p].ip
        s  == Ilock(View(p), ip)
        rd == Readi(s, ip, 0, 1)
        ok == rd.r = <<Cell(ELF_MAGIC)>>
    IN  /\ At(p, "exec")
        /\ \/ /\ ip = 0
              /\ th' = [th EXCEPT ![p] = Fail(p, Rest(p))]
              /\ UNCHANGED fs
           \/ /\ ip # 0 /\ Free(ip)
              /\ Step(p, rd.s, [Then(p, <<F("iput", ip)>> \o Rest(p))
                                  EXCEPT !.ret = IF ok THEN 0 ELSE -1])
        /\ UNCHANGED <<durable, tx, lock, ftable, proc, test, crashes, lost>>

---------------------------------------------------------------------------
(* Open files: fileclose, fileread, filewrite, filestat.                   *)

FileOf(p, fd) == IF fd \in Fds THEN proc[p].ofile[fd] ELSE 0

FileClose(p) ==
    LET f == FileOf(p, Arg(p))
    IN  /\ At(p, "fileclose")
        /\ proc' = [proc EXCEPT ![p].ofile[Arg(p)] = 0]
        /\ \/ /\ ftable[f].ref > 1
              /\ ftable' = [ftable EXCEPT ![f].ref = @ - 1]
              /\ th' = [th EXCEPT ![p] = Then(p, Rest(p))]
           \/ /\ ftable[f].ref = 1
              /\ ftable' = [ftable EXCEPT ![f].ref = 0, ![f].type = "none"]
              /\ th' = [th EXCEPT ![p] = Then(p,
                    <<F("begin", 0), F("iput", ftable[f].ip)>> \o End \o Rest(p))]
        /\ UNCHANGED <<fs, durable, tx, lock, test, crashes, lost>>

\* Mutant: the offset stays where it was.
FileReadStays(p) ==
    LET f  == FileOf(p, th[p].call.fd)
        ip == ftable[f].ip
        rd == Readi(Ilock(View(p), ip), ip, ftable[f].off, th[p].call.n)
    IN  /\ At(p, "fileread")
        /\ Free(ip)
        /\ Step(p, rd.s, [Then(p, Rest(p)) EXCEPT
                            !.ret = Len(rd.r),
                            !.data = [k \in DOMAIN rd.r |-> rd.r[k].n]])
        /\ UNCHANGED <<durable, tx, lock, ftable, proc, test, crashes, lost>>

FileRead(p) ==
    LET f  == FileOf(p, th[p].call.fd)
        ip == ftable[f].ip
        rd == Readi(Ilock(View(p), ip), ip, ftable[f].off, th[p].call.n)
    IN  /\ At(p, "fileread")
        /\ Free(ip)
        /\ ftable' = [ftable EXCEPT ![f].off = @ + Len(rd.r)]
        /\ Step(p, rd.s, [Then(p, Rest(p)) EXCEPT
                            !.ret = Len(rd.r),
                            !.data = [k \in DOMAIN rd.r |-> rd.r[k].n]])
        /\ UNCHANGED <<durable, tx, lock, proc, test, crashes, lost>>

FileStat(p) ==
    LET ip == ftable[FileOf(p, th[p].call.fd)].ip
        s  == Ilock(View(p), ip)
    IN  /\ At(p, "filestat")
        /\ Free(ip)
        /\ Step(p, s, [Then(p, Rest(p)) EXCEPT
                         !.data = <<s.it[ip].inum, s.it[ip].di.nlink, s.it[ip].di.size>>])
        /\ UNCHANGED <<durable, tx, lock, ftable, proc, test, crashes, lost>>

\* Mutant: a transaction takes all of the log's reservation.
WriteMaxAll == MAXOPBLOCKS * BSIZE

\* The blocks filewrite puts in one transaction, and one turn of its loop
\* from the Arg(p)-th cell of the buffer on.
WriteMax == ((MAXOPBLOCKS - 1 - 1 - 2) \div 2) * BSIZE

FileWrite(p) ==
    LET f   == FileOf(p, th[p].call.fd)
        ip  == ftable[f].ip
        buf == th[p].call.buf
        i   == Arg(p)
        n1  == Min({Len(buf) - i, WriteMax})
        w   == Writei(Ilock(View(p), ip), ip, ftable[f].off,
                      [k \in 1 .. n1 |-> Cell(buf[i + k])], th[p].call.n = -1)
        end == w.r # n1 \/ i + w.r = Len(buf)
    IN  /\ At(p, "filewrite")
        /\ Free(ip)
        /\ ftable' = [ftable EXCEPT ![f].off = IF w.r > 0 THEN @ + w.r ELSE @]
        /\ \/ /\ end
              /\ Step(p, w.s, [Then(p, End \o Rest(p)) EXCEPT
                                 !.ret = IF w.r = n1 THEN Len(buf) ELSE -1])
           \/ /\ ~end
              /\ Step(p, w.s, Then(p, End \o <<F("begin", 0), F("filewrite", i + w.r)>>
                                      \o Rest(p)))
        /\ UNCHANGED <<durable, tx, lock, proc, test, crashes, lost>>

---------------------------------------------------------------------------
(* The entry of a system call.  The next call of p is one of NextCalls(p).   *)

NextCalls(p) ==
    IF proc[p].calls # <<>>
    THEN {[call |-> Head(proc[p].calls), calls |-> Tail(proc[p].calls),
           script |-> proc[p].script]}
    ELSE IF proc[p].script = <<>> THEN {}
    ELSE {[call |-> Head(a), calls |-> Tail(a), script |-> Tail(proc[p].script)] :
             a \in Head(proc[p].script)}

Enter(ch, todo, ret) == [Idle EXCEPT !.call = ch.call, !.todo = todo, !.ret = ret]
Left(p, ch) == [proc EXCEPT ![p].calls = ch.calls, ![p].script = ch.script]

\* What follows the path lookup of a call, and whether it is nameiparent.
Continue(c) == CASE c.op = "open" /\ "CREATE" \in c.mode -> <<"create", "open">>
                 [] c.op = "open"                        -> <<"open">>
                 [] c.op \in {"mkdir", "mknod"}          -> <<"create", "made">>
                 [] c.op = "link"                        -> <<"linkold">>
                 [] OTHER                                -> <<c.op>>
Parent(c) == c.op = "unlink" \/ Head(Continue(c)) = "create"

\* open, mkdir, mknod, link, unlink, chdir and exec: begin_op and the start
\* of the lookup of the first path.
SysPath(p, ch) ==
    LET c  == ch.call
        k  == Continue(c)
        nx == Namex(p, [View(p) EXCEPT !.intx = TRUE], c.path, Parent(c),
                    Enter(ch, [j \in DOMAIN k |-> F(k[j], 0)] \o End, 0))
    IN  /\ c.op \in {"open", "mkdir", "mknod", "link", "unlink", "chdir", "exec"}
        /\ tx' = tx \cup {p}
        /\ proc' = Left(p, ch)
        /\ Step(p, nx.s, nx.r)
        /\ UNCHANGED <<durable, lock, ftable, test, crashes, lost>>

\* read, write, fstat and close: argfd, the mode of the file, and a device.
SysFile(p, ch) ==
    LET c   == ch.call
        f   == FileOf(p, c.fd)
        dev == ftable[f].type = "device"
        no  == \/ c.op = "read" /\ ~ftable[f].readable
               \/ c.op = "write" /\ ~ftable[f].writable
        use == CASE c.op = "read"  -> IF dev THEN <<>> ELSE <<F("fileread", 0)>>
                 [] c.op = "write" -> IF dev \/ c.buf = <<>> THEN <<>>
                                      ELSE <<F("filewrite", 0)>>
                 [] c.op = "fstat" -> <<F("filestat", 0)>>
                 [] c.op = "close" -> <<F("fileclose", c.fd)>>
    IN  /\ c.op \in {"read", "write", "fstat", "close"}
        /\ proc' = Left(p, ch)
        /\ th' = [th EXCEPT ![p] = IF f = 0 THEN Enter(ch, <<>>, -1)
                                   ELSE IF no THEN Enter(ch, <<>>, -1)
                                   ELSE Enter(ch, use, 0)]
        /\ tx' = IF f # 0 /\ ~no /\ c.op = "write" /\ use # <<>>
                 THEN tx \cup {p} ELSE tx
        /\ UNCHANGED <<fs, durable, lock, ftable, test, crashes, lost>>

SysDup(p, ch) ==
    LET f  == FileOf(p, ch.call.fd)
        fd == Fdalloc(p)
    IN  /\ ch.call.op = "dup"
        /\ \/ /\ f = 0 \/ fd = -1
              /\ proc' = Left(p, ch)
              /\ th' = [th EXCEPT ![p] = Enter(ch, <<>>, -1)]
              /\ UNCHANGED ftable
           \/ /\ f # 0 /\ fd # -1
              /\ proc' = [Left(p, ch) EXCEPT ![p].ofile[fd] = f]
              /\ ftable' = [ftable EXCEPT ![f].ref = @ + 1]
              /\ th' = [th EXCEPT ![p] = Enter(ch, <<>>, fd)]
        /\ UNCHANGED <<fs, durable, tx, lock, test, crashes, lost>>

---------------------------------------------------------------------------
(* fork, exit and wait: the references a process holds.                    *)

SysFork(p, ch) ==
    LET unused  == {q \in Procs : proc[q].state = "unused"}
        np      == Min(unused)
        dups(f) == Cardinality({fd \in Fds : proc[p].ofile[fd] = f})
    IN  /\ ch.call.op = "fork"
        /\ \/ /\ unused = {}
              /\ proc' = Left(p, ch)
              /\ th' = [th EXCEPT ![p] = Enter(ch, <<>>, -1)]
              /\ UNCHANGED <<ftable, fs>>
           \/ /\ unused # {}
              /\ proc' = [Left(p, ch) EXCEPT ![np] =
                            [proc[p] EXCEPT !.parent = p, !.calls = <<>>,
                                            !.script = ch.call.child]]
              /\ ftable' = [f \in Files |-> [ftable[f] EXCEPT !.ref = @ + dups(f)]]
              /\ fs' = Kept(Idup(View(p), proc[p].cwd))
              /\ th' = [th EXCEPT ![p] = Enter(ch, <<>>, np), ![np] = Idle]
        /\ UNCHANGED <<durable, tx, lock, test, crashes, lost>>

SysExit(p, ch) ==
    LET used == {fd \in Fds : proc[p].ofile[fd] # 0}
        fds  == SetToSortSeq(used, <)
    IN  /\ ch.call.op = "exit"
        /\ proc' = Left(p, ch)
        /\ th' = [th EXCEPT ![p] = Enter(ch,
                    [k \in DOMAIN fds |-> F("fileclose", fds[k])]
                    \o <<F("begin", 0), F("iput", proc[p].cwd)>> \o End
                    \o <<F("zombie", 0)>>, 0)]
        /\ UNCHANGED <<fs, durable, tx, lock, ftable, test, crashes, lost>>

Zombie(p) ==
    /\ At(p, "zombie")
    /\ proc' = [q \in Procs |->
                  IF q = p THEN [proc[p] EXCEPT !.state = "zombie", !.cwd = 0]
                  ELSE IF proc[q].parent = p THEN [proc[q] EXCEPT !.parent = 1]
                  ELSE proc[q]]
    /\ th' = [th EXCEPT ![p] = Then(p, <<>>)]
    /\ UNCHANGED <<fs, durable, tx, lock, ftable, test, crashes, lost>>

SysWait(p, ch) ==
    LET kids == {q \in Procs : proc[q].state # "unused" /\ proc[q].parent = p}
        dead == {q \in kids : proc[q].state = "zombie"}
    IN  /\ ch.call.op = "wait"
        /\ dead # {} \/ kids = {}
        /\ proc' = IF dead = {} THEN Left(p, ch)
                   ELSE [Left(p, ch) EXCEPT ![Min(dead)] = NoProc]
        /\ th' = [th EXCEPT ![p] = Enter(ch, <<>>, IF dead = {} THEN -1 ELSE Min(dead))]
        /\ UNCHANGED <<fs, durable, tx, lock, ftable, test, crashes, lost>>

SysCall(p) ==
    /\ proc[p].state = "live"
    /\ th[p].todo = <<>>
    /\ \E ch \in NextCalls(p) :
          \/ SysPath(p, ch) \/ SysFile(p, ch) \/ SysDup(p, ch)
          \/ SysFork(p, ch) \/ SysExit(p, ch) \/ SysWait(p, ch)

---------------------------------------------------------------------------
(* Boot: userinit and, in the first process, fsinit with its ireclaim.     *)

\* Mutant: the inode is not locked, so iput finds its copy not valid.
ReclaimUnread(p) ==
    LET orphans == {n \in Inums : /\ n >= Arg(p)
                                  /\ fs.inode[n].type # "free"
                                  /\ fs.inode[n].nlink = 0}
        n   == Min(orphans)
        got == Iget(View(p), n)
    IN  /\ At(p, "ireclaim")
        /\ \/ /\ orphans = {}
              /\ th' = [th EXCEPT ![p] = Then(p, Rest(p))]
              /\ UNCHANGED fs
           \/ /\ orphans # {}
              /\ Step(p, got.s, Then(p, <<F("begin", 0), F("iput", got.r)>>
                                        \o End \o <<F("ireclaim", n + 1)>>))
        /\ UNCHANGED <<durable, tx, lock, ftable, proc, test, crashes, lost>>

Reclaim(p) ==
    LET orphans == {n \in Inums : /\ n >= Arg(p)
                                  /\ fs.inode[n].type # "free"
                                  /\ fs.inode[n].nlink = 0}
        n   == Min(orphans)
        got == Iget(View(p), n)
    IN  /\ At(p, "ireclaim")
        /\ \/ /\ orphans = {}
              /\ th' = [th EXCEPT ![p] = Then(p, Rest(p))]
              /\ UNCHANGED fs
           \/ /\ orphans # {}
              /\ Step(p, got.s, Then(p, <<F("begin", 0), F("touch", got.r), F("iput", got.r)>>
                                        \o End \o <<F("ireclaim", n + 1)>>))
        /\ UNCHANGED <<durable, tx, lock, ftable, proc, test, crashes, lost>>

\* ilock(ip); iunlock(ip): the copy becomes valid, so that iput frees it.
Touch(p) ==
    /\ At(p, "touch")
    /\ Free(Arg(p))
    /\ Step(p, Ilock(View(p), Arg(p)), Then(p, Rest(p)))
    /\ UNCHANGED <<durable, tx, lock, ftable, proc, test, crashes, lost>>

\* The memory of a machine that has just booted the given disk.
Booted(disk, script) ==
    [fs   |-> [inode |-> disk.inode, used |-> disk.used, data |-> disk.data,
               panic |-> "",
               it |-> [i \in Entries |-> IF i = 1 THEN [NoInode EXCEPT !.inum = ROOTINO,
                                                                      !.ref = 1]
                                         ELSE NoInode]],
     proc |-> [p \in Procs |-> IF p = 1 THEN [NoProc EXCEPT !.state = "live", !.cwd = 1,
                                                            !.script = script]
                               ELSE NoProc],
     th   |-> [p \in Procs |-> IF p = 1 THEN [Idle EXCEPT !.todo = <<F("ireclaim", 1)>>,
                                                          !.call = [NoCall EXCEPT !.op = "boot"]]
                               ELSE Idle]]

Boot(disk, script) ==
    LET b == Booted(disk, script)
    IN  fs' = b.fs /\ proc' = b.proc /\ th' = b.th

Crash ==
    /\ crashes < MaxCrashes(test)
    /\ crashes' = crashes + 1
    /\ Boot(durable, AfterCrash(test))
    /\ tx' = {}
    /\ lock' = [i \in Entries |-> 0]
    /\ ftable' = [f \in Files |-> NoFile]
    /\ UNCHANGED <<durable, test, lost>>

Init ==
    /\ test \in Tests
    /\ durable = Image(test)
    /\ LET b == Booted(Image(test), Program(test))
       IN  fs = b.fs /\ proc = b.proc /\ th = b.th
    /\ tx = {}
    /\ lock = [i \in Entries |-> 0]
    /\ ftable = [f \in Files |-> NoFile]
    /\ crashes = 0
    /\ lost = {}

\* All programs have ended.
Finished == \A p \in Procs :
              th[p].todo = <<>> /\ (proc[p].state = "live" => NextCalls(p) = {})

Next == \/ /\ fs.panic = ""
           /\ \E p \in Procs :
                \/ SysCall(p) \/ Begin(p) \/ EndOp(p) \/ Walk(p)
                \/ Iput(p) \/ IputTrunc(p) \/ IputFreed(p) \/ IputDrop(p) \/ Iunlock(p)
                \/ Create(p) \/ CreateFound(p) \/ CreateNew(p) \/ OpenFile(p) \/ Made(p)
                \/ LinkOld(p) \/ LinkNew(p) \/ LinkBad(p)
                \/ Unlink(p) \/ UnlinkEntry(p) \/ UnlinkCount(p)
                \/ Chdir(p) \/ SetCwd(p) \/ ExecFile(p)
                \/ FileClose(p) \/ FileRead(p) \/ FileStat(p) \/ FileWrite(p)
                \/ Zombie(p) \/ Reclaim(p) \/ Touch(p)
        \/ Crash
        \/ Finished /\ UNCHANGED vars

Spec == Init /\ [][Next]_vars

---------------------------------------------------------------------------
(* Properties.                                                             *)

TypeOK ==
    /\ tx \subseteq Procs
    /\ lock \in [Entries -> Procs \cup {0}]
    /\ \A f \in Files : ftable[f].ref \in Nat /\ ftable[f].off \in Nat
    /\ \A i \in Entries : fs.it[i].ref \in Nat /\ fs.it[i].inum \in Inums \cup {0}
    /\ fs.used \subseteq 0 .. FSSIZE - 1
    /\ \A p \in Procs : /\ proc[p].state \in {"unused", "live", "zombie"}
                        /\ \A fd \in Fds : proc[p].ofile[fd] \in Files \cup {0}

\* No sequence or interleaving of the calls reaches a panic of fs.c, file.c,
\* sysfile.c or log_write: no block freed twice, no inode locked that has no
\* type, no unlink of an inode without links, no log_write out of a
\* transaction, no directory read that falls short.
NoPanic == fs.panic = ""

\* What is on the disk between two transactions is a file system, whatever
\* the crash that ends the run: the bitmap marks exactly the blocks of the
\* files, no block is in two files, every name leads to an allocated inode,
\* every link count is the number of names (inodes linked into a removed
\* directory apart), directories start with "." and ".." and repeat no name.
DurableConsistent ==
    /\ BlocksExact(durable)
    /\ LinksExact(durable, lost)
    /\ DirsWellFormed(durable)

\* When no call is running, the inode table counts exactly the open files and
\* the working directories, and ftable exactly the descriptors: no error path
\* of a call leaks or drops a reference.
RefsExact ==
    (\A p \in Procs : th[p].todo = <<>>) =>
        /\ \A i \in Entries : fs.it[i].ref =
              Cardinality({f \in Files : ftable[f].ref > 0 /\ ftable[f].ip = i})
              + Cardinality({p \in Procs : proc[p].state = "live" /\ proc[p].cwd = i})
        /\ \A f \in Files : ftable[f].ref =
              Cardinality({<<p, fd>> \in Procs \X Fds : proc[p].ofile[fd] = f})

\* An inode has one entry in the table, and a valid entry nobody has locked
\* holds what the disk holds: no change of an inode is left without its
\* iupdate, and an entry kept over the freeing and the reallocation of its
\* number is read again.
TableCoherent ==
    \A i \in Entries : fs.it[i].ref > 0 =>
        /\ \A j \in Entries : fs.it[j].ref > 0 /\ fs.it[j].inum = fs.it[i].inum => i = j
        /\ fs.it[i].valid /\ lock[i] = 0 => fs.it[i].di = fs.inode[fs.it[i].inum]

\* The comment in iput: when the last reference goes, nobody has the inode
\* locked, so the sleep-lock taken under itable.lock is free.
IputNeverWaits ==
    \A p \in Procs : At(p, "iput") /\ LastUnlinked(fs, Arg(p)) => lock[Arg(p)] = 0

\* A system call logs at most MAXOPBLOCKS distinct blocks: what begin_op
\* reserves in the log for it (module Log relies on it).
OpFitsLog == \A p \in Procs : Cardinality(th[p].wr) <= MAXOPBLOCKS

\* Every call of every test returns what the test insists on, in every
\* interleaving with the calls of the other processes.
TestsPass ==
    \A p \in Procs : th[p].todo = <<>> => Satisfied(th[p].call, th[p].ret, th[p].data)

\* When ireclaim is done, no allocated inode is without links: what a crash
\* left of files removed while open is freed at the next boot.
NoOrphanAfterBoot ==
    th[1].todo = <<>> /\ th[1].call.op = "boot" =>
        \A n \in Allocated(durable) : durable.inode[n].nlink > 0

\* fs.h says of nlink that it is the "Number of links to inode in file system".
\* It is not for an inode that create or link names in a directory which
\* another process has removed since nameiparent found it: the name goes with
\* the directory, the inode stays allocated with its count.
NlinkIsLinks == LinksExact(durable, {})
=============================================================================
