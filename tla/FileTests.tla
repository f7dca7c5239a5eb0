------------------------------ MODULE FileTests ------------------------------
(***************************************************************************)
(* FileCalls run by the programs that the repository has for it: the file  *)
(* system tests of user/usertests.c, with the results they ask for, and    *)
(* the random calls of user/grind.c, by two processes at the same time.    *)
(*                                                                         *)
(* Paths are sequences of names, "/" first if absolute.  Sizes are scaled  *)
(* to BSIZE units a block, loops to the few rounds that fill a small disk, *)
(* and descriptors, which the kernel hands out lowest first, are written   *)
(* as the numbers that open returns.                                       *)
(***************************************************************************)
EXTENDS FileCalls

Whatever == -1 .. 20
Ok(c) == [c EXCEPT !.want = 0 .. 20]
Err(c) == [c EXCEPT !.want = {-1}]
Gives(c, n) == [c EXCEPT !.want = {n}]

OnPath(f, path) == [f |-> f, path |-> path, want |-> Whatever]
open(path, mode) == [f |-> "open", path |-> path, mode |-> mode, want |-> Whatever]
mkdir(path) == OnPath("mkdir", path)
mknod(path, type) == [f |-> "mknod", path |-> path, type |-> type, want |-> Whatever]
unlink(path) == OnPath("unlink", path)
chdir(path) == OnPath("chdir", path)
link(old, new) == [f |-> "link", path |-> old, new |-> new, want |-> Whatever]
OnFd(f, fd) == [f |-> f, fd |-> fd, want |-> Whatever]
close(fd) == OnFd("close", fd)
dup(fd) == OnFd("dup", fd)
fstat(fd) == OnFd("fstat", fd)
read(fd, n) == [f |-> "read", fd |-> fd, n |-> n, data |-> <<>>, want |-> Whatever]
reads(fd, data) == [f |-> "read", fd |-> fd, n |-> 20, data |-> data,
                    want |-> {Len(data)}]
write(fd, data) == [f |-> "write", fd |-> fd, data |-> data, bad |-> FALSE,
                    want |-> Whatever]
badwrites(fd, n) == [f |-> "write", fd |-> fd, data |-> [j \in 1 .. n |-> <<0>>],
                     bad |-> TRUE, want |-> {-1}]
pipe == [f |-> "pipe", want |-> Whatever]
Exit == <<[f |-> "exit", want |-> Whatever]>>
Fork(child) == [f |-> "fork", child |-> child \o Exit, want |-> Whatever]
Wait == [f |-> "wait", want |-> Whatever]

units(v, n) == [j \in 1 .. n |-> <<v>>]
RW == {"rw"}
CRW == {"creat", "rw"}
CW == {"creat", "w"}
Repeat(n, s) == FlattenSeq([j \in 1 .. n |-> s])
-----------------------------------------------------------------------------
(* usertests.c: files                                                      *)

copyin == <<Ok(open(<<"x">>, CW)), badwrites(0, 4), close(0), unlink(<<"x">>),
            Ok(pipe), close(0), close(1)>>
copyinstr1 == <<Err(open(<<>>, CW))>>
truncate1 ==
  <<unlink(<<"t">>), open(<<"t">>, {"creat", "w", "trunc"}), write(0, units(1, 2)),
    close(0), open(<<"t">>, {}), Gives(read(0, 9), 2), open(<<"t">>, {"w", "trunc"}),
    open(<<"t">>, {}), Gives(read(2, 9), 0), Gives(read(0, 9), 0),
    write(1, units(2, 3)), Gives(read(2, 9), 3), Gives(read(0, 9), 1),
    unlink(<<"t">>), close(1), close(0), close(2)>>
truncate2 ==
  <<unlink(<<"t">>), open(<<"t">>, {"creat", "w", "trunc"}), write(0, units(1, 2)),
    open(<<"t">>, {"w", "trunc"}), Err(write(0, units(2, 1))), unlink(<<"t">>),
    close(0), close(1)>>
truncate3 ==
  <<open(<<"t">>, {"creat", "w", "trunc"}), close(0),
    Fork(<<Ok(open(<<"t">>, {"w"})), Gives(write(0, units(1, 2)), 2), close(0),
           open(<<"t">>, {}), read(0, 9), close(0)>>),
    Ok(open(<<"t">>, {"creat", "w", "trunc"})), Gives(write(0, units(2, 1)), 1),
    close(0), Wait, unlink(<<"t">>)>>
opentest == <<Ok(open(<<"f">>, {})), close(0), Err(open(<<"x">>, {}))>>
writetest ==
  <<Ok(open(<<"x">>, CRW))>>
  \o Repeat(3, <<Gives(write(0, units(1, 1)), 1), Gives(write(0, units(2, 1)), 1)>>)
  \o <<close(0), Ok(open(<<"x">>, {})), Gives(read(0, 6), 6), close(0),
       Ok(unlink(<<"x">>))>>
writebig ==
  <<Ok(open(<<"x">>, CRW))>>
  \o [n \in 1 .. MAXFILE |-> Gives(write(0, units(n, BSIZE)), BSIZE)]
  \o <<close(0), Ok(open(<<"x">>, {})),
       reads(0, FlattenSeq([n \in 1 .. MAXFILE |-> units(n, BSIZE)])),
       Gives(read(0, 1), 0), close(0), Ok(unlink(<<"x">>))>>
createtest ==
  <<open(<<"a">>, CRW), close(0), open(<<"b">>, CRW), close(0),
    unlink(<<"a">>), unlink(<<"b">>)>>
sharedfd ==
  LET w(v) == [j \in 1 .. 2 |-> Gives(write(0, units(v, 1)), 1)]
  IN <<unlink(<<"x">>), Ok(open(<<"x">>, CRW)), Fork(w(1))>> \o w(2)
     \o <<Wait, close(0), Ok(open(<<"x">>, {})), Gives(read(0, 9), 4), close(0),
          unlink(<<"x">>)>>
fourfiles ==
  LET w(n, v) == <<Ok(open(<<n>>, CRW)), Gives(write(0, units(v, 3)), 3)>>
      r(n, v) == <<open(<<n>>, {}), reads(0, units(v, 3)), close(0), unlink(<<n>>)>>
  IN <<unlink(<<"x">>), Fork(w("x", 1)), unlink(<<"y">>)>> \o w("y", 2)
     \o <<close(0), Wait>> \o r("x", 1) \o r("y", 2)
createdelete ==
  LET cd(n, m) == <<Ok(open(<<n>>, CRW)), close(0), Ok(open(<<m>>, CRW)), close(0),
                    Ok(unlink(<<n>>))>>
  IN <<Fork(cd("p", "q"))>> \o cd("r", "s")
     \o <<Wait, Err(open(<<"p">>, {})), Ok(open(<<"q">>, {})), close(0),
          Err(open(<<"r">>, {})), Ok(open(<<"s">>, {})), close(0),
          unlink(<<"q">>), unlink(<<"s">>)>>
unlinkread ==
  <<Ok(open(<<"x">>, CRW)), write(0, units(1, 2)), close(0), Ok(open(<<"x">>, RW)),
    Ok(unlink(<<"x">>)), open(<<"x">>, CRW), write(1, units(2, 1)), close(1),
    reads(0, units(1, 2)), Gives(write(0, units(1, 3)), 3), close(0), unlink(<<"x">>)>>
linktest ==
  <<unlink(<<"a">>), unlink(<<"b">>), Ok(open(<<"a">>, CRW)),
    Gives(write(0, units(1, 2)), 2), close(0), Ok(link(<<"a">>, <<"b">>)),
    unlink(<<"a">>), Err(open(<<"a">>, {})), Ok(open(<<"b">>, {})),
    Gives(read(0, 9), 2), close(0), Err(link(<<"b">>, <<"b">>)), unlink(<<"b">>),
    Err(link(<<"b">>, <<"a">>)), Err(link(<<".">>, <<"a">>))>>
-----------------------------------------------------------------------------
(* usertests.c: directories                                                *)

iputtest == <<Ok(mkdir(<<"d">>)), Ok(chdir(<<"d">>)), Ok(unlink(<<"..", "d">>)),
              Ok(chdir(<<"/">>))>>
exitiputtest ==
  <<Fork(<<Ok(mkdir(<<"d">>)), Ok(chdir(<<"d">>)), Ok(unlink(<<"..", "d">>))>>), Wait>>
openiputtest ==
  <<Ok(mkdir(<<"d">>)), Fork(<<Err(open(<<"d">>, RW))>>), Ok(unlink(<<"d">>)), Wait>>
dirtest == <<Ok(mkdir(<<"d">>)), Ok(chdir(<<"d">>)), Ok(chdir(<<"..">>)),
             Ok(unlink(<<"d">>))>>
concreate ==
  LET made(n) == <<Ok(open(<<n>>, CRW)), close(0)>> IN
  <<unlink(<<"a">>), Fork(made("a"))>> \o made("a")
  \o <<Wait, unlink(<<"b">>), Fork(made("b")), link(<<"a">>, <<"b">>), Wait,
       Fork(<<open(<<"a">>, {}), close(0), open(<<"a">>, {}), close(0)>>),
       unlink(<<"a">>), unlink(<<"a">>), Wait, unlink(<<"b">>)>>
linkunlink ==
  LET x == <<"x">>
      o == <<open(x, CRW), close(0)>>
      l == <<link(<<"f">>, x)>>
      u == <<unlink(x)>>
  IN <<unlink(x), Fork(l \o o \o u)>> \o o \o u \o l \o <<Wait, unlink(x)>>
subdir ==
  LET dd(n) == <<"d", "d", n>> IN
  <<unlink(<<"y">>), Ok(mkdir(<<"d">>)), Ok(open(<<"d", "y">>, CRW)),
    write(0, units(1, 2)), close(0), Err(unlink(<<"d">>)),
    Ok(mkdir(<<"/", "d", "d">>)), Ok(open(dd("y"), CRW)), write(0, units(2, 2)),
    close(0), Ok(open(<<"d", "d", "..", "y">>, {})), reads(0, units(1, 2)), close(0),
    Ok(link(dd("y"), dd("z"))), Ok(unlink(dd("y"))), Err(open(dd("y"), {})),
    Ok(chdir(<<"d">>)), Ok(chdir(<<"d", "..", "..", "d">>)),
    Ok(chdir(<<"d", "..", "..", "..", "d">>)), Ok(chdir(<<".", "..">>)),
    Ok(open(dd("z"), {})), Gives(read(0, 9), 2), close(0), Err(open(dd("y"), {})),
    Err(open(<<"d", "y", "y">>, CRW)), Err(open(<<"d", "w", "y">>, CRW)),
    Err(open(<<"d">>, {"creat"})), Err(open(<<"d">>, RW)), Err(open(<<"d">>, {"w"})),
    Err(link(<<"d", "y", "y">>, dd("w"))), Err(link(<<"d", "w", "y">>, dd("w"))),
    Err(link(<<"d", "y">>, dd("z"))), Err(mkdir(<<"d", "y", "y">>)),
    Err(mkdir(<<"d", "w", "y">>)), Err(mkdir(dd("z"))), Err(unlink(<<"d", "w", "y">>)),
    Err(unlink(<<"d", "y", "y">>)), Err(chdir(<<"d", "y">>)), Err(chdir(<<"d", "w">>)),
    Ok(unlink(dd("z"))), Ok(unlink(<<"d", "y">>)), Err(unlink(<<"d">>)),
    Ok(unlink(<<"d", "d">>)), Ok(unlink(<<"d">>))>>
fourteen ==
  LET s == "fourteen"
      l == "fifteen"
  IN <<Ok(mkdir(<<s>>)), Ok(mkdir(<<s, l>>)), Ok(open(<<l, l, l>>, {"creat"})),
       close(0), Ok(open(<<s, s, s>>, {})), close(0), Err(mkdir(<<s, s>>)),
       Err(mkdir(<<l, s>>)), unlink(<<l, s>>), unlink(<<s, s>>), unlink(<<s, s, s>>),
       unlink(<<l, l, l>>), unlink(<<s, l>>), unlink(<<s>>)>>
rmdot ==
  <<Ok(mkdir(<<"d">>)), Ok(chdir(<<"d">>)), Err(unlink(<<".">>)),
    Err(unlink(<<"..">>)), Ok(chdir(<<"/">>)), Err(unlink(<<"d", ".">>)),
    Err(unlink(<<"d", "..">>)), Ok(unlink(<<"d">>))>>
dirfile ==
  <<Ok(open(<<"d">>, {"creat"})), close(0), Err(chdir(<<"d">>)),
    Err(open(<<"d", "x">>, {})), Err(open(<<"d", "x">>, {"creat"})),
    Err(mkdir(<<"d", "x">>)), Err(unlink(<<"d", "x">>)),
    Err(link(<<"f">>, <<"d", "x">>)), Ok(unlink(<<"d">>)), Err(open(<<".">>, RW)),
    open(<<".">>, {}), Err(write(0, units(1, 1))), close(0)>>
iref ==
  Repeat(2, <<Ok(mkdir(<<"d">>)), Ok(chdir(<<"d">>)), mkdir(<<>>),
              link(<<"f">>, <<>>), open(<<>>, {"creat"}), open(<<"x">>, {"creat"}),
              close(0), unlink(<<"x">>)>>)
  \o Repeat(2, <<chdir(<<"..">>), unlink(<<"d">>)>>) \o <<chdir(<<"/">>)>>
-----------------------------------------------------------------------------
(* usertests.c: a full disk, and larger writes than one transaction's      *)

fill(n) == <<unlink(<<n>>), open(<<n>>, {"creat", "rw", "trunc"})>>
           \o Repeat(MAXFILE, <<write(0, units(1, BSIZE))>>) \o <<close(0)>>
small(n) == <<unlink(<<n>>), open(<<n>>, {"creat", "rw", "trunc"}), close(0)>>
diskfull ==
  <<unlink(<<"d">>)>> \o fill("a") \o fill("b") \o small("x") \o small("y")
  \o <<Err(mkdir(<<"d">>)), unlink(<<"d">>), unlink(<<"x">>), unlink(<<"y">>),
       unlink(<<"a">>), unlink(<<"b">>)>>
outofinodes ==
  LET names == <<"a", "b", "c", "d", "e", "g">> IN
  FlattenSeq([j \in DOMAIN names |-> small(names[j])])
  \o [j \in DOMAIN names |-> unlink(<<names[j]>>)]
fsfull == fill("a") \o fill("b") \o <<unlink(<<"b">>), unlink(<<"a">>)>>
bigdir ==
  LET names == <<"x", "y", "z">> IN
  <<unlink(<<"b">>), Ok(open(<<"b">>, {"creat"})), close(0)>>
  \o [j \in DOMAIN names |-> Ok(link(<<"b">>, <<names[j]>>))]
  \o <<unlink(<<"b">>)>> \o [j \in DOMAIN names |-> Ok(unlink(<<names[j]>>))]
\* ln.c in a directory that has no room left.
fulldir ==
  LET names == <<"x", "y", "z", "w", "v">> IN
  [j \in DOMAIN names |-> Ok(link(<<"f">>, <<names[j]>>))]
  \o <<Err(link(<<"f">>, <<"u">>))>> \o [j \in DOMAIN names |-> Ok(unlink(<<names[j]>>))]
manywrites ==
  LET w(n) == <<unlink(<<n>>), Ok(open(<<n>>, CRW)), Gives(write(0, units(1, 3)), 3),
                close(0), unlink(<<n>>)>>
  IN <<Fork(w("a"))>> \o w("b") \o <<Wait>>
badwrite ==
  <<unlink(<<"x">>)>>
  \o Repeat(2, <<Ok(open(<<"x">>, CW)), badwrites(0, 1), close(0), unlink(<<"x">>)>>)
  \o <<Ok(open(<<"x">>, CW)), Gives(write(0, units(1, 1)), 1), close(0), unlink(<<"x">>)>>
bigwrite ==
  <<unlink(<<"x">>), Ok(open(<<"x">>, CRW)), Gives(write(0, units(1, 3)), 3),
    Gives(write(0, units(1, 3)), 3), close(0), unlink(<<"x">>)>>
bigfile ==
  <<unlink(<<"x">>), Ok(open(<<"x">>, CRW)), Gives(write(0, units(1, 3)), 3),
    Gives(write(0, units(2, 3)), 3), close(0), Ok(open(<<"x">>, {})),
    Gives(read(0, 3), 3), reads(0, units(2, 3)), Gives(read(0, 3), 0), close(0),
    unlink(<<"x">>)>>
\* forktest.c, stressfs.c, and the tools ln, mkdir, rm and cat.
stressfs ==
  LET wr(n) == <<open(<<n>>, CRW), write(0, units(1, 2)), write(0, units(1, 2)),
                 close(0), open(<<n>>, {}), read(0, 2), read(0, 2), close(0)>>
  IN <<Fork(wr("y"))>> \o wr("x") \o <<Wait>>
tools == <<mkdir(<<"d">>), link(<<"f">>, <<"d", "g">>), open(<<"d", "g">>, {}),
           Gives(read(0, 9), 1), Gives(read(0, 9), 0), close(0), unlink(<<"d">>),
           unlink(<<"d", "g">>), unlink(<<"d">>), Ok(pipe), Err(fstat(0)),
           Err(read(1, 1)), Err(write(0, units(1, 1))), close(0), close(1)>>
\* init.c: the console.
init == <<Err(open(<<"c">>, RW)), Ok(mknod(<<"c">>, "dev")), Ok(open(<<"c">>, RW)),
          Gives(dup(0), 1), Gives(dup(0), 2), Err(dup(0)), Err(open(<<"f">>, {})),
          Err(open(<<"m">>, CRW)), unlink(<<"m">>), Err(pipe), fstat(0), close(1), close(0), Ok(unlink(<<"c">>)),
          mknod(<<"n">>, "nodev"), Err(open(<<"n">>, RW)), unlink(<<"n">>)>>

Tests ==
  <<copyin, copyinstr1, truncate1, truncate2, truncate3, opentest, writetest,
    writebig, createtest, sharedfd, fourfiles, createdelete, unlinkread,
    linktest, iputtest, exitiputtest, openiputtest, dirtest, concreate,
    linkunlink, subdir, fourteen, rmdot, dirfile, iref, diskfull,
    outofinodes, fsfull, bigdir, fulldir, manywrites, badwrite, bigwrite, bigfile,
    stressfs, tools, init>>
-----------------------------------------------------------------------------
(* grind.c, the cases of go() that concern files, with g for grindir; the  *)
(* cases that do with b what another does with a are left out.             *)

touch(path) == <<open(path, CRW), close(0)>>
goto_b == <<chdir(<<"g">>), unlink(<<"..", "b">>), chdir(<<"/">>)>>
PathCases ==
  <<touch(<<"g", "..", "a">>),
   <<unlink(<<"g", "..", "a">>)>>,
   goto_b,
   <<open(<<"/", "g", "..", "a">>, CRW), write(0, units(1, 2)), read(0, 2), close(0)>>,
   <<mkdir(<<"g", "..", "a">>)>> \o touch(<<"a", "..", "a", ".", "a">>)
     \o <<unlink(<<"a", "a">>)>>,
   <<unlink(<<"b">>), link(<<"..", "g", ".", "..", "a">>, <<"..", "b">>)>>,
   <<unlink(<<"..", "g", "..", "a">>),
     link(<<"..", ".", "b">>, <<"/", "g", "..", "a">>)>>>>
Leave == <<chdir(<<"..", "g", "..">>)>>
Within == <<unlink(<<"a">>), mkdir(<<"a">>), chdir(<<"a">>), unlink(<<"..", "a">>),
            open(<<"x">>, CRW), unlink(<<"x">>)>>
Always == <<unlink(<<"c">>), Ok(open(<<"c">>, CRW)), Gives(write(0, units(1, 1)), 1),
            Gives(fstat(0), 1), close(0), unlink(<<"c">>)>>
Cases == PathCases \o <<Leave, Within, Always>>

\* iter(): two processes in go(), a case each.
go(a, b) == <<mkdir(<<"g">>), chdir(<<"g">>), chdir(<<"/">>), Fork(a)>> \o b \o <<Wait>>
Grind ==
  LET from(a) == [b \in 1 .. Len(Cases) - a + 1 |-> go(Cases[a], Cases[a + b - 1])]
  IN FlattenSeq([a \in DOMAIN Cases |-> from(a)])

\* Every program ends in exit.
AllPrograms ==
  LET all == Tests \o Grind IN [n \in DOMAIN all |-> all[n] \o Exit]
-----------------------------------------------------------------------------
First == CHOOSE p \in Procs : TRUE
NoProcs == [p \in Procs |-> NoProg]

\* A process in the root directory that has nothing open.
Init ==
  LET r == iget(mkfs, ROOTINO) IN
  /\ \E t \in DOMAIN Programs :
       prog = [NoProcs EXCEPT ![First] = [id |-> t, fork |-> 0, pos |-> 1]]
  /\ cwd = [q \in Procs |-> IF q = First THEN r.ip ELSE None]
  /\ fs = r.s
  /\ ftab = [f \in Files |-> NoFile]
  /\ ofile = [q \in Procs |-> [fd \in Fds |-> None]]
  /\ todo = [q \in Procs |-> <<>>]
  /\ ret = [q \in Procs |-> None]
  /\ inop = [q \in Procs |-> FALSE]
  /\ failed = FALSE

Spec == Init /\ [][Next]_vars
-----------------------------------------------------------------------------
Live == {n \in Inums : fs.din[n].type # "none"}
Dirs == {n \in Live : fs.din[n].type = "dir"}
Idle == \A p \in Procs : todo[p] = <<>>

\* Whatever fails and whoever comes in between, the bitmap marks exactly the
\* blocks of the inodes on the disk, and no block belongs to two of them.
BlocksOwned ==
  /\ fs.map = UNION {BlocksOf(fs, fs.din[n]) : n \in Live}
  /\ \A n, m \in Live : n # m => BlocksOf(fs, fs.din[n]) \cap BlocksOf(fs, fs.din[m]) = {}

\* The names of inode n: entries of directories that are in use, but for a
\* directory's own ".", the root's "..", and the ".." of a removed directory.
Names(n) ==
  {<<m, e>> \in UNION {{m} \X dirents(fs, fs.din[m]) : m \in Dirs} :
     /\ e[2] = n
     /\ e[1] # "."
     /\ e[1] = ".." => m # ROOTINO /\ fs.din[m].nlink > 0}

\* Between calls an inode that has a name has as many links as names: what the
\* error paths of link and create took is given back, and a removed directory's
\* ".." no longer counts.  (An inode without a name may keep a link: create in a
\* directory that another process has just removed leaves one behind.)
LinksExact ==
  Idle => \A n \in Live :
    Names(n) # {} =>
      fs.din[n].nlink = Cardinality(Names(n)) + (IF n = ROOTINO THEN 1 ELSE 0)

\* Between calls every reference to a table entry and to a file is one that
\* somebody has (no path out of a call leaves one behind or drops one too many)
\* and no inode is locked.
RefsExact ==
  Idle =>
    /\ \A i \in Slots :
         /\ fs.it[i].lock = None
         /\ fs.it[i].ref = Cardinality({f \in Files : ftab[f].ip = i})
                           + Cardinality({p \in Procs : cwd[p] = i})
    /\ \A f \in Files :
         ftab[f].ref = Cardinality({<<p, fd>> \in Procs \X Fds : ofile[p][fd] = f})

\* Every call of the tests returns what usertests.c and grind.c ask for, and
\* none panics: no inode without a type is locked, no entry without links is
\* found, and nothing is written outside a transaction.
TestsPass == ~failed /\ fs.panic = None

\* The inode whose lock p's next step takes, or None.
Wanted(p) ==
  IF todo[p] = <<>>
    THEN IF ~Ended(p) /\ \E f \in {"read", "write", "fstat"} : OnFile(p, f)
           THEN ftab[File(p)].ip ELSE None
  ELSE CASE O(p).f \in {"create", "open", "link", "link2", "unlink", "chdir"} -> ret[p]
         [] O(p).f \in {"old", "bad", "unlink2"} -> O(p).ip
         [] O(p).f = "namex" /\ O(p).path # <<>> -> O(p).ip
         [] O(p).f = "iput" /\ Unused(fs.it[O(p).ip]) -> O(p).ip
         [] O(p).f = "write" -> ftab[File(p)].ip
         [] OTHER -> None

\* Whatever paths they follow, through "." and ".." too, processes never wait for
\* one another's inodes in a circle, nor one for its own: namex gives a directory
\* up before it locks the next, and only create and unlink hold two.
NoCircle ==
  \A S \in SUBSET Procs \ {{}} :
    \E p \in S : Wanted(p) = None \/ fs.it[Wanted(p)].lock \notin S
=============================================================================
