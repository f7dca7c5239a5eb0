------------------------------ MODULE FileCalls ------------------------------
(***************************************************************************)
(* kernel/sysfile.c and kernel/file.c on FileSystem: processes that make   *)
(* system calls at the same time.                                          *)
(*                                                                         *)
(* A process has a list todo of what it still has to do in its call; the   *)
(* head is its next step.  A step is a section under one inode's lock or   *)
(* under itable.lock; locks that the code holds for longer (unlink's and   *)
(* create's) stay in fs.it across steps.  ret is what the last namex       *)
(* returned.  inop tells who is between begin_op and end_op; that those    *)
(* make the call atomic is the business of Log.                            *)
(***************************************************************************)
EXTENDS FileSystem

CONSTANTS
  Procs,
  NFILE, NOFILE,
  WMAX,        \* units that filewrite writes in one transaction (max)
  Programs     \* the calls that processes make: a function to sequences

Files == 1 .. NFILE
Fds == 0 .. NOFILE - 1

VARIABLES
  fs, ftab,
  ofile, cwd,          \* of each process
  todo, ret, inop,
  prog,                \* its program, for a child with the fork that made it,
                       \* and the place of its next call there
  failed               \* a call returned what its program did not expect

vars == <<fs, ftab, ofile, cwd, todo, ret, inop, prog, failed>>

NoProg == [id |-> None, fork |-> 0, pos |-> 0]
NoFile == [ref |-> 0, type |-> "none", ip |-> None, off |-> 0,
           r |-> FALSE, w |-> FALSE]
-----------------------------------------------------------------------------
(* Steps                                                                   *)

O(p) == Head(todo[p])
At(p, f) == todo[p] # <<>> /\ O(p).f = f

\* What is left to do: ops in the place of the head.
Go(p, ops) == todo' = [todo EXCEPT ![p] = ops \o Tail(@)]
\* The call's other steps are not taken.
Only(p, ops) == todo' = [todo EXCEPT ![p] = ops]

Op(f) == [f |-> f]
lookup(path, parent) == [f |-> "lookup", path |-> path, parent |-> parent]
namex(i, path, parent) == [f |-> "namex", ip |-> i, path |-> path, parent |-> parent]
iput(i) == [f |-> "iput", ip |-> i]
unlock(i) == [f |-> "unlock", ip |-> i]
end(r) == [f |-> "end", r |-> r]
with(f, i) == [f |-> f, ip |-> i]

Free(i) == fs.it[i].lock = None

\* p's step leaves the file system s.  A change of the disk outside begin_op
\* and end_op is log_write's panic.
Set(p, s) ==
  fs' = IF ~inop[p] /\ <<s.map, s.blk, s.din>> # <<fs.map, fs.blk, fs.din>>
          THEN panic(s, "log_write outside of trans") ELSE s

Rest == UNCHANGED <<ftab, ofile, cwd, inop, prog, failed>>
-----------------------------------------------------------------------------
(* namex and iput                                                          *)

\* iget of the root, or idup of the current directory.
DoLookup(p) ==
  LET o == O(p)
      abs == o.path # <<>> /\ o.path[1] = "/"
      r == IF abs THEN iget(fs, ROOTINO) ELSE [s |-> idup(fs, cwd[p]), ip |-> cwd[p]]
  IN /\ At(p, "lookup")
     /\ Set(p, r.s)
     /\ Go(p, <<namex(r.ip, IF abs THEN Tail(o.path) ELSE o.path, o.parent)>>)
     /\ UNCHANGED ret /\ Rest

\* Mutant of NamexEnd: nameiparent of an empty path keeps its reference.
NamexEnd_Keep(p) ==
  /\ At(p, "namex") /\ O(p).path = <<>>
  /\ Go(p, <<>>)
  /\ ret' = [ret EXCEPT ![p] = IF O(p).parent THEN None ELSE O(p).ip]
  /\ UNCHANGED fs /\ Rest

\* No name is left.
NamexEnd(p) ==
  /\ At(p, "namex") /\ O(p).path = <<>>
  /\ IF O(p).parent THEN Go(p, <<iput(O(p).ip)>>) ELSE Go(p, <<>>)
  /\ ret' = [ret EXCEPT ![p] = IF O(p).parent THEN None ELSE O(p).ip]
  /\ UNCHANGED fs /\ Rest

\* Mutant of NamexNext: the directory stays locked until its entry is.
NamexNext_Hold(s, i) == s

\* The directory is unlocked before the entry that was found is locked.
NamexNext(s, i) == iunlock(s, i)

\* One name: ilock, the tests, dirlookup, iunlock.
Namex(p) ==
  LET o == O(p)
      i == o.ip
      early == o.parent /\ Len(o.path) = 1
      back(s, ops, r) == /\ Set(p, iunlock(s, i)) /\ Go(p, ops)
                         /\ ret' = [ret EXCEPT ![p] = r]
  IN /\ At(p, "namex") /\ o.path # <<>> /\ Free(i)
     /\ \E s \in {ilock(fs, i, p)} :
        \/ s.it[i].d.type # "dir" /\ back(s, <<iput(i)>>, None)
        \/ s.it[i].d.type = "dir" /\ early /\ back(s, <<>>, i)
        \/ /\ s.it[i].d.type = "dir" /\ ~early
           /\ \E offs \in {dirlookup(s, i, skipelem(o.path[1]))} :
              \/ offs = {} /\ back(s, <<iput(i)>>, None)
              \/ /\ offs # {}
                 /\ \E r \in {iget(s, inumat(s, i, least(offs)))} :
                      /\ Set(p, NamexNext(r.s, i))
                      /\ Go(p, <<iput(i), namex(r.ip, Tail(o.path), o.parent)>>)
                 /\ UNCHANGED ret
     /\ Rest

\* iput's test.
Unused(e) == e.ref = 1 /\ e.valid /\ e.d.nlink = 0

\* The inode is locked before itable.lock is released, or its entry let go.
Iput(p) ==
  LET i == O(p).ip IN
  /\ At(p, "iput")
  /\ \/ /\ Unused(fs.it[i]) /\ Free(i)
        /\ Set(p, [fs EXCEPT !.it[i].lock = p])
        /\ Go(p, <<with("free", i), with("drop", i)>>)
     \/ /\ ~Unused(fs.it[i])
        /\ Set(p, [fs EXCEPT !.it[i].ref = @ - 1]) /\ Go(p, <<>>)
  /\ UNCHANGED ret /\ Rest

IputFree(p) ==
  LET i == O(p).ip
      s == itrunc(fs, i)
      t == iupdate([s EXCEPT !.it[i].d.type = "none"], i)
  IN /\ At(p, "free")
     /\ Set(p, iunlock([t EXCEPT !.it[i].valid = FALSE], i)) /\ Go(p, <<>>)
     /\ UNCHANGED ret /\ Rest

IputDrop(p) ==
  /\ At(p, "drop")
  /\ Set(p, [fs EXCEPT !.it[O(p).ip].ref = @ - 1]) /\ Go(p, <<>>)
  /\ UNCHANGED ret /\ Rest

Unlock(p) ==
  /\ At(p, "unlock")
  /\ Set(p, iunlock(fs, O(p).ip)) /\ Go(p, <<>>)
  /\ UNCHANGED ret /\ Rest
-----------------------------------------------------------------------------
(* Calls begin and end                                                     *)

Calls(p) ==
  LET own == Programs[prog[p].id] IN
  IF prog[p].fork = 0 THEN own ELSE own[prog[p].fork].child
Ended(p) == prog[p].id = None
Call(p) == Calls(p)[prog[p].pos]

\* The call returns r.
Return(p, r) ==
  /\ prog' = [prog EXCEPT ![p].pos = @ + 1]
  /\ failed' = (failed \/ r \notin Call(p).want)
  /\ Only(p, <<>>)

\* end_op, and the return.
End(p) ==
  /\ At(p, "end")
  /\ Return(p, O(p).r)
  /\ inop' = [inop EXCEPT ![p] = FALSE]
  /\ UNCHANGED <<fs, ftab, ofile, cwd, ret>>

\* Calls that begin a transaction and look a path up.
Steps(c) ==
  CASE c.f = "open" /\ "creat" \in c.mode ->
         <<lookup(c.path, TRUE), Op("create"), Op("fd")>>
    [] c.f = "open" /\ "creat" \notin c.mode -> <<lookup(c.path, FALSE), Op("open")>>
    [] c.f \in {"mkdir", "mknod"} -> <<lookup(c.path, TRUE), Op("create"), Op("made")>>
    [] c.f = "link" -> <<lookup(c.path, FALSE), Op("link")>>
    [] c.f = "unlink" -> <<lookup(c.path, TRUE), Op("unlink")>>
    [] c.f = "chdir" -> <<lookup(c.path, FALSE), Op("chdir")>>

Begin(p) ==
  /\ todo[p] = <<>> /\ ~Ended(p)
  /\ Call(p).f \in {"open", "mkdir", "mknod", "link", "unlink", "chdir"}
  /\ inop' = [inop EXCEPT ![p] = TRUE]
  /\ todo' = [todo EXCEPT ![p] = Steps(Call(p))]
  /\ UNCHANGED <<fs, ftab, ofile, cwd, ret, prog, failed>>

\* namex returned 0: end_op and -1.
NotFound(p) ==
  /\ \E f \in {"create", "open", "link", "unlink", "chdir"} : At(p, f)
  /\ ret[p] = None
  /\ Only(p, <<end(-1)>>)
  /\ UNCHANGED <<fs, ret>> /\ Rest

Found(p, f) == At(p, f) /\ ret[p] # None
-----------------------------------------------------------------------------
(* Files                                                                   *)

FreeFds(p) == {fd \in Fds : ofile[p][fd] = None}
FreeFiles == {f \in Files : ftab[f].ref = 0}
Opens(p) == todo[p] = <<>> /\ ~Ended(p)
\* A call on a descriptor, argfd's test passed.
OnFile(p, f) == Opens(p) /\ Call(p).f = f /\ Call(p).fd \notin FreeFds(p)
File(p) == ofile[p][Call(p).fd]
Quiet == UNCHANGED <<ret, inop>>

\* argfd fails, or dup finds no descriptor.
BadFd(p) ==
  /\ Opens(p) /\ Call(p).f \in {"read", "write", "close", "dup", "fstat"}
  /\ Call(p).fd \in FreeFds(p) \/ (Call(p).f = "dup" /\ FreeFds(p) = {})
  /\ Return(p, -1)
  /\ UNCHANGED <<fs, ftab, ofile, cwd>> /\ Quiet

\* sys_dup: fdalloc and filedup.
sys_dup(p) ==
  LET fd == least(FreeFds(p)) IN
  /\ OnFile(p, "dup") /\ FreeFds(p) # {}
  /\ ofile' = [ofile EXCEPT ![p][fd] = File(p)]
  /\ ftab' = [ftab EXCEPT ![File(p)].ref = @ + 1]
  /\ Return(p, fd)
  /\ UNCHANGED <<fs, cwd>> /\ Quiet

\* fileclose of descriptor fd; then what p does next, inside a transaction
\* if an inode has to be put.
Put(f) == IF ftab[f].ref = 1 THEN NoFile ELSE [ftab[f] EXCEPT !.ref = @ - 1]
LastInode(f) == ftab[f].ref = 1 /\ ftab[f].ip # None
fileclose(p, fd) ==
  /\ ofile' = [ofile EXCEPT ![p][fd] = None]
  /\ ftab' = [ftab EXCEPT ![ofile[p][fd]] = Put(ofile[p][fd])]
  /\ inop' = [inop EXCEPT ![p] = LastInode(ofile[p][fd])]

sys_close(p) ==
  /\ OnFile(p, "close")
  /\ fileclose(p, Call(p).fd)
  /\ \/ /\ LastInode(File(p))
        /\ Only(p, <<iput(ftab[File(p)].ip), end(0)>>)
        /\ UNCHANGED <<prog, failed>>
     \/ ~LastInode(File(p)) /\ Return(p, 0)
  /\ UNCHANGED <<fs, cwd, ret>>

\* fileread and filestat.  A pipe and the console are other modules' business.
fileread(p) ==
  LET f == File(p)
      i == ftab[f].ip
      s == ilock(fs, i, p)
      units == readi(s, i, ftab[f].off, Call(p).n)
  IN /\ OnFile(p, "read")
     /\ \/ /\ ftab[f].r /\ ftab[f].type = "inode" /\ Free(i)
           /\ fs' = iunlock(s, i)
           /\ ftab' = [ftab EXCEPT ![f].off = @ + Len(units)]
           /\ Return(p, IF Call(p).data # <<>> /\ Call(p).data # units
                          THEN -1 ELSE Len(units))
        \/ /\ ~ftab[f].r
           /\ Return(p, -1) /\ UNCHANGED <<fs, ftab>>
     /\ UNCHANGED <<ofile, cwd>> /\ Quiet

\* fstat returns the size here.
filestat(p) ==
  LET i == ftab[File(p)].ip
      s == ilock(fs, i, p)
  IN /\ OnFile(p, "fstat")
     /\ \/ i # None /\ Free(i) /\ fs' = iunlock(s, i) /\ Return(p, s.it[i].d.size)
        \/ i = None /\ Return(p, -1) /\ UNCHANGED fs
     /\ UNCHANGED <<ftab, ofile, cwd>> /\ Quiet

\* One round of filewrite's loop, its begin_op and end_op included; i0 units
\* are written before.
filewrite(p) ==
  LET f == File(p)
      i == ftab[f].ip
      i0 == IF At(p, "write") THEN O(p).i ELSE 0
      n == Len(Call(p).data)
      n1 == IF n - i0 > WMAX THEN WMAX ELSE n - i0
      r == writei(ilock(fs, i, p), i, ftab[f].off,
                  SubSeq(Call(p).data, i0 + 1, i0 + n1), Call(p).bad)
  IN /\ OnFile(p, "write") \/ At(p, "write")
     /\ \/ /\ ftab[f].w /\ ftab[f].type = "inode" /\ Free(i)
           /\ fs' = iunlock(r.s, i)
           /\ ftab' = [ftab EXCEPT ![f].off = IF r.tot > 0 THEN @ + r.tot ELSE @]
           /\ \/ r.tot # n1 /\ Return(p, -1)
              \/ r.tot = n1 /\ i0 + n1 = n /\ Return(p, n)
              \/ /\ r.tot = n1 /\ i0 + n1 < n
                 /\ Only(p, <<[f |-> "write", i |-> i0 + n1]>>)
                 /\ UNCHANGED <<prog, failed>>
        \/ /\ ~ftab[f].w
           /\ Return(p, -1) /\ UNCHANGED <<fs, ftab>>
     /\ UNCHANGED <<ofile, cwd>> /\ Quiet

\* sys_pipe with pipealloc: two files and two descriptors, or none.
sys_pipe(p) ==
  LET f1 == least(FreeFiles)
      f2 == least(FreeFiles \ {f1})
      fd1 == least(FreeFds(p))
      fd2 == least(FreeFds(p) \ {fd1})
      end1 == [NoFile EXCEPT !.ref = 1, !.type = "pipe"]
      ok == Cardinality(FreeFiles) >= 2 /\ Cardinality(FreeFds(p)) >= 2
  IN /\ Opens(p) /\ Call(p).f = "pipe"
     /\ \/ /\ ok
           /\ ofile' = [ofile EXCEPT ![p][fd1] = f1, ![p][fd2] = f2]
           /\ ftab' = [ftab EXCEPT ![f1] = [end1 EXCEPT !.r = TRUE],
                                   ![f2] = [end1 EXCEPT !.w = TRUE]]
           /\ Return(p, 0)
        \/ ~ok /\ Return(p, -1) /\ UNCHANGED <<ofile, ftab>>
     /\ UNCHANGED <<fs, cwd>> /\ Quiet
-----------------------------------------------------------------------------
(* open, mkdir and mknod                                                   *)

\* The end of sys_open, with entry i locked in s.
OpenFile(p, s, i) ==
  LET type == s.it[i].d.type
      mode == Call(p).mode
      fd == least(FreeFds(p))
      f == least(FreeFiles)
      ok == type # "nodev" /\ FreeFiles # {} /\ FreeFds(p) # {}
      t == IF "trunc" \in mode /\ type = "file" THEN itrunc(s, i) ELSE s
  IN \/ /\ ok
        /\ Set(p, iunlock(t, i))
        /\ ofile' = [ofile EXCEPT ![p][fd] = f]
        /\ ftab' = [ftab EXCEPT ![f] =
             [ref |-> 1, type |-> IF type = "dev" THEN "dev" ELSE "inode", ip |-> i,
              off |-> 0, r |-> "w" \notin mode, w |-> mode \cap {"w", "rw"} # {}]]
        /\ Only(p, <<end(fd)>>)
     \/ /\ ~ok
        /\ Set(p, iunlock(s, i)) /\ Only(p, <<iput(i), end(-1)>>)
        /\ UNCHANGED <<ofile, ftab>>

sys_open(p) ==
  LET i == ret[p]
      s == ilock(fs, i, p)
  IN /\ Found(p, "open") /\ Free(i)
     /\ \/ /\ s.it[i].d.type = "dir" /\ Call(p).mode # {}
           /\ Set(p, iunlock(s, i)) /\ Only(p, <<iput(i), end(-1)>>)
           /\ UNCHANGED <<ofile, ftab>>
        \/ ~(s.it[i].d.type = "dir" /\ Call(p).mode # {}) /\ OpenFile(p, s, i)
     /\ UNCHANGED <<cwd, ret, inop, prog, failed>>

\* After create, which returns the inode locked.
sys_open_created(p) ==
  /\ At(p, "fd")
  /\ OpenFile(p, fs, ret[p])
  /\ UNCHANGED <<cwd, ret, inop, prog, failed>>

\* sys_mkdir and sys_mknod after create.
sys_mkdir(p) ==
  /\ At(p, "made")
  /\ Set(p, iunlock(fs, ret[p])) /\ Only(p, <<iput(ret[p]), end(0)>>)
  /\ UNCHANGED ret /\ Rest

CallType(p) ==
  CASE Call(p).f = "open" -> "file" [] Call(p).f = "mkdir" -> "dir"
    [] Call(p).f = "mknod" -> Call(p).type

\* The entries "." and ".." of a new directory: [s, tot].
Dots(s, dp, i, type) ==
  IF type # "dir" THEN [s |-> s, tot |-> 1]
  ELSE Let(dirlink(s, i, ".", s.it[i].inum), LAMBDA r :
             IF r.tot # 1 THEN r ELSE dirlink(r.s, i, "..", s.it[dp].inum))

\* create with a new inode, entry i, locked.
create_new(p, n, dp, name, i, type) ==
  \E m \in {Let(setnlink(n, i, 1), LAMBDA s : Dots(s, dp, i, type))} :
  \E r \in {IF m.tot # 1 THEN m ELSE dirlink(m.s, dp, name, m.s.it[i].inum)} :
    \/ /\ r.tot = 1
       /\ Set(p, iunlock(IF type = "dir" THEN setnlink(r.s, dp, r.s.it[dp].d.nlink + 1)
                                          ELSE r.s, dp))
       /\ Go(p, <<iput(dp)>>)
       /\ ret' = [ret EXCEPT ![p] = i]
    \/ /\ r.tot # 1
       /\ Set(p, iunlock(setnlink(r.s, i, 0), i))
       /\ Only(p, <<iput(i), unlock(dp), iput(dp), end(-1)>>)
       /\ UNCHANGED ret

create(p) ==
  LET dp == ret[p]
      name == skipelem(Last(Call(p).path))
      type == CallType(p)
  IN /\ Found(p, "create") /\ Free(dp)
     /\ \E s \in {ilock(fs, dp, p)} : \E offs \in {dirlookup(s, dp, name)} :
        \/ /\ offs # {}
           /\ \E old \in {iget(s, inumat(s, dp, least(offs)))} :
                /\ Set(p, iunlock(old.s, dp))
                /\ Go(p, <<iput(dp), with("old", old.ip)>>)
           /\ UNCHANGED ret
        \/ /\ offs = {}
           /\ \E a \in {ialloc(s, type)} :
              \/ /\ a.ip = None
                 /\ Set(p, iunlock(s, dp))
                 /\ Only(p, <<iput(dp), end(-1)>>) /\ UNCHANGED ret
              \/ /\ a.ip # None
                 /\ create_new(p, ilock(a.s, a.ip, p), dp, name, a.ip, type)
     /\ Rest

\* The name was there.
create_old(p) ==
  LET i == O(p).ip
      s == ilock(fs, i, p)
      ok == CallType(p) = "file" /\ s.it[i].d.type \in {"file"} \cup Devices
  IN /\ At(p, "old") /\ Free(i)
     /\ \/ ok /\ Set(p, s) /\ Go(p, <<>>) /\ ret' = [ret EXCEPT ![p] = i]
        \/ /\ ~ok /\ Set(p, iunlock(s, i)) /\ Only(p, <<iput(i), end(-1)>>)
           /\ UNCHANGED ret
     /\ Rest
-----------------------------------------------------------------------------
(* link, unlink and chdir                                                  *)

sys_link(p) ==
  LET i == ret[p]
      s == ilock(fs, i, p)
  IN /\ Found(p, "link") /\ Free(i)
     /\ \/ /\ s.it[i].d.type = "dir"
           /\ Set(p, iunlock(s, i)) /\ Only(p, <<iput(i), end(-1)>>)
        \/ /\ s.it[i].d.type # "dir"
           /\ Set(p, iunlock(setnlink(s, i, s.it[i].d.nlink + 1), i))
           /\ Only(p, <<lookup(Call(p).new, TRUE), with("link2", i)>>)
     /\ UNCHANGED ret /\ Rest

sys_link_new(p) ==
  LET i == O(p).ip
      dp == ret[p]
      s == ilock(fs, dp, p)
      name == skipelem(Last(Call(p).new))
      offs == dirlookup(s, dp, name)
      old == iget(s, inumat(s, dp, least(offs)))
      r == dirlink(s, dp, name, s.it[i].inum)
  IN /\ At(p, "link2")
     /\ \/ /\ dp = None /\ Go(p, <<with("bad", i)>>) /\ UNCHANGED fs
        \/ /\ dp # None /\ Free(dp) /\ offs # {}
           /\ Set(p, old.s)
           /\ Go(p, <<iput(old.ip), unlock(dp), iput(dp), with("bad", i)>>)
        \/ /\ dp # None /\ Free(dp) /\ offs = {} /\ r.tot # 1
           /\ Set(p, iunlock(r.s, dp)) /\ Go(p, <<iput(dp), with("bad", i)>>)
        \/ /\ dp # None /\ Free(dp) /\ offs = {} /\ r.tot = 1
           /\ Set(p, iunlock(r.s, dp)) /\ Go(p, <<iput(dp), iput(i), end(0)>>)
     /\ UNCHANGED ret /\ Rest

\* Mutant of sys_link_bad: the link is not taken back.
sys_link_bad_Keep(p) ==
  LET i == O(p).ip
      s == ilock(fs, i, p)
  IN /\ At(p, "bad") /\ Free(i)
     /\ Set(p, iunlock(s, i)) /\ Go(p, <<iput(i), end(-1)>>)
     /\ UNCHANGED ret /\ Rest

sys_link_bad(p) ==
  LET i == O(p).ip
      s == ilock(fs, i, p)
  IN /\ At(p, "bad") /\ Free(i)
     /\ Set(p, iunlock(setnlink(s, i, s.it[i].d.nlink - 1), i))
     /\ Go(p, <<iput(i), end(-1)>>)
     /\ UNCHANGED ret /\ Rest

\* sys_unlink up to the lock of the entry's inode; the directory stays locked.
sys_unlink(p) ==
  LET dp == ret[p]
      s == ilock(fs, dp, p)
      name == skipelem(Last(Call(p).path))
      offs == dirlookup(s, dp, name)
      r == iget(s, inumat(s, dp, least(offs)))
      no == name \in {".", ".."} \/ offs = {}
  IN /\ Found(p, "unlink") /\ Free(dp)
     /\ \/ no /\ Set(p, iunlock(s, dp)) /\ Go(p, <<iput(dp), end(-1)>>)
        \/ /\ ~no /\ Set(p, r.s)
           /\ Go(p, <<[f |-> "unlink2", dp |-> dp, ip |-> r.ip, off |-> least(offs)]>>)
     /\ UNCHANGED ret /\ Rest

sys_unlink_entry(p) ==
  LET o == O(p)
      s == ilock(fs, o.ip, p)
      dir == s.it[o.ip].d.type = "dir"
      w == writei(s, o.dp, o.off, << <<>> >>, FALSE)
      t == IF s.it[o.ip].d.nlink < 1 THEN panic(s, "unlink: nlink < 1")
           ELSE IF w.tot # 1 THEN panic(w.s, "unlink: writei")
           ELSE IF dir THEN setnlink(w.s, o.dp, w.s.it[o.dp].d.nlink - 1) ELSE w.s
  IN /\ At(p, "unlink2") /\ Free(o.ip)
     /\ \/ /\ s.it[o.ip].d.nlink >= 1 /\ dir /\ ~isdirempty(s, o.ip)
           /\ Set(p, iunlock(s, o.ip))
           /\ Go(p, <<iput(o.ip), unlock(o.dp), iput(o.dp), end(-1)>>)
        \/ /\ ~(s.it[o.ip].d.nlink >= 1 /\ dir /\ ~isdirempty(s, o.ip))
           /\ Set(p, iunlock(t, o.dp))
           /\ Go(p, <<iput(o.dp), with("unlink3", o.ip)>>)
     /\ UNCHANGED ret /\ Rest

sys_unlink_last(p) ==
  LET i == O(p).ip IN
  /\ At(p, "unlink3")
  /\ Set(p, iunlock(setnlink(fs, i, fs.it[i].d.nlink - 1), i))
  /\ Go(p, <<iput(i), end(0)>>)
  /\ UNCHANGED ret /\ Rest

sys_chdir(p) ==
  LET i == ret[p]
      s == ilock(fs, i, p)
      dir == s.it[i].d.type = "dir"
  IN /\ Found(p, "chdir") /\ Free(i)
     /\ Set(p, iunlock(s, i))
     /\ Go(p, IF dir THEN <<iput(cwd[p]), with("cd", i)>> ELSE <<iput(i), end(-1)>>)
     /\ UNCHANGED ret /\ Rest

\* end_op, then p->cwd = ip.
sys_chdir_end(p) ==
  /\ At(p, "cd")
  /\ cwd' = [cwd EXCEPT ![p] = O(p).ip]
  /\ inop' = [inop EXCEPT ![p] = FALSE]
  /\ Return(p, 0)
  /\ UNCHANGED <<fs, ftab, ofile, ret>>
-----------------------------------------------------------------------------
(* Processes: fork, exit and wait as far as they concern files             *)

\* The child shares the open files and the current directory.
fork(p) ==
  LET shares(f) == Cardinality({fd \in Fds : ofile[p][fd] = f}) IN
  /\ Opens(p) /\ Call(p).f = "fork"
  /\ \E q \in Procs \ {p} :
       /\ Ended(q)
       /\ ofile' = [ofile EXCEPT ![q] = ofile[p]]
       /\ ftab' = [f \in Files |-> [ftab[f] EXCEPT !.ref = @ + shares(f)]]
       /\ cwd' = [cwd EXCEPT ![q] = cwd[p]]
       /\ fs' = idup(fs, cwd[p])
       /\ prog' = [prog EXCEPT ![p].pos = @ + 1,
                               ![q] = [id |-> prog[p].id, fork |-> prog[p].pos, pos |-> 1]]
  /\ UNCHANGED <<todo, ret, inop, failed>>

wait(p) ==
  /\ Opens(p) /\ Call(p).f = "wait"
  /\ \A q \in Procs \ {p} : Ended(q)
  /\ Return(p, 0)
  /\ UNCHANGED <<fs, ftab, ofile, cwd>> /\ Quiet

\* exit closes the files one after the other, then puts the directory.
ExitFile(p) ==
  LET open == Fds \ FreeFds(p)
      f == ofile[p][least(open)]
  IN /\ Opens(p) \/ At(p, "exit")
     /\ Call(p).f = "exit" /\ open # {}
     /\ fileclose(p, least(open))
     /\ Only(p, (IF LastInode(f) THEN <<iput(ftab[f].ip), Op("end_op")>> ELSE <<>>)
                  \o <<Op("exit")>>)
     /\ UNCHANGED <<fs, cwd, ret, prog, failed>>

EndOp(p) ==
  /\ At(p, "end_op")
  /\ inop' = [inop EXCEPT ![p] = FALSE]
  /\ Go(p, <<>>)
  /\ UNCHANGED <<fs, ftab, ofile, cwd, ret, prog, failed>>

ExitDir(p) ==
  /\ Opens(p) \/ At(p, "exit")
  /\ Call(p).f = "exit" /\ FreeFds(p) = Fds
  /\ inop' = [inop EXCEPT ![p] = TRUE]
  /\ Only(p, <<iput(cwd[p]), Op("exited")>>)
  /\ UNCHANGED <<fs, ftab, ofile, cwd, ret, prog, failed>>

exit(p) ==
  /\ At(p, "exited")
  /\ inop' = [inop EXCEPT ![p] = FALSE]
  /\ cwd' = [cwd EXCEPT ![p] = None]
  /\ prog' = [prog EXCEPT ![p] = NoProg]
  /\ Only(p, <<>>)
  /\ UNCHANGED <<fs, ftab, ofile, ret, failed>>
-----------------------------------------------------------------------------
Kernel(p) ==
  \/ DoLookup(p) \/ NamexEnd(p) \/ Namex(p) \/ Iput(p) \/ IputFree(p)
  \/ IputDrop(p) \/ Unlock(p) \/ End(p) \/ EndOp(p) \/ NotFound(p)
  \/ filewrite(p) \/ sys_open(p) \/ sys_open_created(p) \/ sys_mkdir(p)
  \/ create(p) \/ create_old(p) \/ sys_link(p) \/ sys_link_new(p)
  \/ sys_link_bad(p) \/ sys_unlink(p) \/ sys_unlink_entry(p)
  \/ sys_unlink_last(p) \/ sys_chdir(p) \/ sys_chdir_end(p)
  \/ ExitFile(p) \/ ExitDir(p) \/ exit(p)

Syscall(p) ==
  \/ Begin(p) \/ BadFd(p) \/ sys_dup(p) \/ sys_close(p) \/ fileread(p)
  \/ filestat(p) \/ sys_pipe(p) \/ fork(p) \/ wait(p)

Next ==
  /\ fs.panic = None
  /\ \/ \E p \in Procs : Kernel(p) \/ Syscall(p)
     \/ (\A p \in Procs : Ended(p)) /\ UNCHANGED vars
=============================================================================
