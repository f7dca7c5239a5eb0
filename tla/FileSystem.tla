----------------------------- MODULE FileSystem ------------------------------
(***************************************************************************)
(* kernel/fs.c as functions on a file system s, a record of                *)
(*   map   the blocks in use             (the bitmap)                      *)
(*   blk   what each data block holds                                      *)
(*   din   the inodes on the disk        (type, nlink, size, addrs)        *)
(*   it    the inode table in memory     (inum, ref, valid, lock, d),      *)
(*         d being the copy of the disk's inode                            *)
(*   panic the text of a panic, or None.                                   *)
(* Sizes and offsets count units, BSIZE of them to a block: one directory  *)
(* entry <<name, inum>>, one unit <<v>> of a file's data, or one address   *)
(* <<b>> in an indirect block.  An empty unit is <<>>.                     *)
(*                                                                         *)
(* Each function stands for code that runs under the lock of the inode it  *)
(* changes.  Blocks are allocated and freed one at a time under the        *)
(* bitmap's buffer lock; since nobody looks for a particular block, taking *)
(* the blocks of one call together loses no outcome.                       *)
(***************************************************************************)
EXTENDS Values, Sequences, FiniteSets, SequencesExt

CONSTANTS
  NBLOCKS,     \* data blocks, 1 .. NBLOCKS; the address 0 is none
  NINODES,     \* inodes on the disk, 1 .. NINODES
  NINODE,      \* entries of the inode table
  BSIZE, NDIRECT, NINDIRECT,
  None         \* no holder of a lock, no entry, no file

ASSUME FileSystemAssumption ==
  /\ {NBLOCKS, NINODES, NINODE, BSIZE, NDIRECT, NINDIRECT} \subseteq Nat \ {0}
  /\ NINDIRECT <= BSIZE

Blocks == 1 .. NBLOCKS
Inums == 1 .. NINODES
Slots == 1 .. NINODE
ROOTINO == 1
MAXFILE == NDIRECT + NINDIRECT
Devices == {"dev", "nodev"}        \* T_DEVICE, with a major of devsw[] or not

Zeroes == [u \in 0 .. BSIZE - 1 |-> <<>>]
NoInode == [type |-> "none", nlink |-> 0, size |-> 0,
            addrs |-> [n \in 0 .. NDIRECT |-> 0]]
-----------------------------------------------------------------------------
(* Blocks                                                                  *)

\* balloc: [s, addr], addr = 0 if there is no block.
balloc(s) ==
  IF Blocks \subseteq s.map THEN [s |-> s, addr |-> 0]
  ELSE LET b == least(Blocks \ s.map) IN
       [s |-> [s EXCEPT !.map = @ \cup {b}, !.blk[b] = Zeroes], addr |-> b]

\* balloc for place bn of entry i's addrs, if that is empty.
direct(s, i, bn) ==
  IF s.it[i].d.addrs[bn] # 0 THEN [s |-> s, addr |-> s.it[i].d.addrs[bn]]
  ELSE Let(balloc(s), LAMBDA r : [r EXCEPT !.s.it[i].d.addrs[bn] = r.addr])

\* Place n of indirect block ind, which may be 0.
indirect(s, ind, n) ==
  IF ind = 0 THEN [s |-> s, addr |-> 0]
  ELSE IF s.blk[ind][n] # <<>> THEN [s |-> s, addr |-> s.blk[ind][n][1]]
  ELSE Let(balloc(s), LAMBDA r :
             IF r.addr = 0 THEN r ELSE [r EXCEPT !.s.blk[ind][n] = <<r.addr>>])

\* Block number bn of table entry i, allocated if need be.
bmap(s, i, bn) ==
  IF bn < NDIRECT THEN direct(s, i, bn)
  ELSE Let(direct(s, i, NDIRECT),
           LAMBDA r : indirect(r.s, r.addr, bn - NDIRECT))

\* The blocks that an inode's copy d uses, with its indirect block.
BlocksOf(s, d) ==
  LET ind == d.addrs[NDIRECT] IN
  ({d.addrs[n] : n \in 0 .. NDIRECT}
    \cup IF ind = 0 THEN {}
         ELSE {s.blk[ind][n][1] : n \in {m \in 0 .. NINDIRECT - 1 :
                                           s.blk[ind][m] # <<>>}}) \ {0}
-----------------------------------------------------------------------------
(* Inodes                                                                  *)

iupdate(s, i) == Let(s, LAMBDA t : [t EXCEPT !.din[t.it[i].inum] = t.it[i].d])

panic(s, text) == [s EXCEPT !.panic = text]

iget(s, inum) ==
  LET found == {i \in Slots : s.it[i].ref > 0 /\ s.it[i].inum = inum}
      empty == {i \in Slots : s.it[i].ref = 0}
  IN IF found # {} THEN
       LET i == least(found) IN [s |-> [s EXCEPT !.it[i].ref = @ + 1], ip |-> i]
     ELSE IF empty = {} THEN [s |-> panic(s, "iget: no inodes"), ip |-> 1]
     ELSE LET i == least(empty) IN
          [s |-> [s EXCEPT !.it[i].inum = inum, !.it[i].ref = 1,
                           !.it[i].valid = FALSE],
           ip |-> i]

\* [s, ip], ip = None if there is no free inode.
ialloc(s, type) ==
  LET unused == {n \in Inums : s.din[n].type = "none"} IN
  IF unused = {} THEN [s |-> s, ip |-> None]
  ELSE iget([s EXCEPT !.din[least(unused)] = [NoInode EXCEPT !.type = type]],
            least(unused))

idup(s, i) == [s EXCEPT !.it[i].ref = @ + 1]

\* p has acquired the lock: the copy is read if it is not valid.
ilock(s, i, p) ==
  LET d == IF s.it[i].valid THEN s.it[i].d ELSE s.din[s.it[i].inum]
      t == [s EXCEPT !.it[i].lock = p, !.it[i].valid = TRUE, !.it[i].d = d]
  IN IF d.type = "none" THEN panic(t, "ilock: no type") ELSE t

iunlock(s, i) == [s EXCEPT !.it[i].lock = None]

\* Mutant of itrunc: blocks past the end of the file are overlooked.
itrunc_BySize(s, i) ==
  LET d == s.it[i].d
      n == (d.size + BSIZE - 1) \div BSIZE
      used == IF n > NDIRECT THEN BlocksOf(s, d)
              ELSE {d.addrs[m] : m \in 0 .. n - 1} \ {0}
  IN iupdate([s EXCEPT !.map = @ \ used,
                       !.it[i].d.addrs = NoInode.addrs, !.it[i].d.size = 0], i)

itrunc(s, i) ==
  iupdate([s EXCEPT !.map = @ \ BlocksOf(s, s.it[i].d),
                    !.it[i].d.addrs = NoInode.addrs, !.it[i].d.size = 0], i)

setnlink(s, i, n) == iupdate([s EXCEPT !.it[i].d.nlink = n], i)
-----------------------------------------------------------------------------
(* Content                                                                 *)

\* Where the unit at an offset below the size is.
addrof(s, d, off) ==
  LET bn == off \div BSIZE IN
  IF bn < NDIRECT THEN d.addrs[bn] ELSE s.blk[d.addrs[NDIRECT]][bn - NDIRECT][1]
unit(s, d, off) == s.blk[addrof(s, d, off)][off % BSIZE]

\* The units that readi copies.
readi(s, i, off, n) ==
  LET d == s.it[i].d
      m == IF off > d.size THEN 0 ELSE IF off + n > d.size THEN d.size - off ELSE n
  IN [j \in 1 .. m |-> unit(s, d, off + j - 1)]

\* One unit written; bad says that it cannot be copied in from the user.
writeunit(acc, i, u, bad) ==
  IF acc.stop THEN acc
  ELSE Let(bmap(acc.s, i, acc.off \div BSIZE), LAMBDA r :
         IF r.addr = 0 \/ bad THEN [acc EXCEPT !.s = r.s, !.stop = TRUE]
         ELSE [acc EXCEPT !.s = [r.s EXCEPT !.blk[r.addr][acc.off % BSIZE] = u],
                          !.off = @ + 1, !.tot = @ + 1])

\* writei: [s, tot], tot = -1 for an offset past the end or past MAXFILE.
writei(s, i, off, units, bad) ==
  IF off > s.it[i].d.size \/ off + Len(units) > MAXFILE * BSIZE
    THEN [s |-> s, tot |-> -1]
  ELSE
    LET w[n \in 0 .. Len(units)] ==
          IF n = 0 THEN [s |-> s, off |-> off, tot |-> 0, stop |-> FALSE]
          ELSE Let(w[n - 1], LAMBDA acc : writeunit(acc, i, units[n], bad))
    IN Let(w[Len(units)], LAMBDA acc :
         [s |-> iupdate([acc.s EXCEPT !.it[i].d.size =
                           IF acc.off > @ THEN acc.off ELSE @], i),
          tot |-> acc.tot])
-----------------------------------------------------------------------------
(* Directories                                                             *)

\* The offsets of the entries with this name.
entries(s, d, name) ==
  {off \in 0 .. d.size - 1 :
     unit(s, d, off) # <<>> /\ unit(s, d, off)[1] = name}

\* The entries of a directory, "." and ".." included.
dirents(s, d) == {unit(s, d, off) : off \in 0 .. d.size - 1} \ {<<>>}

dirlookup(s, i, name) == entries(s, s.it[i].d, name)
inumat(s, i, off) == unit(s, s.it[i].d, off)[2]

\* dirlink where the name is not there yet.
dirlink(s, i, name, inum) ==
  LET d == s.it[i].d
      holes == {off \in 0 .. d.size - 1 : unit(s, d, off) = <<>>}
      off == IF holes = {} THEN d.size ELSE least(holes)
  IN writei(s, i, off, << <<name, inum>> >>, FALSE)

\* A name of more than DIRSIZ characters loses the rest.
skipelem(name) == IF name = "fifteen" THEN "fourteen" ELSE name

\* Mutant of isdirempty: the first entry after "." and ".." is passed over.
isdirempty_Skip(s, i) ==
  LET d == s.it[i].d IN \A off \in 3 .. d.size - 1 : unit(s, d, off) = <<>>

\* isdirempty of sysfile.c.
isdirempty(s, i) ==
  LET d == s.it[i].d IN \A off \in 2 .. d.size - 1 : unit(s, d, off) = <<>>
-----------------------------------------------------------------------------
\* mkfs: the root directory and one file "f" of one unit, the program or
\* README that the tests find.
mkfs ==
  LET root == [type |-> "dir", nlink |-> 1, size |-> 2 * BSIZE,
               addrs |-> [n \in 0 .. NDIRECT |-> IF n <= 1 THEN n + 1 ELSE 0]]
      f == [type |-> "file", nlink |-> 1, size |-> 1,
            addrs |-> [n \in 0 .. NDIRECT |-> IF n = 0 THEN 3 ELSE 0]]
  IN [map |-> 1 .. 3,
      blk |-> [b \in Blocks |->
                 CASE b = 1 -> [Zeroes EXCEPT ![0] = <<".", ROOTINO>>,
                                              ![1] = <<"..", ROOTINO>>]
                   [] b = 2 -> [Zeroes EXCEPT ![0] = <<"f", 2>>]
                   [] b = 3 -> [Zeroes EXCEPT ![0] = <<9>>]
                   [] OTHER -> Zeroes],
      din |-> [n \in Inums |-> CASE n = ROOTINO -> root [] n = 2 -> f
                                 [] OTHER -> NoInode],
      it |-> [i \in Slots |-> [inum |-> 0, ref |-> 0, valid |-> FALSE,
                               lock |-> None, d |-> NoInode]],
      panic |-> None]
=============================================================================
