------------------------------- MODULE Execute -------------------------------
(***************************************************************************)
(* execute_pipeline of mybash (LAB1/execute.c, builtin.c): the shell makes *)
(* the pipes, forks the commands and closes its own ends while the first   *)
(* commands, and those of earlier lines that ended in "&", already run.    *)
(*                                                                         *)
(* What a command does comes from elsewhere: here each copies its standard *)
(* input to its standard output until end of file, or stops earlier.  Of a *)
(* pipe only the number of bytes in it matters.  Command c is the c-th     *)
(* that the shell forks; the pipe behind it is pipe c, with the ends       *)
(* <<c, "r">> and <<c, "w">>.  pc goes on from module Parsing:             *)
(*   "pipe()", "fork", "close"   in the loop, for command i                *)
(*   "wait"    before waitpid(id_children[i])                              *)
(*   "signal"  before signal(SIGCHLD, SIG_IGN)                             *)
(*   "returned", "exited"                                                  *)
(***************************************************************************)
EXTENDS Parsing

CONSTANTS
  MaxCommands,     \* bound of the model: commands of all lines
  Capacity,        \* bytes a pipe holds
  Input,           \* bytes a command gets from anything that is not a pipe
  CallsMayFail     \* whether fork and pipe can fail

ASSUME ExecuteAssumption ==
  /\ MaxCommands \in Nat \ {0} /\ Capacity \in Nat \ {0} /\ Input \in Nat
  /\ CallsMayFail \in BOOLEAN

VARIABLES
  base, length, i, \* commands forked for earlier lines; pipe_length; the loop
  shell,           \* the pipe ends the shell has open
  ignored,         \* SIGCHLD is ignored: ended children leave no zombie
  child,           \* each command: its state, what it copied of the shell's
                   \* memory, its descriptors, input left, a byte it holds
  bytes,           \* in each pipe
  failed           \* fork or pipe failed

parsevars == <<input, scom>>
shellvars == <<pc, apipe, base, length, i, shell, ignored, failed>>
vars == <<parsevars, shellvars, child, bytes>>

Commands == 0 .. MaxCommands - 1
Ends(k) == {<<k, "r">>, <<k, "w">>}
Other(w) == <<-1, w>>   \* a descriptor that is not a pipe
AnyEnd == UNION {Ends(k) : k \in Commands}

unborn == [st |-> "unborn", sc |-> NULL, first |-> FALSE, last |-> FALSE, fds |-> {},
           stdin |-> Other("inherited"), stdout |-> Other("inherited"),
           left |-> Input, has |-> FALSE]

goto(l) == pc' = l
self == base + i
last == length - 1
Gone(c) == child[c].st \in {"zombie", "reaped", "unborn"}
-----------------------------------------------------------------------------
(* builtin.c.                                                              *)

Builtins == {"cd", "help", "exit"}
builtin_is_internal(sc) == scommand_front(sc) \in Builtins
builtin_alone(p) == pipeline_length(p) = 1 /\ builtin_is_internal(pipeline_front(p))
-----------------------------------------------------------------------------
(* The shell.                                                              *)

\* cd and help print or chdir, and return; exit does not.
builtin_run ==
  /\ pc = "execute" /\ builtin_alone(apipe)
  /\ \/ scommand_front(pipeline_front(apipe)) = "exit" /\ goto("exited") /\ shell' = {}
     \/ scommand_front(pipeline_front(apipe)) # "exit" /\ goto("returned") /\ UNCHANGED shell
  /\ UNCHANGED <<parsevars, apipe, base, length, i, ignored, failed, child, bytes>>

newborn(fds, st) ==
  [unborn EXCEPT !.st = st, !.sc = pipeline_front(apipe), !.first = (i = 0),
                 !.last = (i = last), !.fds = fds]

\* A pipeline of one command: fork, no pipes.  MaxCommands bounds the model.
execute_one ==
  /\ pc = "execute" /\ ~builtin_alone(apipe) /\ pipeline_length(apipe) = 1
  /\ base + 1 <= MaxCommands
  /\ length' = 1 /\ i' = 0
  /\ \/ /\ child' = [child EXCEPT ![base] = [newborn(shell, "redirect") EXCEPT
                                               !.first = TRUE, !.last = TRUE]]
        /\ UNCHANGED failed
     \/ CallsMayFail /\ failed' = TRUE /\ UNCHANGED child
  /\ goto(IF apipe.wait THEN "wait" ELSE "signal")
  /\ UNCHANGED <<parsevars, apipe, base, shell, ignored, bytes>>

execute_many ==
  /\ pc = "execute" /\ pipeline_length(apipe) > 1
  /\ base + pipeline_length(apipe) <= MaxCommands
  /\ length' = pipeline_length(apipe) /\ i' = 0
  /\ goto("pipe()")
  /\ UNCHANGED <<parsevars, apipe, base, shell, ignored, failed, child, bytes>>

NeedsPipe == i # last

\* pipe(pipefd[i]), except for the last command; the shell exits if it fails.
make_pipe ==
  /\ pc = "pipe()"
  /\ \/ NeedsPipe /\ shell' = shell \cup Ends(self) /\ goto("fork") /\ UNCHANGED failed
     \/ ~NeedsPipe /\ goto("fork") /\ UNCHANGED <<shell, failed>>
     \/ NeedsPipe /\ CallsMayFail /\ goto("exited") /\ shell' = {} /\ failed' = TRUE
  /\ UNCHANGED <<parsevars, apipe, base, length, i, ignored, child, bytes>>

\* When fork fails execute_pipeline returns at once: its ends stay open and
\* nobody is waited for.
fork ==
  /\ pc = "fork"
  /\ \/ /\ child' = [child EXCEPT ![self] = newborn(shell, "setup_out")]
        /\ goto("close")
        /\ UNCHANGED failed
     \/ /\ CallsMayFail
        /\ goto("returned") /\ failed' = TRUE
        /\ UNCHANGED child
  /\ UNCHANGED <<parsevars, apipe, base, length, i, shell, ignored, bytes>>

\* Mutant of ToClose: the shell keeps its write end.
ToClose_Read == IF i # 0 THEN {<<self - 1, "r">>} ELSE {}

ToClose == IF i # 0 THEN Ends(self - 1) ELSE {}

close_behind ==
  /\ pc = "close"
  /\ shell' = shell \ ToClose
  /\ apipe' = pipeline_pop_front(apipe)
  /\ \/ i < last /\ i' = i + 1 /\ goto("pipe()")
     \/ i = last /\ i' = 0 /\ goto(IF apipe.wait THEN "wait" ELSE "signal")
  /\ UNCHANGED <<parsevars, base, length, ignored, failed, child, bytes>>

reap(c) == child' = [child EXCEPT ![c].st = IF @ = "zombie" THEN "reaped" ELSE @]

\* Mutant of Waited: only the last command is waited for.
Waited_Last == Gone(base + last)

\* waitpid(id_children[i]).
Waited == Gone(self)

\* The fork of a pipeline of one failed: waitpid(-1) is for any child, and
\* fails when there is none.
Waited_any(c) == child[c].st = "zombie" \/ (c = self /\ \A d \in Commands : Gone(d))

wait_next ==
  /\ pc = "wait"
  /\ \/ child[self].st # "unborn" /\ Waited /\ reap(self)
     \/ /\ child[self].st = "unborn"
        /\ \E c \in Commands :
             Waited_any(c) /\ reap(c)
  /\ \/ i < last /\ i' = i + 1 /\ UNCHANGED pc
     \/ i = last /\ goto("returned") /\ UNCHANGED i
  /\ UNCHANGED <<parsevars, apipe, base, length, shell, ignored, failed, bytes>>

\* signal(SIGCHLD, SIG_IGN): for good, and too late for whoever has ended.
ignore ==
  /\ pc = "signal"
  /\ ignored' = TRUE
  /\ goto("returned")
  /\ UNCHANGED <<parsevars, apipe, base, length, i, shell, failed, child, bytes>>
-----------------------------------------------------------------------------
(* A command, before execvp.                                               *)

\* Exit closes every descriptor, and nothing is left of the process.
exit(c) ==
  /\ child' = [child EXCEPT ![c] = [unborn EXCEPT !.st = IF ignored THEN "reaped" ELSE "zombie"]]
  /\ UNCHANGED <<parsevars, shellvars, bytes>>

Becomes(c, r) ==
  /\ child' = [child EXCEPT ![c] = r]
  /\ UNCHANGED <<parsevars, shellvars, bytes>>

\* An empty command of a longer pipeline exits at once.
setup_out(c) ==
  LET me == child[c]
  IN /\ me.st = "setup_out"
     /\ \/ is_blank(me.sc) /\ exit(c)
        \/ ~is_blank(me.sc) /\ ~me.last
             /\ Becomes(c, [me EXCEPT !.st = "setup_in", !.fds = @ \ Ends(c), !.stdout = <<c, "w">>])
        \/ ~is_blank(me.sc) /\ me.last /\ Becomes(c, [me EXCEPT !.st = "setup_in"])

setup_in(c) ==
  LET me == child[c]
  IN /\ me.st = "setup_in"
     /\ \/ ~me.first /\ Becomes(c, [me EXCEPT !.st = "redirect", !.fds = @ \ Ends(c - 1),
                                              !.stdin = <<c - 1, "r">>])
        \/ me.first /\ Becomes(c, [me EXCEPT !.st = "redirect"])

\* execute_scommand: redirections, then execvp, which may fail (quit).  A file
\* that cannot be opened leaves the descriptor closed: no input, output lost.
execute_scommand(c) ==
  LET me == child[c]
  IN /\ me.st = "redirect"
     /\ Becomes(c, [me EXCEPT !.st = "run", !.sc = NULL,
                      !.stdin = IF me.sc.in # NULL THEN Other("file") ELSE @,
                      !.stdout = IF me.sc.out # NULL THEN Other("file") ELSE @])
-----------------------------------------------------------------------------
(* A running command, and what it sees of its neighbours through the pipes. *)

Holds(c, e) == e \in child[c].fds \/ child[c].stdin = e \/ child[c].stdout = e
Open(e) == e \in shell \/ \E c \in Commands : Holds(c, e)

\* A command may fail or stop early.
quit(c) == child[c].st = "run" /\ exit(c)

EOF(c) ==
  LET in == child[c].stdin
  IN IF in \in AnyEnd THEN bytes[in[1]] = 0 /\ ~Open(<<in[1], "w">>) ELSE child[c].left = 0

Broken(c) ==
  LET out == child[c].stdout
  IN out \in AnyEnd /\ ~Open(<<out[1], "r">>)

\* End of input, or SIGPIPE.
finish(c) ==
  /\ IF child[c].has THEN Broken(c) ELSE EOF(c)
  /\ quit(c)

read(c) ==
  LET in == child[c].stdin
  IN /\ child[c].st = "run" /\ ~child[c].has
     /\ \/ /\ in \in AnyEnd /\ bytes[in[1]] > 0
           /\ bytes' = [bytes EXCEPT ![in[1]] = @ - 1]
           /\ child' = [child EXCEPT ![c].has = TRUE]
        \/ /\ in \notin AnyEnd /\ child[c].left > 0
           /\ child' = [child EXCEPT ![c].has = TRUE, ![c].left = @ - 1]
           /\ UNCHANGED bytes
     /\ UNCHANGED <<parsevars, shellvars>>

write(c) ==
  LET out == child[c].stdout
  IN /\ child[c].st = "run" /\ child[c].has /\ ~Broken(c)
     /\ \/ /\ out \in AnyEnd /\ bytes[out[1]] < Capacity
           /\ bytes' = [bytes EXCEPT ![out[1]] = @ + 1]
        \/ out \notin AnyEnd /\ UNCHANGED bytes
     /\ child' = [child EXCEPT ![c].has = FALSE]
     /\ UNCHANGED <<parsevars, shellvars>>
-----------------------------------------------------------------------------
execute_pipeline ==
  \/ builtin_run \/ execute_one \/ execute_many
  \/ make_pipe \/ fork \/ close_behind \/ wait_next \/ ignore

Command(c) ==
  \/ setup_out(c) \/ setup_in(c) \/ execute_scommand(c)
  \/ read(c) \/ write(c) \/ finish(c)
=============================================================================
