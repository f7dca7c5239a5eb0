---------------------------- MODULE MyBashProofs -----------------------------
(***************************************************************************)
(* Proofs about MyBash, for any input and any capacity of the pipes: when  *)
(* execute_pipeline returns, the shell has waited for the right children;  *)
(* and parse_pipeline gives what a line means.                             *)
(***************************************************************************)
EXTENDS MyBash, FiniteSetTheorems, SequenceTheorems, WellFoundedInduction, TLAPS

(***************************************************************************)
(* Types of the children and of the state.                                 *)
(***************************************************************************)
Ended == {"zombie", "reaped"}
States == Ended \cup {"unborn", "setup_out", "setup_in", "redirect", "run"}
Descriptor == Int \X {"r", "w", "inherited", "file"}

Child == [st : States, sc : Scommand \cup {NULL}, first : BOOLEAN, last : BOOLEAN,
          fds : SUBSET Descriptor, stdin : Descriptor, stdout : Descriptor,
          left : Int, has : BOOLEAN]

ParsePCs == {"scommand", "pipe", "background", "garbage", "parsed", "execute"}
LoopPCs == {"pipe()", "fork", "close"}

ParseType ==
  /\ input \in Seq(Token)
  /\ pc = "scommand" => scom \in Scommand
  /\ \/ apipe \in Pipeline
     \/ apipe = NULL /\ pc \in {"parsed", "exited"}

ChildType == child \in [Commands -> Child]

(***************************************************************************)
(* The loops of execute_pipeline: command i is the first one left in       *)
(* apipe, and all of them have a place.                                    *)
(***************************************************************************)
LoopInv ==
  /\ pc \in ParsePCs \cup LoopPCs \cup {"wait", "signal", "returned", "exited"}
  /\ base \in Nat /\ length \in Nat /\ i \in Nat /\ base + length <= MaxCommands
  /\ shell \subseteq Descriptor
  /\ pc \in ParsePCs => length = 0
  /\ pc \in LoopPCs => i < length /\ pipeline_length(apipe) = length - i
  /\ pc = "wait" => i < length
  /\ pc = "signal" => ~apipe.wait

\* The commands of this pipeline that have been forked, and waited for.
Forked == CASE pc \in {"pipe()", "fork"} -> i
            [] pc = "close" -> i + 1
            [] pc = "wait" -> length
            [] OTHER -> 0

Reaped == CASE pc = "wait" -> i
            [] pc = "returned" /\ apipe.wait -> length
            [] OTHER -> 0

WaitInv == ~failed =>
  /\ \A c \in base .. base + Forked - 1 : child[c].st # "unborn"
  /\ \A c \in base .. base + Reaped - 1 : child[c].st = "reaped"

IInv == ParseType /\ ChildType /\ LoopInv /\ WaitInv

LEMMA Empty == scommand_new \in Scommand /\ pipeline_new \in Pipeline
  BY DEF scommand_new, pipeline_new, Scommand, Pipeline

LEMMA Pushed ==
  ASSUME NEW sc \in Scommand, NEW arg \in Token
  PROVE  /\ scommand_push_back(sc, arg) \in Scommand
         /\ scommand_set_redir_in(sc, arg) \in Scommand
         /\ scommand_set_redir_out(sc, arg) \in Scommand
<1>1. scommand_push_back(sc, arg) \in Scommand
  BY DEF Scommand, scommand_push_back
<1>2. scommand_set_redir_in(sc, arg) \in Scommand
  BY DEF Scommand, scommand_set_redir_in
<1>3. scommand_set_redir_out(sc, arg) \in Scommand
  BY DEF Scommand, scommand_set_redir_out
<1> QED
  BY <1>1, <1>2, <1>3

\* consume() leaves tokens.
LEMMA Consumes ==
  ASSUME input \in Seq(Token), NEW n \in Nat, consume(n)
  PROVE  input' \in Seq(Token)
<1>1. input' = SubSeq(input, n + 1, Len(input)) /\ Len(input) \in Nat
  BY DEF consume
<1> QED
  BY <1>1, SubSeqProperties

\* What the lexer says of the next argument.
LEMMA NextArgument ==
  ASSUME input \in Seq(Token), ~parser_at_eof
  PROVE  LET next == parser_next_argument
         IN /\ next.arg \in Token \cup {NULL} /\ next.used \in Nat
            /\ next.kind \in {"normal", "<", ">"}
<1>1. Head(input) \in Token /\ (Len(input) > 1 => input[2] \in Token)
  BY DEF parser_at_eof
<1> QED
  BY <1>1 DEF parser_next_argument, At

\* The least of a set of numbers.
LEMMA Least ==
  ASSUME NEW S, S # {}, S \subseteq Nat
  PROVE  /\ (CHOOSE n \in S : \A m \in S : n <= m) \in S
         /\ \A m \in S : (CHOOSE n \in S : \A k \in S : n <= k) <= m
<1>1. PICK n \in S : \A m \in S : ~(<<m, n>> \in OpToRel(<, Nat))
  BY WFMin, NatLessThanWellFounded, Zenon
<1>2. ASSUME NEW m \in S PROVE n <= m
  <2>1. m \in Nat /\ n \in Nat /\ ~(<<m, n>> \in OpToRel(<, Nat))
    BY <1>1
  <2> QED
    BY <2>1 DEF OpToRel
<1>3. \E x \in S : \A m \in S : x <= m
  BY <1>2
<1> QED
  BY <1>3, Zenon

(***************************************************************************)
(* The parser keeps the types.                                             *)
(***************************************************************************)
LEMMA ParsescommandType ==
  ASSUME ParseType, parse_scommand
  PROVE  ParseType' /\ pc' \in ParsePCs /\ pc' # "execute"
<1> DEFINE next == parser_next_argument
<1>1. scom \in Scommand /\ apipe \in Pipeline /\ input \in Seq(Token)
  BY DEF ParseType, parse_scommand
<1>2. CASE ~parser_at_eof /\ next.arg # NULL
  <2>1. /\ consume(next.used) /\ pc' = "scommand" /\ apipe' = apipe
        /\ scom' = CASE next.kind = "normal" -> scommand_push_back(scom, next.arg)
                     [] next.kind = "<" -> scommand_set_redir_in(scom, next.arg)
                     [] next.kind = ">" -> scommand_set_redir_out(scom, next.arg)
    BY <1>2 DEF parse_scommand
  <2>2. next.arg \in Token /\ next.used \in Nat /\ next.kind \in {"normal", "<", ">"}
    BY <1>1, <1>2, NextArgument
  <2> HIDE DEF next
  <2>3. scom' \in {scommand_push_back(scom, next.arg), scommand_set_redir_in(scom, next.arg),
                   scommand_set_redir_out(scom, next.arg)}
    BY <2>1, <2>2
  <2>4. scom' \in Scommand
    BY <1>1, <2>2, <2>3, Pushed
  <2> QED
    BY <1>1, <2>1, <2>2, <2>4, Consumes DEF ParseType, ParsePCs
<1>3. CASE ~parser_at_eof /\ next.arg = NULL /\ next.kind # "normal"
  <2>1. consume(next.used) /\ pc' = "parsed" /\ apipe' = NULL
    BY <1>3 DEF parse_scommand
  <2>2. next.used \in Nat
    BY <1>1, <1>3, NextArgument
  <2> QED
    BY <1>1, <2>1, <2>2, Consumes DEF ParseType, ParsePCs
<1>4. CASE ~(~parser_at_eof /\ next.arg # NULL)
           /\ ~(~parser_at_eof /\ next.arg = NULL /\ next.kind # "normal")
  <2>1. pc' = "pipe" /\ apipe' = pipeline_push_back(apipe, scom) /\ input' = input
    BY <1>4 DEF parse_scommand
  <2>2. apipe' \in Pipeline
    BY <1>1, <2>1 DEF Pipeline, pipeline_push_back
  <2> QED
    BY <1>1, <2>1, <2>2 DEF ParseType, ParsePCs
<1> QED
  BY <1>2, <1>3, <1>4

LEMMA ParserType ==
  ASSUME ParseType, parse_pipeline
  PROVE  ParseType' /\ pc' \in ParsePCs /\ pc' # "execute" /\ pc \in ParsePCs
<1>1. CASE parse_scommand
  BY <1>1, ParsescommandType DEF parse_scommand, ParsePCs
<1>2. CASE parse_pipe
  <2>1. apipe \in Pipeline /\ input \in Seq(Token) /\ pc = "pipe" /\ apipe' = apipe
    BY <1>2 DEF ParseType, parse_pipe
  <2>2. CASE At("|")
    <3>1. consume(1) /\ pc' = "scommand" /\ scom' = scommand_new
      BY <1>2, <2>2 DEF parse_pipe
    <3> QED
      BY <2>1, <3>1, Consumes, Empty DEF ParseType, ParsePCs
  <2>3. CASE ~At("|")
    <3>1. pc' = "background" /\ input' = input
      BY <1>2, <2>3 DEF parse_pipe
    <3> QED
      BY <2>1, <3>1 DEF ParseType, ParsePCs
  <2> QED
    BY <2>2, <2>3
<1>3. CASE parse_background
  <2>1. /\ apipe \in Pipeline /\ input \in Seq(Token) /\ pc = "background"
        /\ apipe' = [apipe EXCEPT !.wait = ~At("&")]
        /\ consume(IF At("&") THEN 1 ELSE 0) /\ pc' = "garbage"
    BY <1>3 DEF ParseType, parse_background, pipeline_set_wait
  <2>2. apipe' \in Pipeline
    BY <2>1 DEF Pipeline, At
  <2>3. input' \in Seq(Token)
    BY <2>1, Consumes
  <2> QED
    BY <2>1, <2>2, <2>3 DEF ParseType, ParsePCs
<1>4. CASE parse_garbage
  <2>1. /\ apipe \in Pipeline /\ input \in Seq(Token) /\ pc = "garbage"
        /\ apipe' \in {apipe, NULL} /\ consume(garbage_end) /\ pc' = "parsed"
    BY <1>4 DEF ParseType, parse_garbage
  <2>2. garbage_end \in Nat
    <3> DEFINE nls == {n \in 1..Len(input) : input[n] = "nl"}
    <3>1. CASE nls = {}
      BY <2>1, <3>1 DEF garbage_end
    <3>2. CASE nls # {}
      <4>1. nls \subseteq Nat
        BY <2>1
      <4>2. garbage_end = CHOOSE n \in nls : \A m \in nls : n <= m
        BY <3>2 DEF garbage_end
      <4> HIDE DEF nls
      <4>3. garbage_end \in nls
        BY <3>2, <4>1, <4>2, Least
      <4> QED
        BY <4>3 DEF nls
    <3> QED
      BY <3>1, <3>2
  <2>3. input' \in Seq(Token)
    BY <2>1, <2>2, Consumes
  <2> QED
    BY <2>1, <2>3 DEF ParseType, ParsePCs
<1> QED
  BY <1>1, <1>2, <1>3, <1>4 DEF parse_pipeline

LEMMA Descriptors ==
  /\ \A c \in Int : <<c, "r">> \in Descriptor /\ <<c, "w">> \in Descriptor
  /\ Other("inherited") \in Descriptor /\ Other("file") \in Descriptor
  BY DEF Descriptor, Other

LEMMA Unborn == unborn \in Child
<1>1. Other("inherited") \in Descriptor /\ Input \in Int
  BY Descriptors, ExecuteAssumption
<1> QED
  BY <1>1, Zenon DEF unborn, Child, States

(***************************************************************************)
(* A child never becomes unborn again, and a reaped one does nothing more. *)
(***************************************************************************)
LEMMA CommandSteps ==
  ASSUME ChildType, NEW c \in Commands, Command(c) \/ quit(c)
  PROVE  /\ ChildType' /\ UNCHANGED <<parsevars, shellvars>>
         /\ \A d \in Commands :
              /\ child[d].st # "unborn" => child'[d].st # "unborn"
              /\ child[d].st = "reaped" => child'[d].st = "reaped"
<1>0. child[c] \in Child /\ c \in Int
  BY DEF ChildType, Commands
<1>1. ASSUME NEW r \in Child, r.st # "unborn", child[c].st \notin {"unborn", "reaped"},
             child' = [child EXCEPT ![c] = r]
      PROVE  /\ ChildType'
             /\ \A d \in Commands :
                  /\ child[d].st # "unborn" => child'[d].st # "unborn"
                  /\ child[d].st = "reaped" => child'[d].st = "reaped"
  BY <1>1 DEF ChildType
<1>2. CASE exit(c) /\ child[c].st \notin {"unborn", "reaped"}
  <2> DEFINE r == [unborn EXCEPT !.st = IF ignored THEN "reaped" ELSE "zombie"]
  <2>1. child' = [child EXCEPT ![c] = r] /\ UNCHANGED <<parsevars, shellvars>>
    BY <1>2 DEF exit
  <2>2. r \in Child /\ r.st # "unborn"
    BY Unborn DEF Child, States, Ended
  <2> QED
    BY <1>1, <1>2, <2>1, <2>2
<1>3. ASSUME NEW r \in Child, r.st # "unborn", child[c].st \notin {"unborn", "reaped"},
             Becomes(c, r)
      PROVE  /\ ChildType' /\ UNCHANGED <<parsevars, shellvars>>
             /\ \A d \in Commands :
                  /\ child[d].st # "unborn" => child'[d].st # "unborn"
                  /\ child[d].st = "reaped" => child'[d].st = "reaped"
  BY <1>1, <1>3 DEF Becomes
<1>4. CASE setup_out(c)
  <2>1. child[c].st = "setup_out"
    BY <1>4 DEF setup_out
  <2>2. CASE exit(c)
    BY <1>2, <2>1, <2>2
  <2>3. CASE Becomes(c, [child[c] EXCEPT !.st = "setup_in", !.fds = @ \ Ends(c),
                                         !.stdout = <<c, "w">>])
    <3>1. [child[c] EXCEPT !.st = "setup_in", !.fds = @ \ Ends(c), !.stdout = <<c, "w">>]
            \in Child
      BY <1>0, Descriptors DEF Child, States
    <3> QED
      BY <1>0, <1>3, <2>1, <2>3, <3>1 DEF Child
  <2>4. CASE Becomes(c, [child[c] EXCEPT !.st = "setup_in"])
    <3>1. [child[c] EXCEPT !.st = "setup_in"] \in Child
      BY <1>0 DEF Child, States
    <3> QED
      BY <1>0, <1>3, <2>1, <2>4, <3>1 DEF Child
  <2> QED
    BY <1>4, <2>2, <2>3, <2>4 DEF setup_out
<1>5. CASE setup_in(c)
  <2>1. child[c].st = "setup_in"
    BY <1>5 DEF setup_in
  <2>2. CASE Becomes(c, [child[c] EXCEPT !.st = "redirect", !.fds = @ \ Ends(c - 1),
                                         !.stdin = <<c - 1, "r">>])
    <3>1. [child[c] EXCEPT !.st = "redirect", !.fds = @ \ Ends(c - 1),
                           !.stdin = <<c - 1, "r">>] \in Child
      <4>1. <<c - 1, "r">> \in Descriptor
        BY <1>0 DEF Descriptor
      <4> QED
        BY <1>0, <4>1 DEF Child, States
    <3> QED
      BY <1>0, <1>3, <2>1, <2>2, <3>1 DEF Child
  <2>3. CASE Becomes(c, [child[c] EXCEPT !.st = "redirect"])
    <3>1. [child[c] EXCEPT !.st = "redirect"] \in Child
      BY <1>0 DEF Child, States
    <3> QED
      BY <1>0, <1>3, <2>1, <2>3, <3>1 DEF Child
  <2> QED
    BY <1>5, <2>2, <2>3 DEF setup_in
<1>6. CASE execute_scommand(c)
  <2> DEFINE r == [child[c] EXCEPT !.st = "run", !.sc = NULL,
                     !.stdin = IF child[c].sc.in # NULL THEN Other("file") ELSE @,
                     !.stdout = IF child[c].sc.out # NULL THEN Other("file") ELSE @]
  <2>1. child[c].st = "redirect" /\ Becomes(c, r)
    BY <1>6 DEF execute_scommand
  <2>2. r \in Child /\ r.st = "run"
    BY <1>0, Descriptors DEF Child, States
  <2> QED
    BY <1>3, <2>1, <2>2
<1>7. CASE read(c) \/ write(c)
  <2>1. child[c].st = "run" /\ UNCHANGED <<parsevars, shellvars>>
    BY <1>7 DEF read, write
  <2>2. PICK r \in {[child[c] EXCEPT !.has = TRUE], [child[c] EXCEPT !.has = FALSE],
                    [child[c] EXCEPT !.has = TRUE, !.left = @ - 1]} :
          child' = [child EXCEPT ![c] = r]
    BY <1>7 DEF read, write
  <2>3. CASE r = [child[c] EXCEPT !.has = TRUE] \/ r = [child[c] EXCEPT !.has = FALSE]
    BY <1>0, <1>1, <2>1, <2>2, <2>3 DEF Child
  <2>4. CASE r = [child[c] EXCEPT !.has = TRUE, !.left = @ - 1]
    <3>1. child[c].left - 1 \in Int
      BY <1>0 DEF Child
    <3>2. r \in Child /\ r.st = "run"
      BY <1>0, <2>1, <2>4, <3>1 DEF Child
    <3> QED
      BY <1>1, <2>1, <2>2, <3>2
  <2> QED
    BY <2>1, <2>2, <2>3, <2>4
<1>8. CASE finish(c) \/ quit(c)
  <2>1. exit(c) /\ child[c].st = "run"
    BY <1>8 DEF finish, quit
  <2> QED
    BY <1>2, <2>1
<1> QED
  BY <1>4, <1>5, <1>6, <1>7, <1>8 DEF Command

\* The forked commands, and those waited for, are within the bound.
LEMMA Places ==
  ASSUME LoopInv
  PROVE  /\ Forked \in 0 .. length /\ Reaped \in 0 .. length
         /\ base .. base + Forked - 1 \subseteq Commands
         /\ base .. base + Reaped - 1 \subseteq Commands
<1>1. Forked \in 0 .. length /\ Reaped \in 0 .. length
  BY DEF LoopInv, Forked, Reaped, LoopPCs
<1> QED
  BY <1>1, ExecuteAssumption DEF LoopInv, Commands

LEMMA CommandStep ==
  ASSUME IInv, NEW c \in Commands, Command(c) \/ quit(c)
  PROVE  IInv'
<1>1. /\ ChildType' /\ UNCHANGED <<parsevars, shellvars>>
      /\ \A d \in Commands :
           /\ child[d].st # "unborn" => child'[d].st # "unborn"
           /\ child[d].st = "reaped" => child'[d].st = "reaped"
  BY CommandSteps DEF IInv
<1>2. ParseType' /\ LoopInv'
  BY <1>1 DEF IInv, ParseType, LoopInv, parsevars, shellvars
<1>3. WaitInv'
  <2>1. Forked' = Forked /\ Reaped' = Reaped /\ base' = base /\ failed' = failed
    BY <1>1 DEF Forked, Reaped, parsevars, shellvars
  <2>2. /\ base .. base + Forked - 1 \subseteq Commands
        /\ base .. base + Reaped - 1 \subseteq Commands
    BY Places DEF IInv
  <2> QED
    BY <1>1, <2>1, <2>2 DEF IInv, WaitInv
<1> QED
  BY <1>1, <1>2, <1>3 DEF IInv

(***************************************************************************)
(* The shell.                                                              *)
(***************************************************************************)
LEMMA ParserStep ==
  ASSUME IInv, parse_pipeline, UNCHANGED <<base, length, i, shell, ignored, failed, child, bytes>>
  PROVE  IInv'
<1>1. ParseType' /\ pc' \in ParsePCs /\ pc \in ParsePCs
  BY ParserType DEF IInv
<1>2. LoopInv' /\ ChildType'
  BY <1>1 DEF IInv, LoopInv, ChildType, ParsePCs, LoopPCs
<1>3. WaitInv'
  <2>1. Forked' = 0 /\ Reaped' = 0 /\ base \in Nat /\ base' = base
    BY <1>1 DEF Forked, Reaped, ParsePCs, IInv, LoopInv
  <2> QED
    BY <2>1 DEF WaitInv
<1> QED
  BY <1>1, <1>2, <1>3 DEF IInv

LEMMA BuiltinStep ==
  ASSUME IInv, builtin_run
  PROVE  IInv'
<1>1. /\ pc = "execute" /\ pc' \in {"exited", "returned"} /\ shell' \subseteq shell
      /\ UNCHANGED <<parsevars, apipe, base, length, i, ignored, failed, child, bytes>>
  BY DEF builtin_run, goto
<1>2. length = 0 /\ base \in Nat /\ apipe \in Pipeline
  BY <1>1 DEF IInv, LoopInv, ParseType, ParsePCs
<1>3. ParseType' /\ LoopInv' /\ ChildType'
  BY <1>1, <1>2 DEF IInv, ParseType, LoopInv, ChildType, parsevars, ParsePCs, LoopPCs
<1>4. WaitInv'
  <2>1. Forked' = 0 /\ Reaped' = 0 /\ base' = base
    BY <1>1, <1>2 DEF Forked, Reaped
  <2> QED
    BY <1>2, <2>1 DEF WaitInv
<1> QED
  BY <1>3, <1>4 DEF IInv

\* What the shell forks is a child.
LEMMA Newborn ==
  ASSUME apipe \in Pipeline, pipeline_length(apipe) > 0,
         NEW fds \in SUBSET Descriptor, NEW st \in States
  PROVE  newborn(fds, st) \in Child /\ newborn(fds, st).st = st
<1>1. pipeline_front(apipe) \in Scommand
  BY DEF Pipeline, pipeline_length, pipeline_front
<1> QED
  BY <1>1, Unborn DEF newborn, Child

LEMMA OneStep ==
  ASSUME IInv, execute_one
  PROVE  IInv'
<1>1. /\ pc = "execute" /\ pipeline_length(apipe) = 1 /\ base + 1 <= MaxCommands
      /\ length' = 1 /\ i' = 0 /\ pc' = (IF apipe.wait THEN "wait" ELSE "signal")
      /\ UNCHANGED <<parsevars, apipe, base, shell, ignored, bytes>>
  BY DEF execute_one, goto
<1>2. /\ base \in Nat /\ apipe \in Pipeline /\ base \in Commands /\ child \in [Commands -> Child]
      /\ shell \subseteq Descriptor
  BY <1>1, ExecuteAssumption
  DEF IInv, LoopInv, ParseType, ChildType, ParsePCs, Commands
<1>3. ParseType' /\ LoopInv'
  BY <1>1, <1>2 DEF IInv, ParseType, LoopInv, parsevars, ParsePCs, LoopPCs
<1>4. Forked' \in 0 .. 1 /\ Reaped' = 0
  BY <1>1 DEF Forked, Reaped
<1>5. CASE child' = [child EXCEPT ![base] = [newborn(shell, "redirect") EXCEPT
                                               !.first = TRUE, !.last = TRUE]]
  <2> DEFINE r == [newborn(shell, "redirect") EXCEPT !.first = TRUE, !.last = TRUE]
  <2>1. newborn(shell, "redirect") \in Child /\ newborn(shell, "redirect").st = "redirect"
    BY <1>1, <1>2, Newborn DEF States
  <2>2. r \in Child /\ r.st = "redirect"
    BY <2>1 DEF Child
  <2>3. ChildType' /\ child'[base].st # "unborn"
    BY <1>2, <1>5, <2>2 DEF ChildType
  <2>4. WaitInv'
    <3>1. base' = base /\ \A c \in base .. base + Forked' - 1 : c = base
      <4>1. Forked' = 0 \/ Forked' = 1
        BY <1>4
      <4> QED
        BY <1>1, <1>2, <4>1 DEF IInv
    <3>2. base .. base + Reaped' - 1 = {}
      BY <1>2, <1>4
    <3> QED
      BY <2>3, <3>1, <3>2 DEF WaitInv
  <2> QED
    BY <1>3, <2>3, <2>4 DEF IInv
<1>6. CASE failed' = TRUE /\ child' = child
  BY <1>3, <1>6 DEF IInv, ChildType, WaitInv
<1> QED
  BY <1>5, <1>6 DEF execute_one

LEMMA ManyStep ==
  ASSUME IInv, execute_many
  PROVE  IInv'
<1>1. /\ pc = "execute" /\ pipeline_length(apipe) > 1
      /\ base + pipeline_length(apipe) <= MaxCommands
      /\ length' = pipeline_length(apipe) /\ i' = 0 /\ pc' = "pipe()"
      /\ UNCHANGED <<parsevars, apipe, base, shell, ignored, failed, child, bytes>>
  BY DEF execute_many, goto
<1>2. base \in Nat /\ apipe \in Pipeline /\ pipeline_length(apipe) \in Nat
  BY <1>1 DEF IInv, LoopInv, ParseType, ParsePCs, Pipeline, pipeline_length
<1>3. ParseType' /\ ChildType'
  BY <1>1, <1>2 DEF IInv, ParseType, ChildType, parsevars, ParsePCs, LoopPCs
<1>4. LoopInv'
  <2>1. pipeline_length(apipe)' = pipeline_length(apipe)
    BY <1>1 DEF pipeline_length
  <2> QED
    BY <1>1, <1>2, <2>1 DEF IInv, LoopInv, ParsePCs, LoopPCs
<1>5. WaitInv'
  <2>1. Forked' = 0 /\ Reaped' = 0 /\ base' = base
    BY <1>1 DEF Forked, Reaped
  <2> QED
    BY <1>2, <2>1 DEF WaitInv
<1> QED
  BY <1>3, <1>4, <1>5 DEF IInv

LEMMA PipeStep ==
  ASSUME IInv, make_pipe
  PROVE  IInv'
<1>1. /\ pc = "pipe()" /\ pc' \in {"fork", "exited"}
      /\ shell' \in {{}, shell, shell \cup Ends(self)} /\ (pc' = "fork" => failed' = failed)
      /\ UNCHANGED <<parsevars, apipe, base, length, i, ignored, child, bytes>>
  BY DEF make_pipe, goto
<1>2. base \in Nat /\ i \in Nat /\ apipe \in Pipeline /\ shell \subseteq Descriptor
  BY <1>1 DEF IInv, LoopInv, ParseType
<1>3. shell' \subseteq Descriptor
  <2>1. Ends(self) \subseteq Descriptor
    <3>1. self \in Int
      BY <1>2 DEF self
    <3> QED
      BY <3>1 DEF Ends, Descriptor
  <2> QED
    BY <1>1, <1>2, <2>1
<1>4. ParseType' /\ LoopInv' /\ ChildType'
  <2>1. pipeline_length(apipe)' = pipeline_length(apipe)
    BY <1>1 DEF pipeline_length
  <2> QED
    BY <1>1, <1>2, <1>3, <2>1
    DEF IInv, ParseType, LoopInv, ChildType, parsevars, ParsePCs, LoopPCs
<1>5. WaitInv'
  <2>1. CASE pc' = "fork"
    BY <1>1, <2>1 DEF IInv, WaitInv, Forked, Reaped
  <2>2. CASE pc' = "exited"
    BY <1>1, <1>2, <2>2 DEF WaitInv, Forked, Reaped
  <2> QED
    BY <1>1, <2>1, <2>2
<1> QED
  BY <1>4, <1>5 DEF IInv

LEMMA ForkStep ==
  ASSUME IInv, fork
  PROVE  IInv'
<1>1. /\ pc = "fork" /\ pc' \in {"close", "returned"}
      /\ UNCHANGED <<parsevars, apipe, base, length, i, shell, ignored, bytes>>
  BY DEF fork, goto
<1>2. /\ base \in Nat /\ i \in Nat /\ length \in Nat /\ apipe \in Pipeline
      /\ i < length /\ pipeline_length(apipe) = length - i /\ base + length <= MaxCommands
      /\ shell \subseteq Descriptor /\ child \in [Commands -> Child]
  BY <1>1 DEF IInv, LoopInv, ParseType, ChildType, LoopPCs
<1>3. ParseType' /\ LoopInv'
  <2>1. pipeline_length(apipe)' = pipeline_length(apipe)
    BY <1>1 DEF pipeline_length
  <2> QED
    BY <1>1, <1>2, <2>1 DEF IInv, ParseType, LoopInv, parsevars, ParsePCs, LoopPCs
<1>4. CASE child' = [child EXCEPT ![self] = newborn(shell, "setup_out")] /\ pc' = "close"
           /\ failed' = failed
  <2> DEFINE r == newborn(shell, "setup_out")
  <2>1. r \in Child /\ r.st = "setup_out"
    BY <1>2, Newborn DEF States
  <2>2. self \in Commands /\ self = base + i
    BY <1>2, ExecuteAssumption DEF self, Commands
  <2> HIDE DEF r
  <2>3. child' = [child EXCEPT ![self] = r]
    BY <1>4 DEF r
  <2>4. /\ ChildType' /\ child'[self] = r
        /\ \A c \in Commands \ {self} : child'[c] = child[c]
    BY <1>2, <2>1, <2>2, <2>3 DEF ChildType
  <2>5. Forked = i /\ Forked' = i + 1 /\ Reaped' = 0
    BY <1>1, <1>4 DEF Forked, Reaped
  <2>6. WaitInv'
    <3> SUFFICES ASSUME ~failed, NEW c \in base .. base + i PROVE child'[c].st # "unborn"
      BY <1>1, <1>2, <1>4, <2>5 DEF WaitInv
    <3>1. c = self \/ c \in base .. base + Forked - 1
      BY <1>2, <2>2, <2>5
    <3>2. c \in Commands
      BY <1>2, ExecuteAssumption DEF Commands
    <3> QED
      BY <2>1, <2>4, <3>1, <3>2 DEF IInv, WaitInv
  <2> QED
    BY <1>3, <2>4, <2>6 DEF IInv
<1>5. CASE failed' = TRUE /\ child' = child
  BY <1>3, <1>5 DEF IInv, ChildType, WaitInv
<1> QED
  BY <1>4, <1>5 DEF fork, goto

LEMMA CloseStep ==
  ASSUME IInv, close_behind
  PROVE  IInv'
<1>1. /\ pc = "close" /\ shell' \subseteq shell /\ apipe' = pipeline_pop_front(apipe)
      /\ \/ i < last /\ i' = i + 1 /\ pc' = "pipe()"
         \/ i = last /\ i' = 0 /\ pc' = (IF apipe.wait THEN "wait" ELSE "signal")
      /\ UNCHANGED <<parsevars, base, length, ignored, failed, child, bytes>>
  BY DEF close_behind, goto
<1>2. /\ base \in Nat /\ i \in Nat /\ length \in Nat /\ apipe \in Pipeline
      /\ i < length /\ pipeline_length(apipe) = length - i /\ base + length <= MaxCommands
      /\ shell \subseteq Descriptor /\ last = length - 1
  BY <1>1 DEF IInv, LoopInv, ParseType, LoopPCs, last
<1>3. /\ apipe' \in Pipeline /\ apipe'.wait = apipe.wait
      /\ pipeline_length(apipe)' = length - i - 1
  <2>1. apipe.scommands \in Seq(Scommand) /\ Len(apipe.scommands) = length - i
    BY <1>2 DEF Pipeline, pipeline_length
  <2>2. Tail(apipe.scommands) \in Seq(Scommand) /\ Len(Tail(apipe.scommands)) = length - i - 1
    BY <1>2, <2>1
  <2> QED
    BY <1>1, <1>2, <2>2 DEF Pipeline, pipeline_length, pipeline_pop_front
<1>4. ParseType' /\ LoopInv' /\ ChildType'
  BY <1>1, <1>2, <1>3 DEF IInv, ParseType, LoopInv, ChildType, parsevars, ParsePCs, LoopPCs
<1>5. WaitInv'
  <2>1. Forked = i + 1 /\ Forked' <= i + 1 /\ Forked' \in Nat /\ Reaped' = 0
    BY <1>1, <1>2 DEF Forked, Reaped
  <2> QED
    BY <1>1, <1>2, <2>1 DEF IInv, WaitInv
<1> QED
  BY <1>4, <1>5 DEF IInv

LEMMA WaitStep ==
  ASSUME IInv, wait_next
  PROVE  IInv'
<1>1. /\ pc = "wait"
      /\ \/ i < last /\ i' = i + 1 /\ pc' = pc
         \/ i = last /\ pc' = "returned" /\ i' = i
      /\ UNCHANGED <<parsevars, apipe, base, length, shell, ignored, failed, bytes>>
  BY DEF wait_next, goto
<1>2. /\ base \in Nat /\ i \in Nat /\ length \in Nat /\ apipe \in Pipeline
      /\ i < length /\ base + length <= MaxCommands /\ last = length - 1
      /\ child \in [Commands -> Child] /\ self = base + i
  BY <1>1 DEF IInv, LoopInv, ParseType, ChildType, LoopPCs, last, self
<1>3. ParseType' /\ LoopInv'
  BY <1>1, <1>2 DEF IInv, ParseType, LoopInv, parsevars, ParsePCs, LoopPCs
<1>4. PICK w \in Commands : reap(w)
  BY <1>2, ExecuteAssumption DEF wait_next, Commands
<1>5. /\ ChildType'
      /\ \A d \in Commands :
           /\ child[d].st # "unborn" => child'[d].st # "unborn"
           /\ child[d].st = "reaped" => child'[d].st = "reaped"
  BY <1>2, <1>4 DEF reap, ChildType, Child, States, Ended
<1>6. WaitInv'
  <2> SUFFICES ASSUME ~failed PROVE WaitInv'
    BY <1>1 DEF WaitInv
  <2>1. Forked = length /\ Forked' \in {0, length} /\ Reaped = i /\ Reaped' \in {0, i + 1}
    BY <1>1, <1>2 DEF Forked, Reaped
  <2>2. self \in Commands /\ child[self].st # "unborn"
    <3>1. self \in base .. base + Forked - 1
      BY <1>2, <2>1
    <3> QED
      BY <1>2, <3>1, ExecuteAssumption DEF IInv, WaitInv, Commands
  <2>3. child'[self].st = "reaped"
    <3>1. Gone(self) /\ reap(self)
      BY <2>2 DEF wait_next, Waited
    <3> QED
      BY <1>2, <2>2, <3>1 DEF Gone, reap, Child
  <2>4. \A c \in base .. base + length - 1 : child'[c].st # "unborn"
    BY <1>2, <1>5, <2>1, ExecuteAssumption DEF IInv, WaitInv, Commands
  <2>5. \A c \in base .. base + i : child'[c].st = "reaped"
    <3> TAKE c \in base .. base + i
    <3>1. c \in Commands /\ (c = self \/ c \in base .. base + Reaped - 1)
      BY <1>2, <2>1, ExecuteAssumption DEF Commands
    <3> QED
      BY <1>5, <2>3, <3>1 DEF IInv, WaitInv
  <2> QED
    BY <1>1, <1>2, <2>1, <2>4, <2>5 DEF WaitInv
<1> QED
  BY <1>3, <1>5, <1>6 DEF IInv

LEMMA IgnoreStep ==
  ASSUME IInv, ignore
  PROVE  IInv'
<1>1. /\ pc = "signal" /\ pc' = "returned"
      /\ UNCHANGED <<parsevars, apipe, base, length, i, shell, failed, child, bytes>>
  BY DEF ignore, goto
<1>2. base \in Nat /\ apipe \in Pipeline /\ ~apipe.wait
  BY <1>1 DEF IInv, LoopInv, ParseType
<1>3. ParseType' /\ LoopInv' /\ ChildType'
  BY <1>1, <1>2 DEF IInv, ParseType, LoopInv, ChildType, parsevars, ParsePCs, LoopPCs
<1>4. WaitInv'
  <2>1. Forked' = 0 /\ Reaped' = 0
    BY <1>1, <1>2 DEF Forked, Reaped
  <2> QED
    BY <1>1, <1>2, <2>1 DEF WaitInv
<1> QED
  BY <1>3, <1>4 DEF IInv

LEMMA MainStep ==
  ASSUME IInv, main
  PROVE  IInv'
<1>1. CASE /\ pc = "parsed" /\ apipe # NULL /\ pc' = "execute"
           /\ UNCHANGED <<parsevars, apipe, base, length, i, shell, failed, child, bytes>>
  <2>1. ParseType' /\ LoopInv' /\ ChildType' /\ base \in Nat
    BY <1>1 DEF IInv, ParseType, LoopInv, ChildType, parsevars, ParsePCs, LoopPCs
  <2>2. Forked' = 0 /\ Reaped' = 0
    BY <1>1 DEF Forked, Reaped
  <2> QED
    BY <1>1, <2>1, <2>2 DEF IInv, WaitInv
<1>2. CASE /\ (pc = "parsed" /\ apipe = NULL) \/ pc = "returned"
           /\ base' = (IF pc = "returned" THEN base + length ELSE base)
           /\ length' = 0 /\ i' = 0 /\ UNCHANGED <<input, failed, child, bytes>>
           /\ \/ parse_start /\ shell' = shell
              \/ pc' = "exited" /\ apipe' = NULL /\ shell' = {}
  <2>1. base' \in Nat /\ base' + length' <= MaxCommands
    <3>1. base \in Nat /\ length \in Nat /\ base + length <= MaxCommands
      BY DEF IInv, LoopInv
    <3>2. CASE pc = "returned"
      BY <1>2, <3>1, <3>2
    <3>3. CASE pc # "returned"
      BY <1>2, <3>1, <3>3, ExecuteAssumption
    <3> QED
      BY <3>2, <3>3
  <2>2. ParseType'
    BY <1>2, Empty DEF IInv, ParseType, parse_start
  <2>3. LoopInv' /\ ChildType' /\ Forked' = 0 /\ Reaped' = 0
    BY <1>2, <2>1
    DEF IInv, LoopInv, ChildType, parse_start, ParsePCs, LoopPCs, Forked, Reaped
  <2> QED
    BY <1>2, <2>1, <2>2, <2>3 DEF IInv, WaitInv
<1> QED
  BY <1>1, <1>2 DEF main, goto

LEMMA Invariant == Spec => []IInv
<1>1. Init => IInv
  <2> SUFFICES ASSUME Init PROVE IInv
    OBVIOUS
  <2>1. input \in Seq(Token)
    <3>1. CASE input \in Sessions
      BY <3>1, InputAssumption
    <3>2. CASE \E t \in Tests, end \in {<<"nl", "|">>, <<>>} : input = t \o end
      <4>1. PICK t \in Tests, end \in {<<"nl", "|">>, <<>>} : input = t \o end
        BY <3>2
      <4>2. t \in Seq(Token)
        <5>1. PICK n \in 1 .. MaxTokens : t \in [1 .. n -> Alphabet]
          BY DEF Tests
        <5>2. n \in Nat /\ Alphabet \subseteq Token
          BY InputAssumption
        <5> QED
          BY <5>1, <5>2
      <4>3. end \in Seq(Token)
        <5>1. "nl" \in Token /\ "|" \in Token
          BY DEF Token, Operators
        <5>2. <<"nl", "|">> \in Seq(Token) /\ <<>> \in Seq(Token)
          BY <5>1
        <5> QED
          BY <5>2
      <4> QED
        BY <4>1, <4>2, <4>3
    <3> QED
      BY <3>1, <3>2 DEF Init
  <2>2. ParseType /\ ChildType /\ LoopInv
    BY <2>1, Empty, Unborn, ExecuteAssumption
    DEF Init, ParseType, ChildType, LoopInv, ParsePCs, LoopPCs
  <2>3. base = 0 /\ Forked = 0 /\ Reaped = 0
    BY DEF Init, Forked, Reaped
  <2> QED
    BY <2>2, <2>3 DEF IInv, WaitInv
<1>2. IInv /\ [Next]_allvars => IInv'
  <2> SUFFICES ASSUME IInv, [Next]_allvars PROVE IInv'
    OBVIOUS
  <2>1. CASE Shell
    <3>1. CASE main
      BY <3>1, MainStep
    <3>2. CASE parse_pipeline /\ UNCHANGED <<base, length, i, shell, ignored, failed, child,
                                             bytes, text, running>>
      BY <3>2, ParserStep
    <3>3. CASE execute_pipeline
      BY <3>3, BuiltinStep, OneStep, ManyStep, PipeStep, ForkStep, CloseStep, WaitStep,
         IgnoreStep DEF execute_pipeline
    <3> QED
      BY <2>1, <3>1, <3>2, <3>3 DEF Shell
  <2>2. CASE \E c \in Commands : Command(c) \/ quit(c)
    BY <2>2, CommandStep
  <2>3. CASE UNCHANGED allvars
    BY <2>3 DEF allvars, vars, parsevars, shellvars, IInv, ParseType, ChildType, LoopInv,
                WaitInv, Forked, Reaped
  <2> QED
    BY <2>1, <2>2, <2>3 DEF Next
<1> QED
  BY <1>1, <1>2, PTL DEF Spec

\* execute.c, for any lines and any commands that stop at any time: when a pipeline
\* without "&" returns, each of its children has ended and been waited for, unless fork
\* or pipe has failed.
THEOREM PipelinesWaitedFor == Spec => []ForegroundDone
<1>1. IInv => ForegroundDone
  BY DEF IInv, WaitInv, Reaped, ForegroundDone
<1> QED
  BY <1>1, Invariant, PTL

(***************************************************************************)
(* Ranks, in sets of positions of a line.                                  *)
(***************************************************************************)
Positions(S) == IsFiniteSet(S) /\ \A m \in S : m \in Nat /\ m > 0

LEMMA InLine ==
  ASSUME NEW l \in Seq(Token), NEW S \in SUBSET (1 .. Len(l))
  PROVE  Positions(S)
<1>1. Len(l) \in Nat
  BY LenProperties
<1>2. IsFiniteSet(1 .. Len(l))
  BY <1>1, FS_Interval
<1>3. IsFiniteSet(S)
  BY <1>2, FS_Subset
<1> QED
  BY <1>1, <1>3 DEF Positions

LEMMA RankNext ==
  ASSUME NEW S, Positions(S), NEW n \in Nat
  PROVE  /\ Rank(S, n) \in Nat /\ Rank(S, 0) = 0
         /\ Rank(S, n + 1) = Rank(S, n) + (IF n + 1 \in S THEN 1 ELSE 0)
<1> DEFINE T == {m \in S : m <= n}
<1>0. \A m \in S : m \in Nat /\ m > 0
  BY DEF Positions
<1>1. IsFiniteSet(T) /\ Cardinality(T) \in Nat
  <2>1. T \in SUBSET S /\ IsFiniteSet(S)
    BY DEF Positions
  <2> HIDE DEF T
  <2> QED
    BY <2>1, FS_Subset, FS_CardinalityType
<1>2. Rank(S, n) = Cardinality(T)
  BY DEF Rank
<1>3. Rank(S, 0) = 0
  <2>1. {m \in S : m <= 0} = {}
    BY <1>0
  <2> QED
    BY <2>1, FS_EmptySet DEF Rank
<1>4. CASE n + 1 \in S
  <2>1. {m \in S : m <= n + 1} = T \cup {n + 1} /\ n + 1 \notin T
    BY <1>0, <1>4
  <2>2. Rank(S, n + 1) = Cardinality(T \cup {n + 1})
    BY <2>1 DEF Rank
  <2> HIDE DEF T
  <2>3. Cardinality(T \cup {n + 1}) = Cardinality(T) + 1
    BY <1>1, <2>1, FS_AddElement
  <2> QED
    BY <1>1, <1>2, <1>3, <1>4, <2>2, <2>3
<1>5. CASE n + 1 \notin S
  <2>1. {m \in S : m <= n + 1} = T
    BY <1>0, <1>5
  <2>2. Rank(S, n + 1) = Cardinality(T)
    BY <2>1 DEF Rank
  <2> HIDE DEF T
  <2> QED
    BY <1>1, <1>2, <1>3, <1>5, <2>2
<1> QED
  BY <1>4, <1>5

LEMMA RankGrows ==
  ASSUME NEW S, Positions(S), NEW n \in Nat, NEW m \in Nat, m <= n
  PROVE  Rank(S, m) <= Rank(S, n)
<1> DEFINE T == {k \in S : k <= n}
           U == {k \in S : k <= m}
<1>1. IsFiniteSet(S) /\ T \subseteq S /\ U \subseteq T
  BY DEF Positions
<1>2. Rank(S, m) = Cardinality(U) /\ Rank(S, n) = Cardinality(T)
  BY DEF Rank
<1> HIDE DEF T, U
<1>3. IsFiniteSet(T)
  BY <1>1, FS_Subset
<1>4. Cardinality(U) <= Cardinality(T)
  BY <1>1, <1>3, FS_Subset
<1> QED
  BY <1>2, <1>4

LEMMA RankOf ==
  ASSUME NEW S, Positions(S), NEW n \in Nat, NEW m \in S, m <= n
  PROVE  Rank(S, m) \in 1 .. Rank(S, n)
<1>1. m - 1 \in Nat /\ m \in Nat /\ (m - 1) + 1 = m
  BY DEF Positions
<1>2. /\ Rank(S, (m - 1) + 1) = Rank(S, m - 1) + (IF (m - 1) + 1 \in S THEN 1 ELSE 0)
      /\ Rank(S, m - 1) \in Nat
  BY <1>1, RankNext
<1>3. Rank(S, m) = Rank(S, m - 1) + 1 /\ Rank(S, m - 1) \in Nat
  BY <1>1, <1>2
<1>4. Rank(S, m) <= Rank(S, n) /\ Rank(S, n) \in Nat
  BY <1>1, RankGrows, RankNext
<1> QED
  BY <1>3, <1>4

(***************************************************************************)
(* What a line says, from one token to the next.                           *)
(***************************************************************************)
LEMMA BarsNext ==
  ASSUME NEW l \in Seq(Token), NEW n \in Nat
  PROVE  /\ Bars(l, n) \in Nat /\ Bars(l, 0) = 0
         /\ n < Len(l) /\ l[n + 1] = "|" => Bars(l, n + 1) = Bars(l, n) + 1
         /\ n < Len(l) /\ l[n + 1] # "|" => Bars(l, n + 1) = Bars(l, n)
         /\ \A m \in 0 .. n : Bars(l, m) <= Bars(l, n)
<1> DEFINE S == {m \in 1 .. Len(l) : l[m] = "|"}
<1>1. Len(l) \in Nat /\ S \in SUBSET (1 .. Len(l))
  BY LenProperties
<1>2. n < Len(l) => (n + 1 \in S <=> l[n + 1] = "|")
  BY <1>1
<1> HIDE DEF S
<1>3. Positions(S)
  BY <1>1, InLine
<1>4. /\ Rank(S, n) \in Nat /\ Rank(S, 0) = 0
      /\ Rank(S, n + 1) = Rank(S, n) + (IF n + 1 \in S THEN 1 ELSE 0)
  BY <1>3, RankNext
<1>5. ASSUME NEW m \in 0 .. n PROVE Rank(S, m) <= Rank(S, n)
  <2>1. m \in Nat /\ m <= n
    OBVIOUS
  <2> QED
    BY <1>3, <2>1, RankGrows
<1> QED
  BY <1>2, <1>4, <1>5 DEF Bars, S

Roles == {"arg", "<", ">"}

LEMMA WordsIn ==
  ASSUME NEW l \in Seq(Token), NEW k, NEW role
  PROVE  Positions(Words(l, k, role))
<1>1. Words(l, k, role) \in SUBSET (1 .. Len(l))
  BY DEF Words
<1> QED
  BY <1>1, InLine

LEMMA LastSkips ==
  ASSUME NEW x, NEW l, NEW S, Positions(S), NEW n \in Nat, IsLast(x, l, S, n), n + 1 \notin S
  PROVE  IsLast(x, l, S, n + 1)
<1>1. \A m \in S : m <= n + 1 <=> m <= n
  BY DEF Positions
<1>2. \A m \in S : m > n => m > n + 1
  BY DEF Positions
<1> QED
  BY <1>1, <1>2 DEF IsLast

LEMMA LastNew ==
  ASSUME NEW l, NEW S, Positions(S), NEW n \in Nat, n + 1 \in S
  PROVE  IsLast(l[n + 1], l, S, n + 1)
<1>1. \A m \in S : m \in Nat
  BY DEF Positions
<1> QED
  BY <1>1 DEF IsLast

\* A token that is no word of command k.
LEMMA SaysSkips ==
  ASSUME NEW l \in Seq(Token), NEW n \in Nat, NEW k, NEW sc, Says(l, n, k, sc),
         \A role \in Roles : n + 1 \notin Words(l, k, role)
  PROVE  Says(l, n + 1, k, sc)
<1> DEFINE args == Words(l, k, "arg")
<1>1. /\ \A role \in Roles : Positions(Words(l, k, role))
      /\ Positions(args) /\ \A m \in args : m \in Nat
  BY WordsIn DEF Positions
<1>2. Rank(args, n + 1) = Rank(args, n) /\ Rank(args, n) \in Nat
  <2>1. n + 1 \notin args
    BY DEF Roles
  <2> HIDE DEF args
  <2>2. Rank(args, n + 1) = Rank(args, n) + 0 /\ Rank(args, n) \in Nat
    BY <1>1, <2>1, RankNext
  <2> QED
    BY <2>2
<1>3. \A m \in args : m <= n + 1 => sc.args[Rank(args, m)] = l[m]
  <2> SUFFICES ASSUME NEW m \in args, m <= n + 1 PROVE sc.args[Rank(args, m)] = l[m]
    OBVIOUS
  <2>1. m \in Nat /\ m # n + 1
    BY <1>1 DEF Roles
  <2>2. m <= n
    BY <2>1
  <2> QED
    BY <2>2 DEF Says
<1>4. /\ IsLast(sc.in, l, Words(l, k, "<"), n + 1)
      /\ IsLast(sc.out, l, Words(l, k, ">"), n + 1)
  BY <1>1, LastSkips DEF Says, Roles
<1> HIDE DEF args
<1>5. Len(sc.args) = Rank(args, n)
  BY DEF Says, args
<1> QED
  BY <1>2, <1>3, <1>4, <1>5 DEF Says, args

\* An argument.
LEMMA SaysArgument ==
  ASSUME NEW l \in Seq(Token), NEW n \in Nat, NEW k, NEW sc \in Scommand, Says(l, n, k, sc),
         n + 1 \in Words(l, k, "arg")
  PROVE  Says(l, n + 1, k, scommand_push_back(sc, l[n + 1]))
<1> DEFINE args == Words(l, k, "arg")
           new == scommand_push_back(sc, l[n + 1])
<1>1. /\ \A role \in Roles : Positions(Words(l, k, role))
      /\ Positions(args) /\ \A m \in args : m \in Nat
  BY WordsIn DEF Positions
<1>0. l[n + 1] \in Token
  <2>1. n + 1 \in 1 .. Len(l)
    BY DEF Words
  <2> QED
    BY <2>1, ElementOfSeq
<1>2. /\ sc.args \in Seq(Token) /\ new.args = Append(sc.args, l[n + 1])
      /\ new.in = sc.in /\ new.out = sc.out
  BY DEF Scommand, scommand_push_back
<1>3. n + 1 \notin Words(l, k, "<") /\ n + 1 \notin Words(l, k, ">")
  BY DEF Words
<1>4. Rank(args, n + 1) = Rank(args, n) + 1 /\ Rank(args, n) \in Nat
  <2> HIDE DEF args
  <2>1. n + 1 \in args
    BY DEF args
  <2> QED
    BY <1>1, <2>1, RankNext
<1>5. /\ Len(sc.args) = Rank(args, n)
      /\ \A m \in args : m <= n => sc.args[Rank(args, m)] = l[m]
      /\ IsLast(sc.in, l, Words(l, k, "<"), n) /\ IsLast(sc.out, l, Words(l, k, ">"), n)
  BY DEF Says
<1> HIDE DEF args, new
<1>6. /\ Len(new.args) = Rank(args, n) + 1 /\ new.args[Rank(args, n) + 1] = l[n + 1]
      /\ \A j \in 1 .. Rank(args, n) : new.args[j] = sc.args[j]
  BY <1>0, <1>2, <1>4, <1>5, AppendProperties
<1>7. \A m \in args : m <= n + 1 => new.args[Rank(args, m)] = l[m]
  <2> SUFFICES ASSUME NEW m \in args, m <= n + 1 PROVE new.args[Rank(args, m)] = l[m]
    OBVIOUS
  <2>1. CASE m = n + 1
    BY <1>4, <1>6, <2>1
  <2>2. CASE m # n + 1
    <3>1. m <= n
      BY <1>1, <2>2
    <3>2. Rank(args, m) \in 1 .. Rank(args, n)
      BY <1>1, <3>1, RankOf
    <3> QED
      BY <1>5, <1>6, <3>1, <3>2
  <2> QED
    BY <2>1, <2>2
<1>8. IsLast(new.in, l, Words(l, k, "<"), n + 1) /\ IsLast(new.out, l, Words(l, k, ">"), n + 1)
  BY <1>1, <1>2, <1>3, <1>5, LastSkips DEF Roles
<1> QED
  BY <1>4, <1>6, <1>7, <1>8 DEF Says, args, new

\* The file of a redirection.
LEMMA SaysFile ==
  ASSUME NEW l \in Seq(Token), NEW n \in Nat, NEW k, NEW sc \in Scommand, Says(l, n, k, sc)
  PROVE  /\ n + 1 \in Words(l, k, "<") =>
              Says(l, n + 1, k, scommand_set_redir_in(sc, l[n + 1]))
         /\ n + 1 \in Words(l, k, ">") =>
              Says(l, n + 1, k, scommand_set_redir_out(sc, l[n + 1]))
<1> DEFINE args == Words(l, k, "arg")
<1>1. /\ \A role \in Roles : Positions(Words(l, k, role))
      /\ Positions(args) /\ \A m \in args : m \in Nat
  BY WordsIn DEF Positions
<1>2. ASSUME NEW new, new.args = sc.args, n + 1 \notin args,
             IsLast(new.in, l, Words(l, k, "<"), n + 1),
             IsLast(new.out, l, Words(l, k, ">"), n + 1)
      PROVE  Says(l, n + 1, k, new)
  <2>1. /\ Len(sc.args) = Rank(args, n)
        /\ \A m \in args : m <= n => sc.args[Rank(args, m)] = l[m]
    BY DEF Says
  <2> HIDE DEF args
  <2>2. Rank(args, n + 1) = Rank(args, n)
    <3>1. Rank(args, n) \in Nat /\ Rank(args, n + 1) = Rank(args, n) + 0
      BY <1>1, <1>2, RankNext
    <3> QED
      BY <3>1
  <2>3. \A m \in args : m <= n + 1 => m <= n
    BY <1>1, <1>2
  <2> QED
    BY <1>2, <2>1, <2>2, <2>3 DEF Says, args
<1>3. ASSUME n + 1 \in Words(l, k, "<")
      PROVE  Says(l, n + 1, k, scommand_set_redir_in(sc, l[n + 1]))
  <2> DEFINE new == scommand_set_redir_in(sc, l[n + 1])
  <2>1. new.args = sc.args /\ new.out = sc.out /\ new.in = l[n + 1]
    BY DEF Scommand, scommand_set_redir_in
  <2>2. n + 1 \notin args /\ n + 1 \notin Words(l, k, ">")
    BY <1>3 DEF Words
  <2> HIDE DEF new
  <2>3. IsLast(new.in, l, Words(l, k, "<"), n + 1)
    BY <1>1, <1>3, <2>1, LastNew DEF Roles
  <2>4. IsLast(new.out, l, Words(l, k, ">"), n + 1)
    BY <1>1, <2>1, <2>2, LastSkips DEF Roles, Says
  <2>5. Says(l, n + 1, k, new)
    BY <1>2, <2>1, <2>2, <2>3, <2>4
  <2> QED
    BY <2>5 DEF new
<1>4. ASSUME n + 1 \in Words(l, k, ">")
      PROVE  Says(l, n + 1, k, scommand_set_redir_out(sc, l[n + 1]))
  <2> DEFINE new == scommand_set_redir_out(sc, l[n + 1])
  <2>1. new.args = sc.args /\ new.in = sc.in /\ new.out = l[n + 1]
    BY DEF Scommand, scommand_set_redir_out
  <2>2. n + 1 \notin args /\ n + 1 \notin Words(l, k, "<")
    BY <1>4 DEF Words
  <2> HIDE DEF new
  <2>3. IsLast(new.out, l, Words(l, k, ">"), n + 1)
    BY <1>1, <1>4, <2>1, LastNew DEF Roles
  <2>4. IsLast(new.in, l, Words(l, k, "<"), n + 1)
    BY <1>1, <2>1, <2>2, LastSkips DEF Roles, Says
  <2>5. Says(l, n + 1, k, new)
    BY <1>2, <2>1, <2>2, <2>3, <2>4
  <2> QED
    BY <2>5 DEF new
<1> QED
  BY <1>3, <1>4

\* A command that has not begun.
LEMMA SaysNothing ==
  ASSUME NEW l \in Seq(Token), NEW n \in Nat, NEW k,
         \A role \in Roles : \A m \in Words(l, k, role) : m > n
  PROVE  Says(l, n, k, scommand_new)
<1>1. \A m \in Words(l, k, "arg") : m \in Nat
  BY WordsIn DEF Positions
<1>2. {m \in Words(l, k, "arg") : m <= n} = {}
  BY <1>1 DEF Roles
<1>3. Rank(Words(l, k, "arg"), n) = 0
  BY <1>2, FS_EmptySet DEF Rank
<1>4. scommand_new.args = <<>> /\ scommand_new.in = NULL /\ scommand_new.out = NULL
  BY DEF scommand_new
<1>5. \A m \in Words(l, k, "arg") : ~(m <= n)
  BY <1>1 DEF Roles
<1> QED
  BY <1>3, <1>4, <1>5 DEF Says, IsLast, Roles

(***************************************************************************)
(* The line of a text, and what the lexer finds in it.                     *)
(***************************************************************************)
LEMMA LineIs ==
  ASSUME NEW t \in Seq(Token)
  PROVE  LET l == Line(t)
         IN /\ l \in Seq(Token) /\ Len(l) \in 0 .. Len(t)
            /\ \A m \in 1 .. Len(l) : l[m] = t[m] /\ t[m] # "nl"
            /\ Len(l) < Len(t) => t[Len(l) + 1] = "nl"
<1> DEFINE ends == {n \in 1 .. Len(t) : t[n] = "nl"}
           first == CHOOSE n \in ends : \A m \in ends : n <= m
<1>1. Len(t) \in Nat
  OBVIOUS
<1>2. CASE ends = {}
  <2>1. Line(t) = t
    BY <1>2 DEF Line
  <2>2. \A m \in 1 .. Len(t) : t[m] # "nl"
    BY <1>2
  <2> QED
    BY <1>1, <2>1, <2>2
<1>3. CASE ends # {}
  <2>1. Line(t) = SubSeq(t, 1, first - 1)
    BY <1>3 DEF Line
  <2>2. ends \subseteq Nat
    BY <1>1
  <2> HIDE DEF ends
  <2>3. first \in ends /\ \A m \in ends : first <= m
    BY <1>3, <2>2, Least
  <2> HIDE DEF first
  <2>4. first \in 1 .. Len(t) /\ t[first] = "nl"
    BY <2>3 DEF ends
  <2>5. \A m \in 1 .. first - 1 : t[m] # "nl"
    <3> SUFFICES ASSUME NEW m \in 1 .. first - 1, t[m] = "nl" PROVE FALSE
      OBVIOUS
    <3>1. m \in ends
      BY <1>1, <2>4 DEF ends
    <3> QED
      BY <2>3, <2>4, <3>1
  <2>6. \A m \in 1 .. first - 1 : t[m] \in Token
    BY <1>1, <2>4, ElementOfSeq
  <2>7. /\ Line(t) \in Seq(Token) /\ Len(Line(t)) = first - 1
        /\ \A m \in 1 .. first - 1 : Line(t)[m] = t[m]
    <3>1. first - 1 \in Int /\ (first - 1) - 1 + 1 = first - 1
      BY <2>4
    <3>2. /\ SubSeq(t, 1, first - 1) \in Seq(Token)
          /\ Len(SubSeq(t, 1, first - 1)) =
               IF 1 <= first - 1 THEN (first - 1) - 1 + 1 ELSE 0
          /\ \A m \in 1 .. (first - 1) - 1 + 1 :
               SubSeq(t, 1, first - 1)[m] = t[1 + m - 1]
      BY <2>6, <3>1, SubSeqProperties
    <3> QED
      BY <2>1, <2>4, <3>2
  <2> QED
    BY <1>1, <2>4, <2>5, <2>7
<1> QED
  BY <1>2, <1>3

\* What follows the first n tokens of the text.
Rest(n) == SubSeq(text, n + 1, Len(text))

LEMMA RestIs ==
  ASSUME text \in Seq(Token), NEW n \in 0 .. Len(text)
  PROVE  /\ Rest(n) \in Seq(Token) /\ Len(Rest(n)) = Len(text) - n
         /\ \A j \in 1 .. Len(text) - n : Rest(n)[j] = text[n + j]
<1>1. Len(text) \in Nat /\ \A j \in n + 1 .. Len(text) : text[j] \in Token
  BY ElementOfSeq
<1>2. /\ Rest(n) \in Seq(Token)
      /\ Len(Rest(n)) = IF n + 1 <= Len(text) THEN Len(text) - (n + 1) + 1 ELSE 0
      /\ \A j \in 1 .. Len(text) - (n + 1) + 1 : Rest(n)[j] = text[(n + 1) + j - 1]
  BY <1>1, SubSeqProperties DEF Rest
<1> QED
  BY <1>1, <1>2

LEMMA ConsumeMoves ==
  ASSUME text \in Seq(Token), NEW n \in 0 .. Len(text), input = Rest(n),
         NEW k \in 0 .. Len(text) - n
  PROVE  SubSeq(input, k + 1, Len(input)) = Rest(n + k)
<1>1. Len(text) \in Nat /\ n + k \in 0 .. Len(text)
  OBVIOUS
<1>2. /\ input \in Seq(Token) /\ Len(input) = Len(text) - n
      /\ \A j \in 1 .. Len(text) - n : input[j] = text[n + j]
  BY RestIs
<1>3. /\ Rest(n + k) \in Seq(Token) /\ Len(Rest(n + k)) = Len(text) - (n + k)
      /\ \A j \in 1 .. Len(text) - (n + k) : Rest(n + k)[j] = text[(n + k) + j]
  BY <1>1, RestIs
<1> DEFINE s == SubSeq(input, k + 1, Len(input))
<1>4. \A j \in k + 1 .. Len(input) : input[j] \in Token
  BY <1>1, <1>2, ElementOfSeq
<1>5. /\ s \in Seq(Token)
      /\ Len(s) = IF k + 1 <= Len(input) THEN Len(input) - (k + 1) + 1 ELSE 0
      /\ \A j \in 1 .. Len(input) - (k + 1) + 1 : s[j] = input[(k + 1) + j - 1]
  BY <1>1, <1>2, <1>4, SubSeqProperties
<1> HIDE DEF s
<1>6. Len(s) = Len(Rest(n + k))
  BY <1>1, <1>2, <1>3, <1>5
<1>7. \A j \in 1 .. Len(s) : s[j] = Rest(n + k)[j]
  <2> TAKE j \in 1 .. Len(s)
  <2>1. j \in 1 .. Len(text) - (n + k) /\ k + j \in 1 .. Len(text) - n
    BY <1>1, <1>3, <1>6
  <2>2. s[j] = input[k + j]
    <3>1. j \in 1 .. Len(input) - (k + 1) + 1 /\ (k + 1) + j - 1 = k + j
      BY <1>1, <1>2, <2>1
    <3> QED
      BY <1>5, <3>1
  <2>3. input[k + j] = text[n + (k + j)] /\ n + (k + j) = (n + k) + j
    BY <1>2, <2>1
  <2> QED
    BY <1>3, <2>1, <2>2, <2>3
<1>8. s = Rest(n + k)
  BY <1>3, <1>5, <1>6, <1>7, SeqEqual
<1> QED
  BY <1>8 DEF s

\* The parser at position n of the line of the text.
Ahead(l, n) == /\ text \in Seq(Token) /\ l = Line(text)
               /\ n \in 0 .. Len(l) /\ input = Rest(n)

LEMMA Ahead1 ==
  ASSUME NEW l, NEW n, Ahead(l, n)
  PROVE  /\ l \in Seq(Token) /\ n \in Nat /\ Len(l) \in Nat /\ Len(text) \in Nat
         /\ n \in 0 .. Len(l) /\ Len(l) <= Len(text)
         /\ n = Len(l) => parser_at_eof \/ Head(input) = "nl"
         /\ n < Len(l) => ~parser_at_eof /\ Head(input) = l[n + 1]
                          /\ l[n + 1] \in Token /\ l[n + 1] # "nl"
         /\ parser_garbage <=> n < Len(l)
         /\ \A t \in {"|", "&"} : At(t) <=> n < Len(l) /\ l[n + 1] = t
<1>1. /\ l \in Seq(Token) /\ Len(l) \in 0 .. Len(text) /\ Len(text) \in Nat /\ n \in 0 .. Len(l)
      /\ \A m \in 1 .. Len(l) : l[m] = text[m] /\ text[m] # "nl"
      /\ Len(l) < Len(text) => text[Len(l) + 1] = "nl"
  BY LineIs DEF Ahead
<1>2. n \in 0 .. Len(text) /\ text \in Seq(Token) /\ input = Rest(n)
  BY <1>1 DEF Ahead
<1>3. /\ input \in Seq(Token) /\ Len(input) = Len(text) - n
      /\ \A j \in 1 .. Len(text) - n : input[j] = text[n + j]
  BY <1>2, RestIs
<1>4. parser_at_eof <=> n = Len(text)
  BY <1>1, <1>2, <1>3, EmptySeq DEF parser_at_eof
<1>5. n < Len(text) => Head(input) = text[n + 1]
  BY <1>1, <1>2, <1>3, <1>4 DEF parser_at_eof
<1>6. n = Len(l) => parser_at_eof \/ Head(input) = "nl"
  BY <1>1, <1>4, <1>5
<1>7. n < Len(l) => ~parser_at_eof /\ Head(input) = l[n + 1]
                    /\ l[n + 1] \in Token /\ l[n + 1] # "nl"
  <2> SUFFICES ASSUME n < Len(l)
               PROVE  ~parser_at_eof /\ Head(input) = l[n + 1]
                      /\ l[n + 1] \in Token /\ l[n + 1] # "nl"
    OBVIOUS
  <2>1. n + 1 \in 1 .. Len(l) /\ n < Len(text)
    BY <1>1
  <2> QED
    BY <1>1, <1>4, <1>5, <2>1, ElementOfSeq
<1>8. n = Len(l) \/ n < Len(l)
  BY <1>1
<1>9. parser_garbage <=> n < Len(l)
  BY <1>6, <1>7, <1>8, <1>1 DEF parser_garbage, At
<1>10. \A t \in {"|", "&"} : At(t) <=> n < Len(l) /\ l[n + 1] = t
  BY <1>6, <1>7, <1>8, <1>1 DEF At
<1> QED
  BY <1>1, <1>6, <1>7, <1>9, <1>10

\* The next argument, by the next token of the line.
LEMMA Ahead2 ==
  ASSUME NEW l, NEW n, Ahead(l, n), n < Len(l)
  PROVE  LET next == parser_next_argument
         IN /\ IsWord(l[n + 1]) => next = [arg |-> l[n + 1], kind |-> "normal", used |-> 1]
            /\ l[n + 1] \in {"|", "&"} => next = [arg |-> NULL, kind |-> "normal", used |-> 0]
            /\ l[n + 1] \in {"<", ">"} =>
                 IF n + 1 < Len(l) /\ IsWord(l[n + 2])
                 THEN next = [arg |-> l[n + 2], kind |-> l[n + 1], used |-> 2]
                 ELSE next = [arg |-> NULL, kind |-> l[n + 1], used |-> 1]
<1>1. /\ l \in Seq(Token) /\ Len(l) \in 0 .. Len(text) /\ Len(text) \in Nat /\ n \in 0 .. Len(l)
      /\ \A m \in 1 .. Len(l) : l[m] = text[m] /\ text[m] # "nl"
      /\ Len(l) < Len(text) => text[Len(l) + 1] = "nl"
  BY LineIs DEF Ahead
<1>2. n \in 0 .. Len(text) /\ text \in Seq(Token) /\ input = Rest(n)
  BY <1>1 DEF Ahead
<1>3. /\ input \in Seq(Token) /\ Len(input) = Len(text) - n
      /\ \A j \in 1 .. Len(text) - n : input[j] = text[n + j]
  BY <1>2, RestIs
<1>4. ~parser_at_eof /\ Head(input) = l[n + 1]
  BY Ahead1
<1>5. Len(input) > 1 /\ IsWord(input[2]) <=> n + 1 < Len(l) /\ IsWord(l[n + 2])
  <2>1. n + 1 < Len(l) => Len(input) > 1 /\ input[2] = l[n + 2]
    <3> SUFFICES ASSUME n + 1 < Len(l) PROVE Len(input) > 1 /\ input[2] = l[n + 2]
      OBVIOUS
    <3>1. n + 2 \in 1 .. Len(l) /\ 2 \in 1 .. Len(text) - n
      BY <1>1
    <3> QED
      BY <1>1, <1>3, <3>1
  <2>2. n + 1 >= Len(l) /\ Len(input) > 1 => input[2] = "nl"
    <3> SUFFICES ASSUME n + 1 >= Len(l), Len(input) > 1 PROVE input[2] = "nl"
      OBVIOUS
    <3>1. n + 1 = Len(l) /\ 2 \in 1 .. Len(text) - n /\ Len(l) < Len(text)
      BY <1>1, <1>3
    <3>2. n + 2 = Len(l) + 1
      BY <1>1, <3>1
    <3> QED
      BY <1>1, <1>3, <3>1, <3>2
  <2> QED
    BY <1>1, <2>1, <2>2 DEF IsWord, Operators
<1>6. n + 1 < Len(l) => input[2] = l[n + 2]
  <2> SUFFICES ASSUME n + 1 < Len(l) PROVE input[2] = l[n + 2]
    OBVIOUS
  <2>1. n + 2 \in 1 .. Len(l) /\ 2 \in 1 .. Len(text) - n
    BY <1>1
  <2> QED
    BY <1>1, <1>3, <2>1
<1>7. CASE IsWord(l[n + 1])
  BY <1>4, <1>7 DEF parser_next_argument, At, IsWord, Operators
<1>8. CASE l[n + 1] \in {"|", "&"}
  BY <1>4, <1>8 DEF parser_next_argument, At, IsWord, Operators
<1>9. CASE l[n + 1] \in {"<", ">"}
  <2>1. parser_next_argument =
          IF Len(input) > 1 /\ IsWord(input[2])
            THEN [arg |-> input[2], kind |-> Head(input), used |-> 2]
            ELSE [arg |-> NULL, kind |-> Head(input), used |-> 1]
    BY <1>4, <1>9 DEF parser_next_argument, At, IsWord, Operators
  <2>2. ~IsWord(l[n + 1]) /\ l[n + 1] \notin {"|", "&"}
    BY <1>9 DEF IsWord, Operators
  <2> QED
    BY <1>4, <1>5, <1>6, <2>1, <2>2
<1> QED
  BY <1>7, <1>8, <1>9 DEF IsWord, Operators

(***************************************************************************)
(* The invariant of the parser: what it has of the first n tokens of l.    *)
(***************************************************************************)
\* No "&" among the first n tokens, and a file for each redirection.
Clean(l, n) ==
  \A m \in 1 .. n : /\ l[m] # "&"
                    /\ l[m] \in {"<", ">"} => m < n /\ IsWord(l[m + 1])

\* The first K commands, finished.
Said(l, n, p, K) ==
  /\ pipeline_length(p) = K
  /\ \A k \in 0 .. K - 1 : Says(l, n, k, p.scommands[k + 1])

GrammarAt(l, n) ==
  /\ Ahead(l, n)
  /\ pc = "scommand" => /\ Clean(l, n) /\ Said(l, n, apipe, Bars(l, n))
                        /\ Says(l, n, Bars(l, n), scom)
  /\ pc \in {"pipe", "background", "garbage"} => Said(l, n, apipe, Bars(l, n) + 1)
  /\ pc = "pipe" => Clean(l, n) /\ (n < Len(l) => l[n + 1] \in {"|", "&"})
  /\ pc = "background" => Clean(l, n) /\ (n < Len(l) => l[n + 1] = "&")
  /\ pc = "garbage" => \/ apipe.wait /\ n = Len(l) /\ Clean(l, n)
                       \/ ~apipe.wait /\ n > 0 /\ l[n] = "&" /\ Clean(l, n - 1)

GrammarInv ==
  /\ text \in Seq(Token)
  /\ pc \in {"scommand", "pipe", "background", "garbage"} => \E l, n : GrammarAt(l, n)
  /\ ParsedRight

LEMMA Start ==
  ASSUME NEW l \in Seq(Token)
  PROVE  /\ 0 \in 0 .. Len(l) /\ Bars(l, 0) = 0
         /\ Clean(l, 0) /\ Said(l, 0, pipeline_new, 0) /\ Says(l, 0, 0, scommand_new)
<1>1. Len(l) \in Nat /\ Bars(l, 0) = 0
  BY BarsNext
<1>2. \A role \in Roles : \A m \in Words(l, 0, role) : m > 0
  BY WordsIn DEF Positions
<1>3. Says(l, 0, 0, scommand_new)
  BY <1>2, SaysNothing
<1>4. Said(l, 0, pipeline_new, 0)
  BY DEF Said, pipeline_new, pipeline_length
<1> QED
  BY <1>1, <1>3, <1>4 DEF Clean

\* Commands that the next token says nothing of: if it is an operator, or for
\* the commands before the last bar.
LEMMA SaidSkips ==
  ASSUME NEW l \in Seq(Token), NEW n \in Nat, n < Len(l), NEW k,
         ~IsWord(l[n + 1]) \/ (k \in Nat /\ k < Bars(l, n))
  PROVE  \A sc : Says(l, n, k, sc) => Says(l, n + 1, k, sc)
<1>1. Bars(l, n) \in Nat /\ Bars(l, n + 1) >= Bars(l, n)
  BY BarsNext
<1>2. ASSUME NEW role \in Roles, n + 1 \in Words(l, k, role) PROVE FALSE
  <2>1. IsWord(l[n + 1]) /\ Bars(l, n + 1) = k
    BY <1>2 DEF Words
  <2> QED
    BY <1>1, <2>1
<1> QED
  BY <1>2, SaysSkips

LEMMA SaidStep ==
  ASSUME NEW l \in Seq(Token), NEW n \in Nat, n < Len(l), NEW p, NEW K \in Nat, Said(l, n, p, K),
         ~IsWord(l[n + 1]) \/ K <= Bars(l, n)
  PROVE  Said(l, n + 1, p, K)
<1>1. Bars(l, n) \in Nat
  BY BarsNext
<1>2. ASSUME NEW k \in 0 .. K - 1 PROVE Says(l, n + 1, k, p.scommands[k + 1])
  <2>1. ~IsWord(l[n + 1]) \/ (k \in Nat /\ k < Bars(l, n))
    BY <1>1
  <2>2. Says(l, n, k, p.scommands[k + 1])
    BY DEF Said
  <2> QED
    BY <2>1, <2>2, SaidSkips
<1> QED
  BY <1>2 DEF Said

LEMMA SaidPush ==
  ASSUME NEW l, NEW n, NEW p \in Pipeline, NEW K \in Nat, NEW sc \in Scommand,
         Said(l, n, p, K), Says(l, n, K, sc)
  PROVE  Said(l, n, pipeline_push_back(p, sc), K + 1)
<1>1. /\ p.scommands \in Seq(Scommand) /\ Len(p.scommands) = K
      /\ pipeline_push_back(p, sc).scommands = Append(p.scommands, sc)
  BY DEF Pipeline, Said, pipeline_length, pipeline_push_back
<1>2. /\ Len(Append(p.scommands, sc)) = K + 1 /\ Append(p.scommands, sc)[K + 1] = sc
      /\ \A k \in 1 .. K : Append(p.scommands, sc)[k] = p.scommands[k]
  BY <1>1, AppendProperties
<1>3. ASSUME NEW k \in 0 .. (K + 1) - 1
      PROVE  Says(l, n, k, pipeline_push_back(p, sc).scommands[k + 1])
  <2>1. CASE k = K
    BY <1>1, <1>2, <2>1
  <2>2. CASE k # K
    <3>1. k \in 0 .. K - 1 /\ k + 1 \in 1 .. K
      BY <2>2
    <3> QED
      BY <1>1, <1>2, <3>1 DEF Said
  <2> QED
    BY <2>1, <2>2
<1> QED
  BY <1>1, <1>2, <1>3 DEF Said, pipeline_length

\* The next command begins after a bar.
LEMMA SaysBar ==
  ASSUME NEW l \in Seq(Token), NEW n \in Nat, n < Len(l), l[n + 1] = "|"
  PROVE  /\ Bars(l, n + 1) = Bars(l, n) + 1 /\ Bars(l, n) \in Nat
         /\ Says(l, n + 1, Bars(l, n + 1), scommand_new)
<1>1. Bars(l, n + 1) = Bars(l, n) + 1 /\ Bars(l, n) \in Nat
  BY BarsNext
<1>2. ASSUME NEW role \in Roles, NEW m \in Words(l, Bars(l, n + 1), role) PROVE m > n + 1
  <2>1. m \in Nat /\ IsWord(l[m]) /\ Bars(l, m) = Bars(l, n + 1)
    BY WordsIn DEF Positions, Words
  <2>2. m # n + 1
    BY <2>1 DEF IsWord, Operators
  <2>3. \A j \in 0 .. n : Bars(l, j) <= Bars(l, n)
    BY BarsNext
  <2>4. ~(m <= n)
    <3> SUFFICES ASSUME m <= n PROVE FALSE
      OBVIOUS
    <3>1. m \in 0 .. n
      BY <2>1
    <3> QED
      BY <1>1, <2>1, <2>3, <3>1
  <2> QED
    BY <2>1, <2>2, <2>4
<1>3. Says(l, n + 1, Bars(l, n + 1), scommand_new)
  BY <1>2, SaysNothing
<1> QED
  BY <1>1, <1>3

\* A word after the first n tokens is an argument.
LEMMA SaysWord ==
  ASSUME NEW l \in Seq(Token), NEW n \in Nat, n < Len(l), Clean(l, n), IsWord(l[n + 1]),
         NEW sc \in Scommand, Says(l, n, Bars(l, n), sc)
  PROVE  /\ Bars(l, n + 1) = Bars(l, n) /\ Clean(l, n + 1)
         /\ Says(l, n + 1, Bars(l, n), scommand_push_back(sc, l[n + 1]))
<1>1. l[n + 1] \notin Operators
  BY DEF IsWord
<1>3. Bars(l, n + 1) = Bars(l, n)
  BY <1>1, BarsNext DEF Operators
<1>4. Role(l, n + 1) = "arg"
  <2>1. n + 1 > 1 => l[n] \notin {"<", ">"}
    BY DEF Clean
  <2>2. (n + 1) - 1 = n
    OBVIOUS
  <2> QED
    BY <2>1, <2>2 DEF Role
<1>5. n + 1 \in Words(l, Bars(l, n), "arg")
  BY <1>3, <1>4 DEF Words
<1>6. Clean(l, n + 1)
  BY <1>1 DEF Clean, Operators
<1> QED
  BY <1>3, <1>5, <1>6, SaysArgument

\* A redirection and its file.
LEMMA SaysRedirection ==
  ASSUME NEW l \in Seq(Token), NEW n \in Nat, n + 1 < Len(l), Clean(l, n),
         l[n + 1] \in {"<", ">"}, IsWord(l[n + 2]),
         NEW sc \in Scommand, Says(l, n, Bars(l, n), sc)
  PROVE  /\ Bars(l, n + 2) = Bars(l, n) /\ Clean(l, n + 2)
         /\ Says(l, n + 2, Bars(l, n),
                 IF l[n + 1] = "<" THEN scommand_set_redir_in(sc, l[n + 2])
                                   ELSE scommand_set_redir_out(sc, l[n + 2]))
<1>1. n + 1 \in Nat /\ (n + 1) + 1 = n + 2 /\ Len(l) \in Nat /\ n < Len(l)
  OBVIOUS
<1>2. l[n + 1] # "|" /\ l[n + 2] \notin Operators /\ ~IsWord(l[n + 1])
  BY DEF IsWord, Operators
<1>3. Bars(l, n + 1) = Bars(l, n)
  BY <1>1, <1>2, BarsNext
<1>4. Bars(l, (n + 1) + 1) = Bars(l, n + 1)
  BY <1>1, <1>2, BarsNext DEF Operators
<1>5. Bars(l, n + 2) = Bars(l, n)
  BY <1>1, <1>3, <1>4
<1>6. Clean(l, n + 2)
  <2> SUFFICES ASSUME NEW m \in 1 .. n + 2
               PROVE  /\ l[m] # "&"
                      /\ l[m] \in {"<", ">"} => m < n + 2 /\ IsWord(l[m + 1])
    BY DEF Clean
  <2>1. m \in 1 .. n \/ m = n + 1 \/ m = n + 2
    OBVIOUS
  <2> QED
    BY <1>2, <2>1 DEF Clean, Operators
<1>7. Role(l, n + 2) = l[n + 1]
  <2>1. (n + 2) - 1 = n + 1 /\ n + 2 > 1
    OBVIOUS
  <2> QED
    BY <2>1 DEF Role
<1>8. n + 2 \in Words(l, Bars(l, n), l[n + 1])
  BY <1>1, <1>5, <1>7 DEF Words
<1>9. Says(l, n + 1, Bars(l, n), sc)
  BY <1>2, SaidSkips
<1>10. CASE l[n + 1] = "<"
  <2>1. Says(l, (n + 1) + 1, Bars(l, n), scommand_set_redir_in(sc, l[(n + 1) + 1]))
    BY <1>1, <1>8, <1>9, <1>10, SaysFile
  <2> QED
    BY <1>1, <1>5, <1>6, <1>10, <2>1
<1>11. CASE l[n + 1] = ">"
  <2>1. Says(l, (n + 1) + 1, Bars(l, n), scommand_set_redir_out(sc, l[(n + 1) + 1]))
    BY <1>1, <1>8, <1>9, <1>11, SaysFile
  <2> QED
    BY <1>1, <1>5, <1>6, <1>11, <2>1
<1> QED
  BY <1>10, <1>11

(***************************************************************************)
(* The steps of the parser.                                                *)
(***************************************************************************)
\* Where consume() leaves the parser.
LEMMA MovesAhead ==
  ASSUME NEW l, NEW n, Ahead(l, n), NEW k \in Nat, n + k <= Len(l), consume(k), text' = text
  PROVE  Ahead(l, n + k)'
<1>1. /\ text \in Seq(Token) /\ n \in Nat /\ Len(l) \in Nat /\ Len(text) \in Nat
      /\ n \in 0 .. Len(l) /\ Len(l) <= Len(text) /\ l = Line(text) /\ input = Rest(n)
  BY Ahead1 DEF Ahead
<1>2. n \in 0 .. Len(text) /\ k \in 0 .. Len(text) - n /\ n + k \in 0 .. Len(l)
  BY <1>1
<1>3. input' = Rest(n + k)
  BY <1>1, <1>2, ConsumeMoves DEF consume
<1>4. Rest(n + k)' = Rest(n + k) /\ Line(text)' = Line(text)
  BY DEF Rest, Line
<1> QED
  BY <1>1, <1>2, <1>3, <1>4 DEF Ahead

LEMMA StaysAhead ==
  ASSUME NEW l, NEW n, Ahead(l, n), UNCHANGED <<input, text>>
  PROVE  Ahead(l, n)'
<1>1. Rest(n)' = Rest(n) /\ Line(text)' = Line(text)
  BY DEF Rest, Line
<1> QED
  BY <1>1 DEF Ahead

\* A line whose redirection has no file gives no pipeline.
LEMMA Refused ==
  ASSUME NEW l, l = Line(text), text' = text, ~FilesNamed(l), apipe' = NULL
  PROVE  ParsedRight'
<1>1. Line(text)' = l
  BY DEF Line
<1> QED
  BY <1>1 DEF ParsedRight, Valid

LEMMA GrammarScommand ==
  ASSUME ParseType, GrammarInv, parse_scommand, text' = text
  PROVE  GrammarInv'
<1> DEFINE next == parser_next_argument
<1>1. PICK l, n : GrammarAt(l, n)
  BY DEF GrammarInv, parse_scommand
<1>2. /\ Ahead(l, n) /\ Clean(l, n) /\ Said(l, n, apipe, Bars(l, n))
      /\ Says(l, n, Bars(l, n), scom) /\ pc = "scommand"
  BY <1>1 DEF GrammarAt, parse_scommand
<1>3. /\ scom \in Scommand /\ apipe \in Pipeline /\ text' \in Seq(Token)
      /\ l \in Seq(Token) /\ n \in Nat /\ Len(l) \in Nat /\ n \in 0 .. Len(l) /\ l = Line(text)
      /\ Bars(l, n) \in Nat
  BY <1>2, Ahead1, BarsNext DEF ParseType, GrammarInv, Ahead
<1>4. CASE n < Len(l) /\ IsWord(l[n + 1])
  <2>1. /\ ~parser_at_eof /\ l[n + 1] \in Token /\ l[n + 1] # NULL
        /\ next = [arg |-> l[n + 1], kind |-> "normal", used |-> 1]
    BY <1>2, <1>4, Ahead1, Ahead2, NULLAssumption
  <2>2. /\ consume(1) /\ scom' = scommand_push_back(scom, l[n + 1])
        /\ pc' = pc /\ apipe' = apipe
    BY <2>1 DEF parse_scommand
  <2>3. Ahead(l, n + 1)'
    BY <1>2, <1>3, <1>4, <2>2, MovesAhead
  <2>4. /\ Bars(l, n + 1) = Bars(l, n) /\ Clean(l, n + 1)
        /\ Says(l, n + 1, Bars(l, n), scommand_push_back(scom, l[n + 1]))
    BY <1>2, <1>3, <1>4, SaysWord
  <2>5. Said(l, n + 1, apipe, Bars(l, n))
    BY <1>2, <1>3, <1>4, SaidStep
  <2>6. GrammarAt(l, n + 1)'
    BY <1>2, <2>2, <2>3, <2>4, <2>5 DEF GrammarAt
  <2> QED
    BY <1>2, <1>3, <2>2, <2>6 DEF GrammarInv, ParsedRight
<1>5. CASE n < Len(l) /\ l[n + 1] \in {"<", ">"} /\ n + 1 < Len(l) /\ IsWord(l[n + 2])
  <2>1. /\ ~parser_at_eof /\ l[n + 2] \in Token /\ l[n + 2] # NULL
        /\ next = [arg |-> l[n + 2], kind |-> l[n + 1], used |-> 2]
    <3>1. n + 2 \in 1 .. Len(l)
      BY <1>3, <1>5
    <3> QED
      BY <1>2, <1>3, <1>5, <3>1, Ahead1, Ahead2, NULLAssumption, ElementOfSeq
  <2>2. /\ consume(2) /\ pc' = pc /\ apipe' = apipe
        /\ scom' = IF l[n + 1] = "<" THEN scommand_set_redir_in(scom, l[n + 2])
                                     ELSE scommand_set_redir_out(scom, l[n + 2])
    BY <1>5, <2>1 DEF parse_scommand
  <2>3. Ahead(l, n + 2)'
    BY <1>2, <1>3, <1>5, <2>2, MovesAhead
  <2>4. /\ Bars(l, n + 2) = Bars(l, n) /\ Clean(l, n + 2)
        /\ Says(l, n + 2, Bars(l, n), scom')
    BY <1>2, <1>3, <1>5, <2>2, SaysRedirection
  <2>5. Said(l, n + 2, apipe, Bars(l, n))
    <3>1. ~IsWord(l[n + 1]) /\ l[n + 1] # "|" /\ n < Len(l)
      BY <1>5 DEF IsWord, Operators
    <3>2. Said(l, n + 1, apipe, Bars(l, n)) /\ Bars(l, n + 1) = Bars(l, n)
      BY <1>2, <1>3, <3>1, SaidStep, BarsNext
    <3>3. n + 1 \in Nat /\ n + 1 < Len(l) /\ (n + 1) + 1 = n + 2
      BY <1>3, <1>5
    <3>4. Said(l, (n + 1) + 1, apipe, Bars(l, n))
      BY <1>3, <3>2, <3>3, SaidStep
    <3> QED
      BY <3>3, <3>4
  <2>6. GrammarAt(l, n + 2)'
    BY <1>2, <2>2, <2>3, <2>4, <2>5 DEF GrammarAt
  <2> QED
    BY <1>2, <1>3, <2>2, <2>6 DEF GrammarInv, ParsedRight
<1>6. CASE n < Len(l) /\ l[n + 1] \in {"<", ">"} /\ ~(n + 1 < Len(l) /\ IsWord(l[n + 2]))
  <2>1. ~parser_at_eof /\ next = [arg |-> NULL, kind |-> l[n + 1], used |-> 1]
    BY <1>2, <1>6, Ahead1, Ahead2
  <2>2. pc' = "parsed" /\ apipe' = NULL
    BY <1>6, <2>1 DEF parse_scommand
  <2>3. ~FilesNamed(l)
    <3>1. n + 1 \in 1 .. Len(l) /\ (n + 1) + 1 = n + 2
      BY <1>3, <1>6
    <3> QED
      BY <1>6, <3>1 DEF FilesNamed
  <2>4. ParsedRight'
    BY <1>3, <2>2, <2>3, Refused
  <2> QED
    BY <1>3, <2>2, <2>4 DEF GrammarInv
<1>7. CASE n = Len(l) \/ l[n + 1] \in {"|", "&"}
  <2>1. parser_at_eof \/ next = [arg |-> NULL, kind |-> "normal", used |-> 0]
    <3>1. CASE n = Len(l)
      BY <1>2, <3>1, Ahead1 DEF parser_next_argument, At, IsWord, Operators
    <3>2. CASE n # Len(l)
      <4>1. n < Len(l)
        BY <1>3, <3>2
      <4> QED
        BY <1>2, <1>7, <3>2, <4>1, Ahead2
    <3> QED
      BY <3>1, <3>2
  <2>2. pc' = "pipe" /\ apipe' = pipeline_push_back(apipe, scom) /\ input' = input
    BY <2>1 DEF parse_scommand
  <2>3. Ahead(l, n)'
    BY <1>2, <2>2, StaysAhead
  <2>4. Said(l, n, pipeline_push_back(apipe, scom), Bars(l, n) + 1)
    BY <1>2, <1>3, SaidPush
  <2>5. n < Len(l) => l[n + 1] \in {"|", "&"}
    BY <1>3, <1>7
  <2>6. GrammarAt(l, n)'
    BY <1>2, <2>2, <2>3, <2>4, <2>5 DEF GrammarAt
  <2> QED
    BY <1>3, <2>2, <2>6 DEF GrammarInv, ParsedRight
<1> QED
  <2>1. n < Len(l) => l[n + 1] # "nl"
    BY <1>2, Ahead1
  <2>2. n < Len(l) \/ n = Len(l)
    BY <1>3
  <2> QED
    BY <1>4, <1>5, <1>6, <1>7, <2>1, <2>2 DEF IsWord, Operators

LEMMA GrammarPipe ==
  ASSUME ParseType, GrammarInv, parse_pipe, text' = text
  PROVE  GrammarInv'
<1>1. PICK l, n : GrammarAt(l, n)
  BY DEF GrammarInv, parse_pipe
<1>2. /\ Ahead(l, n) /\ Clean(l, n) /\ Said(l, n, apipe, Bars(l, n) + 1)
      /\ n < Len(l) => l[n + 1] \in {"|", "&"}
      /\ pc = "pipe" /\ apipe' = apipe
  BY <1>1 DEF GrammarAt, parse_pipe
<1>3. /\ text' \in Seq(Token) /\ l \in Seq(Token) /\ n \in Nat /\ Len(l) \in Nat
      /\ n \in 0 .. Len(l) /\ Bars(l, n) \in Nat
      /\ At("|") <=> n < Len(l) /\ l[n + 1] = "|"
  BY <1>2, Ahead1, BarsNext DEF GrammarInv
<1>4. CASE At("|")
  <2>1. consume(1) /\ pc' = "scommand" /\ scom' = scommand_new
    BY <1>4 DEF parse_pipe
  <2>2. n < Len(l) /\ l[n + 1] = "|" /\ n + 1 <= Len(l)
    BY <1>3, <1>4
  <2>3. Ahead(l, n + 1)'
    BY <1>2, <1>3, <2>1, <2>2, MovesAhead
  <2>4. /\ Bars(l, n + 1) = Bars(l, n) + 1
        /\ Says(l, n + 1, Bars(l, n + 1), scommand_new)
    BY <1>3, <2>2, SaysBar
  <2>5. Said(l, n + 1, apipe, Bars(l, n) + 1)
    <3>1. ~IsWord(l[n + 1]) /\ Bars(l, n) + 1 \in Nat
      BY <1>3, <2>2 DEF IsWord, Operators
    <3> QED
      BY <1>2, <1>3, <2>2, <3>1, SaidStep
  <2>6. Clean(l, n + 1)
    BY <1>2, <1>3, <2>2 DEF Clean
  <2>7. GrammarAt(l, n + 1)'
    BY <1>2, <2>1, <2>3, <2>4, <2>5, <2>6 DEF GrammarAt
  <2> QED
    BY <1>3, <2>1, <2>7 DEF GrammarInv, ParsedRight
<1>5. CASE ~At("|")
  <2>1. pc' = "background" /\ input' = input
    BY <1>5 DEF parse_pipe
  <2>2. Ahead(l, n)'
    BY <1>2, <2>1, StaysAhead
  <2>3. GrammarAt(l, n)'
    BY <1>2, <1>3, <1>5, <2>1, <2>2 DEF GrammarAt
  <2> QED
    BY <1>3, <2>1, <2>3 DEF GrammarInv, ParsedRight
<1> QED
  BY <1>4, <1>5

LEMMA GrammarBackground ==
  ASSUME ParseType, GrammarInv, parse_background, text' = text
  PROVE  GrammarInv'
<1>1. PICK l, n : GrammarAt(l, n)
  BY DEF GrammarInv, parse_background
<1>2. /\ Ahead(l, n) /\ Clean(l, n) /\ Said(l, n, apipe, Bars(l, n) + 1)
      /\ n < Len(l) => l[n + 1] = "&"
      /\ pc' = "garbage" /\ apipe' = [apipe EXCEPT !.wait = ~At("&")]
      /\ consume(IF At("&") THEN 1 ELSE 0)
  BY <1>1 DEF GrammarAt, parse_background, pipeline_set_wait
<1>3. /\ text' \in Seq(Token) /\ l \in Seq(Token) /\ n \in Nat /\ Len(l) \in Nat
      /\ n \in 0 .. Len(l) /\ Bars(l, n) \in Nat /\ apipe \in Pipeline
      /\ At("&") <=> n < Len(l) /\ l[n + 1] = "&"
  BY <1>2, Ahead1, BarsNext DEF GrammarInv, ParseType, parse_background
<1>4. apipe'.scommands = apipe.scommands /\ apipe'.wait = ~At("&")
  BY <1>2, <1>3 DEF Pipeline
<1>5. Said(l, n, apipe', Bars(l, n) + 1)
  BY <1>2, <1>4 DEF Said, pipeline_length
<1>6. CASE At("&")
  <2>0. consume(1)
    BY <1>2, <1>6
  <2>1. n < Len(l) /\ l[n + 1] = "&" /\ n + 1 <= Len(l) /\ ~apipe'.wait
    <3>1. n < Len(l) /\ l[n + 1] = "&"
      BY <1>3, <1>6, Zenon
    <3>2. ~apipe'.wait
      BY <1>4, <1>6, Zenon
    <3> QED
      BY <1>3, <3>1, <3>2
  <2>2. Ahead(l, n + 1)'
    BY <1>2, <1>3, <2>0, <2>1, MovesAhead
  <2>3. Bars(l, n + 1) = Bars(l, n) /\ Said(l, n + 1, apipe', Bars(l, n) + 1)
    <3>1. ~IsWord(l[n + 1]) /\ l[n + 1] # "|" /\ Bars(l, n) + 1 \in Nat
      BY <1>3, <2>1 DEF IsWord, Operators
    <3> QED
      BY <1>3, <1>5, <2>1, <3>1, SaidStep, BarsNext
  <2>4. n + 1 > 0 /\ (n + 1) - 1 = n
    BY <1>3
  <2>5. GrammarAt(l, n + 1)'
    BY <1>2, <2>1, <2>2, <2>3, <2>4 DEF GrammarAt
  <2> QED
    BY <1>2, <1>3, <2>5 DEF GrammarInv, ParsedRight
<1>7. CASE ~At("&")
  <2>0. consume(0)
    BY <1>2, <1>7
  <2>1. n = Len(l) /\ apipe'.wait
    <3>1. ~(n < Len(l))
      BY <1>2, <1>3, <1>7, Zenon
    <3>2. apipe'.wait
      BY <1>4, <1>7, Zenon
    <3> QED
      BY <1>3, <3>1, <3>2
  <2>2. Ahead(l, n + 0)' /\ n + 0 = n
    BY <1>2, <1>3, <2>0, <2>1, MovesAhead
  <2>3. GrammarAt(l, n)'
    BY <1>2, <1>5, <2>1, <2>2 DEF GrammarAt
  <2> QED
    BY <1>2, <1>3, <2>3 DEF GrammarInv, ParsedRight
<1> QED
  BY <1>6, <1>7

LEMMA RankNone ==
  ASSUME NEW S, Positions(S), NEW n \in Nat, \A m \in S : m <= n
  PROVE  Rank(S, n) = 0 <=> S = {}
<1>1. {m \in S : m <= n} = S
  OBVIOUS
<1> QED
  BY <1>1, FS_EmptySet DEF Rank, Positions

\* A lone command without arguments is one of a line without "|" and arguments.
LEMMA LoneEmpty ==
  ASSUME NEW l \in Seq(Token), NEW p \in Pipeline, Said(l, Len(l), p, Bars(l, Len(l)) + 1)
  PROVE  pipeline_length(p) = 1 /\ scommand_length(pipeline_front(p)) = 0
           <=> Bars(l, Len(l)) = 0 /\ Words(l, 0, "arg") = {}
<1> DEFINE n == Len(l)
           args == Words(l, 0, "arg")
<1>1. n \in Nat /\ Bars(l, n) \in Nat /\ (pipeline_length(p) = 1 <=> Bars(l, n) = 0)
  <2>1. n \in Nat
    OBVIOUS
  <2>2. Bars(l, n) \in Nat /\ pipeline_length(p) = Bars(l, n) + 1
    BY <2>1, BarsNext DEF Said
  <2> QED
    BY <2>1, <2>2
<1>2. CASE Bars(l, n) = 0
  <2>1. Positions(args) /\ \A m \in args : m <= n
    <3>1. Positions(args)
      BY WordsIn
    <3>2. args \in SUBSET (1 .. n)
      BY DEF Words
    <3> HIDE DEF args, n
    <3> QED
      BY <1>1, <3>1, <3>2
  <2>2. Says(l, n, 0, p.scommands[1])
    <3>1. 0 \in 0 .. (Bars(l, n) + 1) - 1 /\ 0 + 1 = 1
      BY <1>1
    <3> QED
      BY <3>1 DEF Said
  <2>3. Len(p.scommands[1].args) = Rank(args, n)
    BY <2>2 DEF Says
  <2>4. pipeline_front(p) = p.scommands[1]
    BY DEF pipeline_front
  <2> HIDE DEF args, n
  <2>5. Rank(args, n) = 0 <=> args = {}
    BY <1>1, <2>1, RankNone
  <2>6. pipeline_length(p) = 1 /\ scommand_length(pipeline_front(p)) = 0 <=> args = {}
    BY <1>1, <1>2, <2>3, <2>4, <2>5 DEF scommand_length
  <2> QED
    BY <1>2, <2>6 DEF args, n
<1> QED
  BY <1>1, <1>2

\* In a line without "|" the only command is the first.
LEMMA OnlyCommand ==
  ASSUME NEW l, Bars(l, Len(l)) = 0
  PROVE  NoneEmpty(l) <=> Words(l, 0, "arg") # {}
<1>1. 0 .. Bars(l, Len(l)) = {0}
  OBVIOUS
<1> QED
  BY <1>1 DEF NoneEmpty

\* parser_garbage leaves the parser after the end of the line.
LEMMA ReachesLineEnd ==
  ASSUME NEW l, NEW n, Ahead(l, n), consume(garbage_end)
  PROVE  input' = SubSeq(text, Len(l) + 2, Len(text))
<1>1. /\ l \in Seq(Token) /\ Len(l) \in 0 .. Len(text) /\ Len(text) \in Nat /\ n \in 0 .. Len(l)
      /\ \A m \in 1 .. Len(l) : l[m] = text[m] /\ text[m] # "nl"
      /\ Len(l) < Len(text) => text[Len(l) + 1] = "nl"
  BY LineIs DEF Ahead
<1>2. n \in 0 .. Len(text) /\ text \in Seq(Token) /\ input = Rest(n)
  BY <1>1 DEF Ahead
<1>3. /\ Len(input) = Len(text) - n
      /\ \A j \in 1 .. Len(text) - n : input[j] = text[n + j]
  BY <1>2, RestIs
<1> DEFINE nls == {j \in 1 .. Len(input) : input[j] = "nl"}
           first == Len(l) + 1 - n
<1>4. \A j \in nls : j >= first
  <2> SUFFICES ASSUME NEW j \in 1 .. Len(input), input[j] = "nl", j < first PROVE FALSE
    BY <1>1, <1>3
  <2>1. j \in 1 .. Len(text) - n /\ n + j \in 1 .. Len(l)
    BY <1>1, <1>3
  <2> QED
    BY <1>1, <1>3, <2>1
<1>5. CASE Len(l) < Len(text)
  <2>1. first \in 1 .. Len(text) - n /\ n + first = Len(l) + 1
    BY <1>1, <1>5
  <2>2. first \in nls
    BY <1>1, <1>3, <1>5, <2>1
  <2>3. nls # {} /\ nls \subseteq Nat
    BY <1>1, <1>3, <2>2
  <2>4. garbage_end = CHOOSE j \in nls : \A m \in nls : j <= m
    BY <2>3 DEF garbage_end
  <2> HIDE DEF nls
  <2>5. garbage_end \in nls /\ garbage_end <= first
    BY <2>2, <2>3, <2>4, Least
  <2> HIDE DEF first
  <2>6. garbage_end = first
    BY <1>4, <2>1, <2>3, <2>5
  <2>7. input' = Rest(n + first)
    <3>1. first \in 0 .. Len(text) - n
      BY <2>1
    <3> QED
      BY <1>2, <2>6, <3>1, ConsumeMoves DEF consume
  <2>8. (n + first) + 1 = Len(l) + 2
    BY <1>1, <2>1
  <2> QED
    BY <2>7, <2>8 DEF Rest
<1>6. CASE Len(l) = Len(text)
  <2>1. nls = {}
    BY <1>1, <1>3, <1>4, <1>6
  <2>2. garbage_end = Len(input)
    BY <2>1 DEF garbage_end
  <2>3. input' = <<>>
    <3>1. Len(input) \in Int /\ Len(input) + 1 \in Int /\ Len(input) < Len(input) + 1
      BY <1>1, <1>3
    <3> QED
      BY <2>2, <3>1, SubSeqEmpty DEF consume
  <2>4. SubSeq(text, Len(l) + 2, Len(text)) = <<>>
    <3>1. Len(l) + 2 \in Int /\ Len(text) \in Int /\ Len(text) < Len(l) + 2
      BY <1>1, <1>6
    <3> QED
      BY <3>1, SubSeqEmpty
  <2> QED
    BY <2>3, <2>4
<1> QED
  BY <1>1, <1>5, <1>6

LEMMA GrammarGarbage ==
  ASSUME ParseType, GrammarInv, parse_garbage, text' = text
  PROVE  GrammarInv'
<1>1. PICK l, n : GrammarAt(l, n)
  BY DEF GrammarInv, parse_garbage
<1>2. /\ Ahead(l, n) /\ Said(l, n, apipe, Bars(l, n) + 1)
      /\ \/ apipe.wait /\ n = Len(l) /\ Clean(l, n)
         \/ ~apipe.wait /\ n > 0 /\ l[n] = "&" /\ Clean(l, n - 1)
      /\ pc' = "parsed" /\ apipe' = (IF rejected(parser_garbage) THEN NULL ELSE apipe)
      /\ consume(garbage_end)
  BY <1>1 DEF GrammarAt, parse_garbage
<1>3. /\ text' \in Seq(Token) /\ l \in Seq(Token) /\ n \in Nat /\ Len(l) \in Nat
      /\ n \in 0 .. Len(l) /\ Bars(l, n) \in Nat /\ apipe \in Pipeline /\ l = Line(text)
      /\ parser_garbage <=> n < Len(l)
  BY <1>2, Ahead1, BarsNext DEF GrammarInv, ParseType, parse_garbage, Ahead
<1>4. Line(text)' = l /\ AfterLine'
  <2>1. Line(text)' = l
    BY <1>3 DEF Line
  <2>2. input' = SubSeq(text, Len(l) + 2, Len(text))
    BY <1>2, ReachesLineEnd
  <2> QED
    BY <2>1, <2>2 DEF AfterLine
<1>5. CASE n < Len(l)
  <2>1. apipe' = NULL
    BY <1>2, <1>3, <1>5 DEF rejected
  <2>2. n \in 1 .. Len(l) /\ l[n] = "&" /\ n # Len(l)
    BY <1>2, <1>3, <1>5
  <2>3. ~Valid(l)
    BY <2>2 DEF Valid, BackgroundLast
  <2>4. ParsedRight'
    BY <1>4, <2>1, <2>3 DEF ParsedRight
  <2> QED
    BY <1>2, <1>3, <2>4 DEF GrammarInv
<1>6. CASE n = Len(l)
  <2>1. BackgroundLast(l) /\ FilesNamed(l)
    <3> SUFFICES ASSUME NEW m \in 1 .. Len(l)
                 PROVE  /\ l[m] = "&" => m = Len(l)
                        /\ l[m] \in {"<", ">"} => m < Len(l) /\ IsWord(l[m + 1])
      BY DEF BackgroundLast, FilesNamed
    <3>1. CASE Clean(l, n)
      BY <1>6, <3>1 DEF Clean
    <3>2. CASE n > 0 /\ l[n] = "&" /\ Clean(l, n - 1)
      <4>1. m = n \/ m \in 1 .. n - 1
        BY <1>3, <1>6
      <4>2. CASE m = n
        BY <1>6, <3>2, <4>2
      <4>3. CASE m \in 1 .. n - 1
        <5>1. l[m] # "&" /\ (l[m] \in {"<", ">"} => m < n - 1 /\ IsWord(l[m + 1]))
          BY <3>2, <4>3 DEF Clean
        <5> QED
          BY <1>3, <1>6, <5>1
      <4> QED
        BY <4>1, <4>2, <4>3
    <3> QED
      BY <1>2, <3>1, <3>2
  <2>2. rejected(parser_garbage) <=> Bars(l, Len(l)) = 0 /\ ~NoneEmpty(l)
    <3>1. ~parser_garbage
      BY <1>3, <1>6
    <3>2. rejected(parser_garbage) <=> Bars(l, Len(l)) = 0 /\ Words(l, 0, "arg") = {}
      BY <1>2, <1>3, <1>6, <3>1, LoneEmpty DEF rejected
    <3> QED
      BY <3>2, OnlyCommand
  <2>3. apipe.wait = ~(l # <<>> /\ l[Len(l)] = "&")
    <3>1. apipe.wait \in BOOLEAN
      BY <1>3 DEF Pipeline
    <3>2. CASE apipe.wait /\ Clean(l, n)
      <4>1. l # <<>> => Len(l) \in 1 .. n
        BY <1>3, <1>6, EmptySeq
      <4> QED
        BY <3>2, <4>1 DEF Clean
    <3>3. CASE ~apipe.wait /\ n > 0 /\ l[n] = "&"
      <4>1. l # <<>>
        BY <1>6, <3>3, EmptySeq
      <4> QED
        BY <1>6, <3>1, <3>3, <4>1
    <3> QED
      BY <1>2, <3>2, <3>3
  <2>4. Means(l, apipe)
    BY <1>2, <1>3, <1>6, <2>3 DEF Means, Said
  <2>5. apipe' = (IF Bars(l, Len(l)) = 0 /\ ~NoneEmpty(l) THEN NULL ELSE apipe)
    BY <1>2, <2>2
  <2>6. apipe # NULL
    BY <1>3, NULLAssumption
  <2>7. ParsedRight'
    BY <1>4, <2>1, <2>4, <2>5, <2>6 DEF ParsedRight, Valid
  <2> QED
    BY <1>2, <1>3, <2>7 DEF GrammarInv
<1> QED
  BY <1>3, <1>5, <1>6

\* The parser starts at the line of what is left of the input.
LEMMA GrammarStart ==
  ASSUME NEW t \in Seq(Token)
  PROVE  \E l : /\ l = Line(t) /\ l \in Seq(Token) /\ 0 \in 0 .. Len(l)
                /\ SubSeq(t, 0 + 1, Len(t)) = t
<1>1. Line(t) \in Seq(Token) /\ 0 \in 0 .. Len(Line(t))
  BY LineIs
<1>2. SubSeq(t, 0 + 1, Len(t)) = t
  BY SubSeqFull
<1> QED
  BY <1>1, <1>2

LEMMA GrammarMain ==
  ASSUME ParseType, GrammarInv, main
  PROVE  GrammarInv'
<1>1. CASE pc' \in {"execute", "exited"} /\ text' = text
  BY <1>1 DEF GrammarInv, ParsedRight
<1>2. CASE parse_start /\ text' = input /\ input' = input
  <2>1. input \in Seq(Token)
    BY DEF ParseType
  <2>2. PICK l : /\ l = Line(input) /\ l \in Seq(Token) /\ 0 \in 0 .. Len(l)
                 /\ SubSeq(input, 0 + 1, Len(input)) = input
    BY <2>1, GrammarStart
  <2>3. pc' = "scommand" /\ scom' = scommand_new /\ apipe' = pipeline_new
    BY <1>2 DEF parse_start
  <2>4. Ahead(l, 0)'
    <3>1. Rest(0)' = SubSeq(input, 0 + 1, Len(input)) /\ Line(text)' = Line(input)
      BY <1>2 DEF Rest, Line
    <3> QED
      BY <1>2, <2>1, <2>2, <3>1 DEF Ahead
  <2>5. /\ Clean(l, 0) /\ Bars(l, 0) = 0
        /\ Said(l, 0, pipeline_new, 0) /\ Says(l, 0, 0, scommand_new)
    BY <2>2, Start
  <2>6. GrammarAt(l, 0)'
    BY <2>3, <2>4, <2>5 DEF GrammarAt
  <2> QED
    BY <1>2, <2>1, <2>3, <2>6 DEF GrammarInv, ParsedRight
<1> QED
  BY <1>1, <1>2 DEF main, goto

LEMMA GrammarInvariant == Spec => []GrammarInv
<1>1. Init /\ IInv => GrammarInv
  <2> SUFFICES ASSUME Init, IInv PROVE GrammarInv
    OBVIOUS
  <2>1. /\ text = input /\ input \in Seq(Token)
        /\ pc = "scommand" /\ scom = scommand_new /\ apipe = pipeline_new
    BY DEF Init, IInv, ParseType
  <2>2. PICK l : /\ l = Line(text) /\ l \in Seq(Token) /\ 0 \in 0 .. Len(l)
                 /\ SubSeq(text, 0 + 1, Len(text)) = text
    BY <2>1, GrammarStart
  <2>3. Ahead(l, 0)
    BY <2>1, <2>2 DEF Ahead, Rest
  <2>4. /\ Clean(l, 0) /\ Bars(l, 0) = 0
        /\ Said(l, 0, pipeline_new, 0) /\ Says(l, 0, 0, scommand_new)
    BY <2>2, Start
  <2>5. GrammarAt(l, 0)
    BY <2>1, <2>3, <2>4 DEF GrammarAt
  <2> QED
    BY <2>1, <2>5 DEF GrammarInv, ParsedRight
<1>2. IInv /\ GrammarInv /\ [Next]_allvars => GrammarInv'
  <2> SUFFICES ASSUME IInv, GrammarInv, [Next]_allvars PROVE GrammarInv'
    OBVIOUS
  <2>1. ParseType
    BY DEF IInv
  <2>2. ASSUME UNCHANGED <<parsevars, pc, apipe, text>> PROVE GrammarInv'
    <3>1. ASSUME NEW l, NEW n, GrammarAt(l, n) PROVE GrammarAt(l, n)'
      <4>1. Ahead(l, n)'
        BY <2>2, <3>1, StaysAhead DEF GrammarAt, parsevars
      <4> QED
        BY <2>2, <3>1, <4>1 DEF GrammarAt, parsevars
    <3>2. ParsedRight'
      <4>1. Line(text)' = Line(text)
        BY <2>2 DEF Line
      <4> QED
        BY <2>2, <4>1 DEF GrammarInv, ParsedRight, AfterLine, parsevars
    <3> QED
      BY <2>2, <3>1, <3>2 DEF GrammarInv
  <2>3. CASE parse_pipeline /\ text' = text
    BY <2>1, <2>3, GrammarScommand, GrammarPipe, GrammarBackground, GrammarGarbage
    DEF parse_pipeline
  <2>4. CASE execute_pipeline /\ text' = text
    <3>1. pc' \in LoopPCs \cup {"wait", "signal", "returned", "exited"}
      BY <2>4 DEF execute_pipeline, builtin_run, execute_one, execute_many, make_pipe, fork,
                  close_behind, wait_next, ignore, goto, LoopPCs
    <3> QED
      BY <2>4, <3>1 DEF GrammarInv, ParsedRight, LoopPCs
  <2>5. CASE \E c \in Commands : (Command(c) \/ quit(c)) /\ text' = text
    <3>1. PICK c \in Commands : (Command(c) \/ quit(c)) /\ text' = text
      BY <2>5
    <3>2. UNCHANGED <<parsevars, pc, apipe>>
      BY <3>1, CommandSteps DEF IInv, shellvars
    <3> QED
      BY <2>2, <3>1, <3>2
  <2>6. CASE UNCHANGED allvars
    BY <2>2, <2>6 DEF allvars, vars, shellvars
  <2> QED
    BY <2>1, <2>3, <2>4, <2>5, <2>6, GrammarMain DEF Next, Shell
<1> QED
  BY <1>1, <1>2, Invariant, PTL DEF Spec

\* parsing.c, for any lines of any length: parse_pipeline gives a pipeline for every
\* valid line, and what it gives is what the line means.  It refuses a misplaced "&",
\* a redirection without a file and a lone command without arguments.  Of every line
\* whose redirections have files, accepted or refused, it reads exactly to the end.
THEOREM LinesParsedRight == Spec => []ParsedRight
<1>1. GrammarInv => ParsedRight
  BY DEF GrammarInv
<1> QED
  BY <1>1, GrammarInvariant, PTL
=============================================================================
