------------------------------- MODULE Parsing -------------------------------
(***************************************************************************)
(* The commands of mybash and their parser (LAB1/command.c, parsing.c).    *)
(* The lexer is the course's object file: its functions are modelled from  *)
(* how parsing.c calls them and from parser.h.  The input is a sequence of *)
(* tokens; one step is one turn of a loop of parsing.c.                    *)
(***************************************************************************)
EXTENDS Integers, Sequences, FiniteSets

CONSTANT NULL

VARIABLES
  pc,        \* where the shell is: "scommand", "pipe", "background", ...
  input,     \* what the lexer has not consumed
  scom,      \* the simple command being parsed
  apipe      \* the pipeline

\* Tokens: an operator is itself, a word any other string.
Operators == {"<", ">", "|", "&", "nl"}
Token == STRING \cup Operators
IsWord(t) == t \notin Operators

\* A simple command: its words and the files of its redirections.
Scommand == [args : Seq(Token), in : Token \cup {NULL}, out : Token \cup {NULL}]
Pipeline == [scommands : Seq(Scommand), wait : BOOLEAN]

\* NULL is told from what a pointer may point to.
ASSUME NULLAssumption == NULL \notin Token /\ NULL \notin Pipeline

------------------------------------------------------------------------------
(* command.c.                                                              *)

scommand_new == [args |-> <<>>, in |-> NULL, out |-> NULL]
scommand_push_back(self, arg) == [self EXCEPT !.args = Append(@, arg)]
scommand_set_redir_in(self, file) == [self EXCEPT !.in = file]

\* Mutant of scommand_set_redir_out: the first redirection counts.
scommand_set_redir_out_First(self, file) == [self EXCEPT !.out = IF @ = NULL THEN file ELSE @]

scommand_set_redir_out(self, file) == [self EXCEPT !.out = file]

scommand_length(self) == Len(self.args)
scommand_front(self) == Head(self.args)

\* scommand_to_string gives "" for a command of nothing at all.
is_blank(self) == self = scommand_new

pipeline_new == [scommands |-> <<>>, wait |-> TRUE]
pipeline_push_back(self, sc) == [self EXCEPT !.scommands = Append(@, sc)]
pipeline_pop_front(self) == [self EXCEPT !.scommands = Tail(@)]
pipeline_front(self) == Head(self.scommands)
pipeline_length(self) == Len(self.scommands)
pipeline_set_wait(self, w) == [self EXCEPT !.wait = w]

------------------------------------------------------------------------------
(* The lexer: what it finds, and how many tokens it consumes.              *)

parser_at_eof == input = <<>>
At(t) == ~parser_at_eof /\ Head(input) = t

parser_next_argument ==
  CASE ~parser_at_eof /\ IsWord(Head(input)) ->
         [arg |-> Head(input), kind |-> "normal", used |-> 1]
    [] At("<") \/ At(">") ->
         IF Len(input) > 1 /\ IsWord(input[2])
           THEN [arg |-> input[2], kind |-> Head(input), used |-> 2]
           ELSE [arg |-> NULL, kind |-> Head(input), used |-> 1]
    [] OTHER -> [arg |-> NULL, kind |-> "normal", used |-> 0]

consume(n) == input' = SubSeq(input, n + 1, Len(input))

\* To the end of the line, which only this function consumes.
garbage_end == LET nls == {n \in 1..Len(input) : input[n] = "nl"}
               IN IF nls = {} THEN Len(input) ELSE CHOOSE n \in nls : \A m \in nls : n <= m
parser_garbage == ~parser_at_eof /\ ~At("nl")

------------------------------------------------------------------------------
(* parsing.c.                                                              *)

parse_start ==
  /\ pc' = "scommand"
  /\ scom' = scommand_new
  /\ apipe' = pipeline_new

\* parse_scommand, and what parse_pipeline does with its result: NULL when a
\* redirection has no file.
parse_scommand ==
  LET next == parser_next_argument
  IN /\ pc = "scommand"
     /\ CASE ~parser_at_eof /\ next.arg # NULL ->
               /\ consume(next.used)
               /\ scom' = CASE next.kind = "normal" -> scommand_push_back(scom, next.arg)
                            [] next.kind = "<" -> scommand_set_redir_in(scom, next.arg)
                            [] next.kind = ">" -> scommand_set_redir_out(scom, next.arg)
               /\ UNCHANGED <<pc, apipe>>
          [] ~parser_at_eof /\ next.arg = NULL /\ next.kind # "normal" ->
               /\ consume(next.used)
               /\ pc' = "parsed" /\ apipe' = NULL /\ scom' = NULL
          [] OTHER ->
               /\ pc' = "pipe"
               /\ apipe' = pipeline_push_back(apipe, scom)
               /\ scom' = NULL
               /\ UNCHANGED input

parse_pipe ==
  /\ pc = "pipe"
  /\ IF At("|") THEN /\ consume(1)
                     /\ pc' = "scommand" /\ scom' = scommand_new
     ELSE pc' = "background" /\ UNCHANGED <<input, scom>>
  /\ UNCHANGED apipe

parse_background ==
  /\ pc = "background"
  /\ apipe' = pipeline_set_wait(apipe, ~At("&"))
  /\ consume(IF At("&") THEN 1 ELSE 0)
  /\ pc' = "garbage"
  /\ UNCHANGED scom

\* A line of nothing, or with something after "&", is no pipeline.
rejected(gar) ==
  (pipeline_length(apipe) = 1 /\ scommand_length(pipeline_front(apipe)) = 0) \/ gar

parse_garbage ==
  /\ pc = "garbage"
  /\ apipe' = IF rejected(parser_garbage) THEN NULL ELSE apipe
  /\ consume(garbage_end)
  /\ pc' = "parsed"
  /\ UNCHANGED scom

parse_pipeline == parse_scommand \/ parse_pipe \/ parse_background \/ parse_garbage

------------------------------------------------------------------------------
(* What a line means: the reference for parse_pipeline.                    *)

Line(tokens) == LET ends == {n \in 1..Len(tokens) : tokens[n] = "nl"}
                IN IF ends = {} THEN tokens
                   ELSE SubSeq(tokens, 1, (CHOOSE n \in ends : \A m \in ends : n <= m) - 1)

\* The words of l after its k-th "|" (k = 0: from the start), by what is
\* before them: "<", ">", or "arg" for anything else.
Rank(S, n) == Cardinality({m \in S : m <= n})
Bars(l, n) == Rank({m \in 1..Len(l) : l[m] = "|"}, n)
Role(l, n) == IF n > 1 /\ l[n - 1] \in {"<", ">"} THEN l[n - 1] ELSE "arg"
Words(l, k, role) == {n \in 1..Len(l) : IsWord(l[n]) /\ Bars(l, n) = k /\ Role(l, n) = role}

\* A valid line has "&" only at its end, a file after each redirection, and an
\* argument, the name at least, in each of its commands: so also a command after
\* each "|" (README.md of lab 1).
BackgroundLast(l) == \A n \in 1..Len(l) : l[n] = "&" => n = Len(l)
FilesNamed(l) ==
  \A n \in 1..Len(l) : l[n] \in {"<", ">"} => n < Len(l) /\ IsWord(l[n + 1])
NoneEmpty(l) == \A k \in 0 .. Bars(l, Len(l)) : Words(l, k, "arg") # {}
Valid(l) == BackgroundLast(l) /\ FilesNamed(l) /\ NoneEmpty(l)

\* x is the last of the words at S up to n.
IsLast(x, l, S, n) ==
  \/ x = NULL /\ \A m \in S : m > n
  \/ \E m \in S : m <= n /\ x = l[m] /\ \A k \in S : k <= n => k <= m

\* sc is what the first n tokens of l say of command k: its arguments in
\* order, and the last redirection of each kind.
Says(l, n, k, sc) ==
  LET args == Words(l, k, "arg")
  IN /\ Len(sc.args) = Rank(args, n)
     /\ \A m \in args : m <= n => sc.args[Rank(args, m)] = l[m]
     /\ IsLast(sc.in, l, Words(l, k, "<"), n)
     /\ IsLast(sc.out, l, Words(l, k, ">"), n)

Means(l, p) ==
  /\ pipeline_length(p) = Bars(l, Len(l)) + 1
  /\ \A k \in 0 .. Bars(l, Len(l)) : Says(l, Len(l), k, p.scommands[k + 1])
  /\ p.wait = ~(l # <<>> /\ l[Len(l)] = "&")
=============================================================================
