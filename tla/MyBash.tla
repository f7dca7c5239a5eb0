------------------------------- MODULE MyBash --------------------------------
(***************************************************************************)
(* The main loop of mybash (LAB1/mybash.c) over its parser and             *)
(* execute_pipeline.  A session is either a test of parse_pipeline, as in  *)
(* tests/test_parsing.c, which ends there, or a whole run of the shell.    *)
(***************************************************************************)
EXTENDS Execute

CONSTANTS
  Sessions,   \* inputs of the shell
  Alphabet,   \* tokens of the parser's tests
  MaxTokens   \* bound: tokens of a test

ASSUME InputAssumption ==
  Sessions \subseteq Seq(Token) /\ Alphabet \subseteq Token /\ MaxTokens \in Nat

VARIABLES text, running   \* the tokens the current parse began with; not a test

allvars == <<vars, text, running>>

Tests == UNION {[1..n -> Alphabet] : n \in 1..MaxTokens}

Init ==
  /\ \/ running = TRUE /\ input \in Sessions
     \/ running = FALSE /\ \E t \in Tests, end \in {<<"nl", "|">>, <<>>} : input = t \o end
  /\ text = input
  /\ pc = "scommand" /\ scom = scommand_new /\ apipe = pipeline_new
  /\ base = 0 /\ length = 0 /\ i = 0
  /\ shell = {} /\ ignored = FALSE /\ failed = FALSE
  /\ child = [c \in Commands |-> unborn]
  /\ bytes = [k \in Commands |-> 0]

\* A pipeline is executed; the loop ends at the end of the input.
main ==
  /\ running
  /\ \/ /\ pc = "parsed" /\ apipe # NULL
        /\ goto("execute")
        /\ UNCHANGED <<parsevars, apipe, base, length, i, shell, text>>
     \/ /\ (pc = "parsed" /\ apipe = NULL) \/ pc = "returned"
        /\ base' = IF pc = "returned" THEN base + length ELSE base
        /\ length' = 0 /\ i' = 0
        /\ \/ ~parser_at_eof /\ parse_start /\ text' = input /\ UNCHANGED shell
           \/ parser_at_eof /\ goto("exited") /\ apipe' = NULL /\ shell' = {} /\ UNCHANGED <<scom, text>>
        /\ UNCHANGED input
  /\ UNCHANGED <<ignored, failed, child, bytes, running>>

Shell ==
  \/ main
  \/ (parse_pipeline /\ UNCHANGED <<base, length, i, shell, ignored, failed, child, bytes, text, running>>)
  \/ (execute_pipeline /\ UNCHANGED <<text, running>>)

Next ==
  \/ Shell
  \/ \E c \in Commands : (Command(c) \/ quit(c)) /\ UNCHANGED <<text, running>>

\* The host schedules every process; no command has to stop early.
Spec ==
  /\ Init /\ [][Next]_allvars
  /\ WF_allvars(Shell)
  /\ \A c \in Commands : WF_allvars(Command(c) /\ UNCHANGED <<text, running>>)
-----------------------------------------------------------------------------
\* The parser is right after a line, whose end is the only one consumed.
AfterLine == input = SubSeq(text, Len(Line(text)) + 2, Len(text))

\* parse_pipeline gives a pipeline for every valid line, and what it gives is what
\* the line means.  It refuses a misplaced "&", a redirection without a file and a
\* lone command without arguments.  The next command is read from after the line,
\* also if this one was refused.  Two cases where the code departs from what it
\* documents are left open (README, where the code disagrees): whether an invalid
\* line with an empty command beside a "|" is refused, as "a |" ought to be, and
\* where the parser stops after a redirection without a file.
ParsedRight ==
  LET l == Line(text)
  IN pc = "parsed" =>
       /\ Valid(l) => apipe # NULL
       /\ apipe # NULL => /\ BackgroundLast(l) /\ FilesNamed(l) /\ Means(l, apipe)
                          /\ Bars(l, Len(l)) = 0 => NoneEmpty(l)
       /\ FilesNamed(l) => AfterLine

\* A pipeline without "&" has ended when execute_pipeline returns, and none of
\* its commands is left as a zombie - also after an earlier line with "&" has
\* changed what becomes of ended children.
ForegroundDone ==
  pc = "returned" /\ ~failed /\ apipe.wait
    => \A c \in base .. base + length - 1 : child[c].st = "reaped"

\* Whatever commands stop early, have their input or output redirected or are
\* empty, every command ends and the shell comes to the end of its input,
\* unless fork or pipe failed: then the ends that the shell keeps may block a
\* command.
SessionEnds ==
  <>(\/ failed \/ ~running
     \/ pc = "exited" /\ \A c \in Commands : Gone(c))
=============================================================================
