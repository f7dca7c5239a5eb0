---------------------------- MODULE MCInterrupts -----------------------------
EXTENDS Interrupts, TLC

CONSTANTS h0, h1, p1, p2

write(n) == [call |-> "write", n |-> n, ok |-> TRUE]
read(n) == [call |-> "read", n |-> n, ok |-> TRUE]
sleepFor(n) == [call |-> "sleep", n |-> n]
killOf(p) == [call |-> "kill", pid |-> p]
hello == [call |-> "helloworld"]

scene(a, b, typed, at, timers) ==
  [prog |-> (p1 :> a) @@ (p2 :> b), typed |-> typed, at |-> at, timers |-> timers]

MCScenes ==
  { scene(<<write(4)>>, None, <<"^H">>, 0, FALSE),
    scene(<<write(1)>>, <<write(1)>>, <<>>, 0, FALSE),
    scene(<<write(1)>>, <<read(1)>>, <<"newline">>, 0, FALSE),
    scene(<<read(2), read(2)>>, None, <<"a", "^D", "^P">>, 7, FALSE),
    scene(<<read(4)>>, None, <<"a", "b", "^U", "^H", "newline">>, 6, FALSE),
    scene(<<read(1)>>, <<read(1)>>, <<"newline", "newline">>, 6, FALSE),
    scene(<<read(2), read(2)>>, None, <<"a", "b", "a", "b", "b">>, 6, FALSE),
    scene(<<sleepFor(2)>>, <<sleepFor(0), hello>>, <<>>, 7, TRUE),
    scene(<<sleepFor(-1)>>, <<killOf(p1)>>, <<>>, 7, TRUE),
    scene(<<read(1)>>, <<killOf(p1)>>, <<"newline">>, 0, FALSE),
    scene(<<[read(1) EXCEPT !.ok = FALSE]>>, <<[write(1) EXCEPT !.ok = FALSE]>>, <<"newline">>, 0, FALSE) }
=============================================================================
