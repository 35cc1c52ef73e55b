----------------------------- MODULE MCCondVar -----------------------------
(* The clients of test_condvar.c and mutex_example.c with three workers, and *)
(* every choice of one call per worker.  With MCIntMax = 7 the int `pending' *)
(* has 4 bits.                                                               *)
EXTENDS CondVarTest, TLC

CONSTANTS main, w1, w2, w3

MCThreads == {main, w1, w2, w3}

Once  == <<"wait", "count">>
Ones(n) == [i \in 1 .. n |-> "one"]
End   == <<"join", "free">>

Client(m, p1, p2, p3) == (main :> m) @@ (w1 :> p1) @@ (w2 :> p2) @@ (w3 :> p3)

\* What a worker may call; main adds one notification per worker that waits.
OneCall == <<<<>>, Once, <<"one">>, <<"all">>>>

EveryChoice ==
    {Client(Ones(Cardinality({w \in 1 .. 3 : c[w] = 2})) \o End,
            OneCall[c[1]], OneCall[c[2]], OneCall[c[3]]) :
        c \in {d \in [1 .. 3 -> 1 .. 4] : d[1] <= d[2] /\ d[2] <= d[3]}}

MCScenarios ==
    EveryChoice \cup
    { \* test_stress: as many notifications as waits
      Client(Ones(4) \o End, Once \o Once, Once, Once),
      \* test_notify_all
      Client(<<"all">> \o End, Once, Once, Once),
      \* two notifiers, two waiters, one notification left over
      Client(Ones(1) \o End, Once, Once, Ones(2)),
      \* a broadcast racing single notifications
      Client(<<"all">> \o End, Once, <<"one">> \o Once, Ones(1)),
      \* more notifications than an int can count
      Client(<<"all">> \o Ones(5) \o End, Once, <<>>, <<>>),
      \* mutex_example: the worker is started before the variable is created
      Client(<<"create", "one">> \o End, <<"wait">>, <<>>, <<>>) }

MCIntMax == 7
=============================================================================
