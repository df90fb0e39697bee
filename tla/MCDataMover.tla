----------------------------- MODULE MCDataMover -----------------------------
(***************************************************************************)
(* DataMover for TLC, and the programs its clients run.                    *)
(***************************************************************************)
EXTENDS DataMover, FiniteSets

SeqsUpTo(S, k) == UNION {[1..m -> S] : m \in 0..k}

\* The copies among the calls i..j of program p.
CopiesIn(p, i, j) == Cardinality({k \in i..j : p[k] \in Copies})

\* At most k copies between two calls in ops.
AtMost(p, k, ops) ==
    \A i, j \in 1..Len(p) :
        (\A m \in i..j : p[m] \notin ops) => CopiesIn(p, i, j) <= k

\* Programs of a single client that never fill the ring without waking the
\* DM core, and wake it last.
PacedPrograms ==
    {p \in SeqsUpTo({"memcpy", "start", "wait", "ready"}, 5) :
        /\ AtMost(p, DM_TASK_QUEUE_SIZE, {"start", "wait"})
        /\ p # <<>> => p[Len(p)] \in {"start", "wait"}}
    \* sw/tests/data_mover.c, without its dm_exit
    \cup {<<"ready", "memcpy", "wait", "memcpy", "wait", "memcpy", "memcpy",
            "wait", "memcpy2d", "wait">>}
    \* sw/tests/openmp_double_buffering.c, two tiles
    \cup {<<"memcpy", "memcpy", "wait", "memcpy", "memcpy", "start", "wait",
            "memcpy", "start", "wait", "memcpy", "wait">>}

\* Calls of two clients that share the ring and between them never have more
\* copies under way than its two slots: each waits for one copy before it
\* queues the next.  One client may tell the DM core to exit under the other.
SharedPrograms ==
    {<<"memcpy", "wait", "memcpy2d", "wait">>, <<"ready", "memcpy", "start", "wait">>,
     <<"wait", "exit">>}

CONSTANT c1     \* the client that is alone

AllPrograms ==
    {[c \in Clients |-> IF c = c1 THEN p ELSE <<>>] : p \in PacedPrograms}
    \cup [Clients -> SharedPrograms]

\* Programs for which EveryCallReturns, QueueBounded and DmExits fail.
Alone(p) == {[c \in Clients |-> IF c = c1 THEN p ELSE <<>>]}
WaitThenReady == Alone(<<"wait", "ready">>)
WaitThenExit == Alone(<<"wait", "exit">>)
TwoQueuers == {[c \in Clients |-> <<"memcpy", "memcpy">>]}

=============================================================================
