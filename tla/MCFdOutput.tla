----------------------------- MODULE MCFdOutput -----------------------------
(* A small instance of FdOutput for TLC: a second of 4 coarse units, a coarse *)
(* unit of 2 fractions or 3 ps, words of one bit, 32 ps in a uint64_t.        *)
EXTENDS FdOutput

Arg(sec, micro, pico, relative) ==
  [sec |-> sec, micro |-> micro, pico |-> pico, relative |-> relative]
Request(client, mode, rep, arg, width, period) ==
  [client |-> client, mode |-> mode, rep |-> rep, arg |-> arg, width |-> width,
   period |-> period]

\* Starts with a carry out of the second to come, and below zero where a program can
\* ask for that.
Args == {Arg(1, 3, 2, TRUE), Arg(1, 0, 1, FALSE), Arg(0, 3, 0, TRUE)}
Timed == {Request(c, "pulse", 1, a, w, 10) :
            c \in Clients, a \in Args, w \in {9}}
         \cup {Request("tom", "pulse", 1, Arg(1, -1, 1, TRUE), 1, 10)}
         \cup {Request(c, "pulse", -1, Arg(0, 0, -5, FALSE), 9, 12) :
                 c \in {"tom", "gs", "dumplog"}}
Delays == {Request("raw", "delay", n, Arg(0, m, 2, FALSE), w, 8) :
             n \in {0, 2}, m \in {1, 3}, w \in {2, 5}}
Trains == {Request("raw", "pulse", n, Arg(1, 0, 1, FALSE), 4, p) :
             n \in {-1, 0, 4, 5}, p \in {4, 7}}
          \cup {Request("raw", "delay", n, Arg(1, 0, 1, FALSE), 4, 7) : n \in {-1, 3}}
          \cup {Request("raw", "pulse", 1, Arg(1, 0, 1, FALSE), 12, p) : p \in {12, 15}}
Later == {Request("raw", "disable", 1, Arg(0, 0, 0, FALSE), 0, 0),
          Request("raw", "delay", 3, Arg(1, 0, 1, FALSE), 4, 7),
          Request("raw", "delay", 1, Arg(0, 2, 1, FALSE), 4, 11)}
AllRequests == Timed \cup Delays \cup Trains \cup Later

TwoOffsets == {-4, 2}
TwoTaps    == {1, 2}
OneNow     == {[utc |-> 2, coarse |-> 1, frac |-> 1]}
============================================================================
