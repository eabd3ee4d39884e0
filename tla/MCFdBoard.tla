------------------------------ MODULE MCFdBoard ------------------------------
(* A small instance of FdBoard for TLC.                                       *)
EXTENDS FdBoard

Par(load, default, polled, fifo, period) ==
  [load |-> load, default |-> default, polled |-> polled, fifo |-> fifo, period |-> period]
Usual == Par("no", FALSE, FALSE, TRUE, TRUE)

Good == [pll |-> TRUE, ddr |-> TRUE, acam |-> TRUE, irq |-> TRUE, sensor |-> TRUE,
         stuck |-> {}, data |-> "good"]
Broken ==
  {[Good EXCEPT !.pll = FALSE], [Good EXCEPT !.ddr = FALSE], [Good EXCEPT !.acam = FALSE],
   [Good EXCEPT !.irq = FALSE], [Good EXCEPT !.sensor = FALSE], [Good EXCEPT !.stuck = {3}],
   [Good EXCEPT !.data = "tested"], [Good EXCEPT !.data = "other"]}

\* The first board is as given, the second works.
Site(p, content, h, slots, n, f, u) ==
  [param |-> p, eeprom |-> [b \in Boards |-> IF b = "b1" THEN content ELSE "good"],
   hw |-> [b \in Boards |-> IF b = "b1" THEN h ELSE Good],
   plugged |-> slots, probes |-> n, faults |-> f, uses |-> u]

\* One board that works, probed again and again; one with something broken; and one or two
\* with every content of the EEPROM and other parameters.
SomeSites ==
  {Site(Usual, "good", Good, {"b1"}, 2, 2, 2)}
  \cup {Site(Usual, "good", h, {"b1"}, 1, 1, 1) : h \in Broken}
  \cup {Site(Usual, c, Good, Boards, 2, 0, 0) : c \in Contents}
  \cup {Site(Par("missing", FALSE, TRUE, TRUE, FALSE), "bad", Good, {"b1"}, 1, 1, 1),
        Site(Par("file", FALSE, FALSE, FALSE, TRUE), "no-sdb", Good, {"b1"}, 1, 1, 0),
        Site(Par("no", TRUE, TRUE, TRUE, TRUE), "bad", Good, {"b1"}, 1, 1, 0)}

\* A board whose EEPROM has a wrong hash.
WrongHash == {Site(Usual, "bad", Good, {"b1"}, 1, 1, 1)}

\* A tap of 8 ns at every place, with two delays of tap 0.
Steps == {[i \in 0..7 |-> IF i < k THEN bias ELSE bias + 1] : k \in 1..8, bias \in {0, 1}}
============================================================================
