---------------------------- MODULE MCFdPrograms ----------------------------
(* A small instance of FdPrograms for TLC: sequence numbers of two bits.      *)
EXTENDS FdPrograms

AllPrograms == Library \cup Raw \cup Loggers \cup {"raw-input", "raw-perf", "term"}
\* No offset, one that looks like flags, one with the bit of the termination among others.
TwoOffsets == {{}, {"TERM", "other"}, {"TSTAMP", "TERM"}}
============================================================================
