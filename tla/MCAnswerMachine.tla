---------------------------- MODULE MCAnswerMachine ----------------------------
EXTENDS AnswerMachine

MCConfig(ncnt, fork_flag, winsize, says, has, rings, speaks) ==
    [ncnt |-> ncnt, fork_flag |-> fork_flag, winsize |-> winsize, says |-> says, has |-> has,
     rings |-> rings, speaks |-> speaks]

\* Two calls, which may be at once; one, with a window of two and a longer
\* announcement; one with a digit to be waited for, and an announcement that is cut
\* off behind its first block, by a program that takes one call only.
MCConfigs == {MCConfig(0, TRUE, 0, 2, 2, 2, 1),
              MCConfig(0, TRUE, 2, 4, 4, 1, 2),
              MCConfig(1, FALSE, 2, 3, 1, 1, 1)}
================================================================================
