------------------------------- MODULE MCCapiTest -------------------------------
EXTENDS CapiTest

MCConfig(recv, MaxActivCalls, callperappl, usWindowSize, maxSentPackets, wait4dataconf,
         most, sigs, plays) ==
    [recv |-> recv, MaxActivCalls |-> MaxActivCalls, callperappl |-> callperappl,
     usWindowSize |-> usWindowSize, maxSentPackets |-> maxSentPackets,
     wait4dataconf |-> wait4dataconf, answers |-> most, signals |-> sigs, plays |-> plays]

\* A sender of three calls, one or two to a connection; one that sends two blocks to
\* a call, and gets a signal; receivers, which make a third application for the call
\* that may come behind two.
MCConfigs == {MCConfig(FALSE, 2, 1, 1, 0, FALSE, 2, 0, 1),
              MCConfig(FALSE, 3, 2, 1, 0, FALSE, 2, 0, 0),
              MCConfig(FALSE, 2, 1, 2, 2, TRUE, 1, 1, 3),
              MCConfig(TRUE, 0, 1, 1, 0, FALSE, 2, 0, 1),
              MCConfig(TRUE, 0, 2, 0, 0, FALSE, 2, 0, 1)}
================================================================================
