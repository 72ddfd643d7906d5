------------------------------- MODULE MCParts -------------------------------
(***************************************************************************)
(* The instances of Parts that TLC checks.                                 *)
(***************************************************************************)
EXTENDS Parts, MCMidiCapture

MCDelays == {-1, 0, 3, 4}

\* Quiet, overloaded, and memory that grows by one and by two.
MCLoads == {[throttled |-> 0, queue |-> 0, rss |-> 0], [throttled |-> 1, queue |-> 1, rss |-> 1],
            [throttled |-> 0, queue |-> 1, rss |-> 2], [throttled |-> 0, queue |-> 0, rss |-> 4]}

MCHosts ==
  LET limits == [version : {1, 2}, quota : {-1, 50, 100, 150}, period : {0, 100},
                 memory : {-1, 5, 6, 7}, swap : {-1, 0, 5, 6, 7}, cpus : 0..2]
      fits == [version |-> 2, quota |-> 100, period |-> 100, memory |-> 6, swap |-> 0,
               cpus |-> 1]
      delegations == [memberships : 0..2, readable : BOOLEAN, missing : BOOLEAN,
                      writable : BOOLEAN]
      all == [memberships |-> 1, readable |-> TRUE, missing |-> FALSE, writable |-> TRUE]
  IN [limits : limits, counters : {TRUE}, delegation : {all}]
     \cup [limits : {fits}, counters : BOOLEAN, delegation : delegations]

\* All runs of one and two steps, those of an anchor between two others, and an
\* action that is waited for and repeated; on the fixture, runs of two.
MCScenarios ==
  [backend : {"native"},
   steps : UNION {[1..n -> Kinds] : n \in 1..2}
           \cup {<<"anchor", k, l>> : k \in {"action", "at_beat", "anchor"},
                                     l \in {"wait_beats", "assertion"}}
           \cup {<<"action", "wait", "action">>}]
  \cup [backend : {"contract-fixture"},
         steps : [1..2 -> {"action", "fixture_fault", "assertion", "anchor"}]]

\* One schedule of two events on two ports.
MCPlans == {<<[port |-> 1, at |-> 1], [port |-> 2, at |-> 1]>>}

\* A metro with and without an end against a sleep and a sync, inputs at equal times, with
\* every cancellation of one by another; and scripts that never come to rest.
MCMusic(metros, threads, inputs, cancels) ==
  [metros : {metros}, threads : {threads}, inputs : {inputs}, cancel : cancels]

MCScripts ==
  LET ends == [period |-> 2, count |-> 2]
      goesOn == [period |-> 3, count |-> Endless]
      sleeps == [kind |-> "sleep", every |-> 3]
      syncs(pulses) == [kind |-> "sync", every |-> pulses]
      names == {<<k, i>> : k \in {"metro", "thread"}, i \in 1..2}
  IN MCMusic(<<goesOn, ends>>, <<sleeps, syncs(1)>>, <<3, 3, 7>>,
             {<<>>} \cup {p \in names \X names : p[1] # p[2]})
     \cup MCMusic(<<>>, <<syncs(2), syncs(1), sleeps>>, <<5>>,
                  {<<>>, <<<<"thread", 2>>, <<"thread", 1>>>>})
     \cup MCMusic(<<[period |-> 0, count |-> Endless]>>, <<>>, <<>>, {<<>>})
     \cup MCMusic(<<>>, <<[kind |-> "sleep", every |-> 0]>>, <<>>, {<<>>})
==============================================================================
