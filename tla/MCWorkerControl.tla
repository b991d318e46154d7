-------------------------- MODULE MCWorkerControl --------------------------
(***************************************************************************)
(* WorkerControl for TLC.  The limit of one session is reached.  The run   *)
(* about sessions has three concurrent requests, two sessions and no       *)
(* recording: every start of one fails.  The run about recordings has two  *)
(* requests, one session and two recordings.                               *)
(***************************************************************************)
EXTENDS WorkerControl, TLC

CONSTANTS h1, h2, h3, e1, e2, r1, r2

TwoHandlers == {h1, h2}
ThreeHandlers == {h1, h2, h3}
OneSession == {e1}
TwoSessions == {e1, e2}
NoRecordings == {}
TwoRecordings == {r1, r2}
Symmetric == Permutations(TwoHandlers) \cup Permutations(TwoRecordings)

\* The run about recordings tells two states apart by what can still be read.  What a
\* step or a property no longer reads, before it is written again, is left out: the owner
\* of a deleted recording, how a session ended whose id is free, and of the history what
\* concerns a recording that is neither in the table nor on its way there, or a session
\* that is not up.  Of a recording whose child has been taken out, OwnVideo reads only
\* whether it is in opened \ mixed, and nothing reads cut.
Known == recordings \cup {rec[h] : h \in {i \in Handlers : at[i] = "register"}}
Running == {screen[e] : e \in Sessions}
Live ==
    <<sessions, pending, recordings, [r \in recordings |-> owner[r]], recordingID,
      [e \in Sessions |-> IF FreeSession(e) THEN "none" ELSE bridge[e]],
      watcher, screen, remote, video, handlerVars, stopVars,
      opened \cap Running, Known \cap (opened \ mixed),
      mixed \cap Running \cap Known, cut \cap Running \cap Known,
      late \cap (Known \cup Up)>>
=============================================================================
