------------------------------ MODULE MCThreads -----------------------------
(***************************************************************************)
(* The reader thread over the bytes of the stream, and a session with its  *)
(* tester present threads, side by side.  A behaviour is about one of      *)
(* them, its subject, and leaves the other as it is at the beginning.      *)
(***************************************************************************)
EXTENDS EthernetStream, UdsSession

VARIABLE subject

Subjects == {"stream", "session"}

ThreadsInit == subject \in Subjects /\ StreamInit /\ SessionInit

Others(s) ==
  /\ subject = s /\ UNCHANGED subject
  /\ s # "stream"  => UNCHANGED streamVars
  /\ s # "session" => UNCHANGED sessionVars

ThreadsNext ==
  \/ Others("stream")  /\ StreamNext
  \/ Others("session") /\ SessionNext

\* The other one has nothing to do, so that the fairness of both is that of the subject.
ThreadsSpec ==
  /\ ThreadsInit /\ [][ThreadsNext]_<<subject, streamVars, sessionVars>>
  /\ StreamFairness /\ SessionFairness
=============================================================================
