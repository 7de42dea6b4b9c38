--------------------------- MODULE MCCpuKernelRun ---------------------------
EXTENDS CpuKernelRun

Launch(stream, seq, kernel) ==
  [stream |-> stream, seq |-> seq, has_sess_info |-> TRUE, sess_flag |-> FALSE,
   session |-> 1, kernel |-> kernel, blockNum |-> 1, blockId |-> 0, async |-> FALSE]
InSession(l) == [l EXCEPT !.sess_flag = TRUE]
Async(l) == [l EXCEPT !.async = TRUE]
Direct(l) == [l EXCEPT !.has_sess_info = FALSE]
Block(l, i) == [l EXCEPT !.blockNum = 3, !.blockId = i]

\* Outside sessions: stream 1 runs kernel 1 twice and again after two others,
\* one of them asynchronous, have pushed it out of a cache of two; stream 2
\* runs a kernel of the same id in session 1, and one without session info.
StreamLaunches ==
  1 :> Launch(1, 1, 1) @@ 2 :> Launch(1, 2, 1) @@ 3 :> Async(Launch(1, 3, 2)) @@
  4 :> Launch(1, 4, 3) @@ 5 :> Launch(1, 5, 1) @@
  6 :> InSession(Launch(2, 1, 1)) @@ 7 :> Async(Direct(Launch(2, 2, 3)))

\* In session 1: stream 1 runs an asynchronous kernel twice, stream 2 the
\* three blocks of another.
SessionLaunches ==
  1 :> InSession(Async(Launch(1, 1, 1))) @@ 2 :> InSession(Async(Launch(1, 2, 1))) @@
  3 :> Block(InSession(Launch(2, 1, 2)), 0) @@ 4 :> Block(InSession(Launch(2, 1, 2)), 1) @@
  5 :> Block(InSession(Launch(2, 1, 2)), 2)

\* The value of Info, each evaluated once by TLC.
StreamInfo == StreamLaunches
SessionInfo == SessionLaunches
=============================================================================
