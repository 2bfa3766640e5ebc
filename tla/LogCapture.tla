----------------------------- MODULE LogCapture -----------------------------
(***************************************************************************)
(* How the output of one application reaches its log buffer (App::poll and *)
(* App::drain_pipe in runtime.rs).  The child, and descendants that        *)
(* outlive it, write into two pipes; the daemon splices a pipe into the    *)
(* ring when epoll reports it, and drains both when the child has exited,  *)
(* before they are closed.  A byte is <<fd, n>>: the n-th one written to   *)
(* fd, over all runs of the application.                                   *)
(***************************************************************************)
EXTENDS RingBuffer, SequencesExt

CONSTANTS
    Streams,        \* {"stdout", "stderr"}
    PipeSize,       \* capacity of a pipe
    MaxXfer,        \* SPLICE_MAX_XFER_SIZE
    MaxBytes,       \* bound on the bytes written to each pipe
    MaxRuns,        \* bound on the runs of the application
    SpliceFails     \* splice(2) may fail

ASSUME CaptureAssumption ==
    /\ Streams = {"stdout", "stderr"}
    /\ PipeSize \in Nat \ {0} /\ MaxXfer \in Nat \ {0}
    /\ MaxBytes \in Nat /\ MaxRuns \in Nat /\ SpliceFails \in BOOLEAN

VARIABLES
    child,      \* "live", "exited" (not reaped) or "none"
    pipe,       \* the bytes in each pipe
    edge,       \* the pipes with an edge epoll has not reported
    written,    \* how many bytes were written to each pipe, ever
    atStart,    \* written when the last child was started, and
    atExit,     \* when it exited
    runs,
    at,         \* what the daemon does: Polling, or a stage of App::poll
    failed,     \* the pipes whose last loop of splices ended with an error
    bytes,      \* runtime_stats.stdout_bytes and stderr_bytes
    log,        \* history: every byte spliced into the ring
    echoed      \* history: every byte printed by echo_logs

outVars == <<written, atStart, atExit, runs>>
vars ==
    <<ringVars, child, pipe, edge, outVars, at, failed, bytes, log, echoed>>

None == [fd \in Streams |-> 0]
Closed == [fd \in Streams |-> <<>>]
Polling == <<"poll", "none">>

Init ==
    /\ RingInit
    /\ child = "live" /\ runs = 1
    /\ pipe = Closed /\ edge = {}
    /\ written = None /\ atStart = None /\ atExit = None
    /\ at = Polling /\ failed = {} /\ bytes = None /\ log = <<>> /\ echoed = <<>>

-----------------------------------------------------------------------------
(* The environment *)

(* The child or, once it has exited, a descendant that holds its pipes. *)
Write(fd) ==
    /\ child # "none"
    /\ written[fd] < MaxBytes /\ Len(pipe[fd]) < PipeSize
    /\ written' = [written EXCEPT ![fd] = @ + 1]
    /\ pipe' = [pipe EXCEPT ![fd] = Append(@, <<fd, written[fd] + 1>>)]
    /\ edge' = edge \cup {fd}
    /\ UNCHANGED <<ringVars, child, atStart, atExit, runs, at, failed, bytes, log,
                   echoed>>

Exit ==
    /\ child = "live"
    /\ child' = "exited" /\ atExit' = written
    /\ UNCHANGED <<ringVars, pipe, edge, written, atStart, runs, at, failed, bytes,
                   log, echoed>>

-----------------------------------------------------------------------------
(* App::poll *)

PipeEvent(fd) ==
    /\ at = Polling /\ child # "none" /\ fd \in edge
    /\ at' = <<"splice", fd>> /\ edge' = edge \ {fd}
    /\ UNCHANGED <<ringVars, child, pipe, outVars, failed, bytes, log,
                   echoed>>

(* Mutant: only stderr is drained when the child has exited. *)
PidEvent_SkipsStdout ==
    /\ at = Polling /\ child = "exited"
    /\ at' = <<"drain", "stderr">>
    /\ UNCHANGED <<ringVars, child, pipe, edge, outVars, failed, bytes, log,
                   echoed>>

PidEvent ==
    /\ at = Polling /\ child = "exited"
    /\ at' = <<"drain", "stdout">>
    /\ UNCHANGED <<ringVars, child, pipe, edge, outVars, failed, bytes, log,
                   echoed>>

(* Mutant: every byte is counted as stdout. *)
Splice_CountsStdout(fd, n) ==
    LET bs == SubSeq(pipe[fd], 1, n) IN
    /\ n \in 1..Clamp(write_pos, MaxXfer) /\ n <= Len(pipe[fd])
    /\ RingWrite(bs)
    /\ pipe' = [pipe EXCEPT ![fd] = SubSeq(@, n + 1, Len(@))]
    /\ bytes' = [bytes EXCEPT !["stdout"] = @ + n]
    /\ log' = log \o bs
    /\ UNCHANGED <<child, edge, outVars, at, failed>>

(* Mutant: the bytes stay in the pipe, as tee(2) would leave them. *)
Splice_Tee(fd, n) ==
    LET bs == SubSeq(pipe[fd], 1, n) IN
    /\ n \in 1..Clamp(write_pos, MaxXfer) /\ n <= Len(pipe[fd])
    /\ RingWrite(bs)
    /\ bytes' = [bytes EXCEPT ![fd] = @ + n]
    /\ log' = log \o bs
    /\ UNCHANGED <<child, pipe, edge, outVars, at, failed>>

(* One call of splice: n bytes, any number the pipe, the transfer size and
   the end of the ring allow. *)
Splice(fd, n) ==
    LET bs == SubSeq(pipe[fd], 1, n) IN
    /\ n \in 1..Clamp(write_pos, MaxXfer) /\ n <= Len(pipe[fd])
    /\ RingWrite(bs)
    /\ pipe' = [pipe EXCEPT ![fd] = SubSeq(@, n + 1, Len(@))]
    /\ bytes' = [bytes EXCEPT ![fd] = @ + n]
    /\ log' = log \o bs
    /\ UNCHANGED <<child, edge, outVars, at, failed>>

(* The loop of a readable pipe: until EAGAIN, end of file or an error.  What
   was spliced is echoed from the ring. *)
SpliceSome(fd) ==
    /\ at = <<"splice", fd>>
    /\ \E n \in 1..MaxXfer :
          Splice(fd, n) /\ echoed' = echoed \o View(mem', write_pos, n)

(* A loop of splices on fd ends: the pipe is empty, or a call failed. *)
LoopEnds(fd) ==
    \/ pipe[fd] = <<>> /\ failed' = failed \ {fd}
    \/ SpliceFails /\ pipe[fd] # <<>> /\ failed' = failed \cup {fd}

(* Mutant: one splice per event. *)
SpliceDone_Once(fd) ==
    /\ at = <<"splice", fd>>
    /\ at' = Polling
    /\ UNCHANGED <<ringVars, child, pipe, edge, outVars, failed, bytes, log,
                   echoed>>

SpliceDone(fd) ==
    /\ at = <<"splice", fd>> /\ LoopEnds(fd)
    /\ at' = Polling
    /\ UNCHANGED <<ringVars, child, pipe, edge, outVars, bytes, log, echoed>>

(* drain_pipe: the same without the echo. *)
DrainSome(fd) ==
    /\ at = <<"drain", fd>>
    /\ \E n \in 1..MaxXfer : Splice(fd, n)
    /\ UNCHANGED echoed

DrainStdoutDone ==
    /\ at = <<"drain", "stdout">> /\ LoopEnds("stdout")
    /\ at' = <<"drain", "stderr">>
    /\ UNCHANGED <<ringVars, child, pipe, edge, outVars, bytes, log, echoed>>

(* The pipes are closed by AppRuntime::stop; descendants are killed, and what
   they still wrote is lost. *)
DrainStderrDone ==
    /\ at = <<"drain", "stderr">> /\ LoopEnds("stderr")
    /\ at' = Polling /\ child' = "none"
    /\ pipe' = Closed /\ edge' = {}
    /\ UNCHANGED <<ringVars, outVars, bytes, log, echoed>>

(* The application is started again, with new pipes. *)
Restart ==
    /\ at = Polling /\ child = "none" /\ runs < MaxRuns
    /\ child' = "live" /\ runs' = runs + 1
    /\ atStart' = written /\ failed' = {}
    /\ UNCHANGED <<ringVars, pipe, edge, written, atExit, at, bytes, log,
                   echoed>>

Daemon ==
    \/ \E fd \in Streams :
          PipeEvent(fd) \/ SpliceSome(fd) \/ SpliceDone(fd) \/ DrainSome(fd)
    \/ PidEvent \/ DrainStdoutDone \/ DrainStderrDone

Next ==
    \/ Daemon \/ Exit \/ Restart
    \/ \E fd \in Streams : Write(fd)

Spec == Init /\ [][Next]_vars

FairSpec == Spec /\ WF_vars(Daemon)

-----------------------------------------------------------------------------
(* The ring always holds the last Capacity bytes that were captured, each at
   its own place, however the splices were cut at the end of the memory, and
   when write_pos has overflown (log_buffer.rs) those since it did. *)
RingVerbatim ==
    /\ write_pos = Len(log) % PosLimit
    /\ \A i \in StartPos..(write_pos - 1) :
          mem[i % Capacity] = log[Len(log) - write_pos + i + 1]

(* The counters that `lway info` shows add up to what is in the log. *)
BytesAccounted ==
    \A fd \in Streams : bytes[fd] = Cardinality({i \in DOMAIN log : log[i][1] = fd})

(* Each stream is captured in the order it was written. *)
StreamsInOrder ==
    \A i, j \in DOMAIN log :
       i < j /\ log[i][1] = log[j][1] => log[i][2] < log[j][2]

(* When an application has been reaped, all the output its child wrote before
   it exited is in the log, though the events of the pipes may come later; an
   error of splice loses output only if it ends the final drain. *)
NoOutputLost ==
    child = "none" =>
       \A fd \in Streams \ failed :
          \A n \in (atStart[fd] + 1)..atExit[fd] : Contains(log, <<fd, n>>)

(* Edge-triggered epoll: when the daemon waits, a pipe that is not empty has an
   edge to report, unless its last splice failed. *)
NoStrandedOutput ==
    at = Polling /\ child # "none" =>
       \A fd \in Streams \ failed : pipe[fd] # <<>> => fd \in edge

(* Output is captured, or the application is reaped, or splice fails. *)
OutputCaptured ==
    \A fd \in Streams : pipe[fd] # <<>> ~> pipe[fd] = <<>> \/ fd \in failed

(* Up to the final drain, what echo_logs prints is what the log has of this run,
   each stream in its order: the bytes echoed from the ring are those just
   spliced in, before others overwrite them, wherever the splices are cut. *)
EchoUntilDrain ==
    /\ Range(echoed) \subseteq Range(log)
    /\ \A i, j \in DOMAIN echoed :
          i < j /\ echoed[i][1] = echoed[j][1] => echoed[i][2] < echoed[j][2]
    /\ child # "none" /\ at[1] # "drain" =>
          \A b \in Range(log) : b[2] > atStart[b[1]] => b \in Range(echoed)

(* "Every byte spliced into log_buffer is also immediately printed" (App::echo_logs
   in runtime.rs): when the daemon waits again, all that is in the log was
   echoed.  What drain_pipe captures is not. *)
EchoesEverything == at = Polling => Range(log) \subseteq Range(echoed)
=============================================================================
