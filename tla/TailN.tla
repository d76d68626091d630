-------------------------------- MODULE TailN --------------------------------
(***************************************************************************)
(* ContainerCommand.ExecTailN (container/command.go lines 377-421), used  *)
(* by GetContainerLogs (240-248): start a command with its stdout and      *)
(* stderr on two pipes, scan io.MultiReader(stdout, stderr) line by line   *)
(* into a ring of n slots, then Wait, and return the ring's lines from the *)
(* oldest on.                                                              *)
(*                                                                         *)
(* The child process writes the lines of its output, line i to the stream *)
(* script[i]; a pipe holds at most PipeCap lines and a write to a full     *)
(* pipe blocks. The child exits, closing both pipes, after its last line.  *)
(***************************************************************************)
EXTENDS Naturals, Sequences, SequencesExt

CONSTANTS
    N,            \* n, the ring size (GetContainerLogs passes 1000)
    MaxLines,     \* lines the child writes
    PipeCap,      \* lines an OS pipe buffers before the writer blocks
    MaxScanErrs,  \* scanner errors (a line longer than the scan buffer)
    Nil, Err

Streams == {"out", "err"}
Slots == 0 .. N - 1

VARIABLES
    script,   \* the stream each output line goes to
    written,  \* lines the child has written so far
    pipe,     \* pipe[s]: lines written to stream s and not yet read
    exited,   \* the child has exited and closed its pipes
    exitOk,   \* its exit status is 0
    started,  \* cmd.Start succeeded
    pc,       \* where ExecTailN is: start, out, err, wait, returned
    ring,     \* ringBuffer values, by slot
    pos,      \* the slot ringBuffer points at
    faults,   \* scanner errors so far
    reaped,   \* cmd.Wait was called
    result    \* the returned lines, or Err
vars == <<script, written, pipe, exited, exitOk, started, pc, ring, pos, faults, reaped, result>>

TypeOK ==
    /\ script \in BoundedSeq(Streams, MaxLines)
    /\ written \in 0 .. Len(script)
    /\ pipe \in [Streams -> Seq(1 .. MaxLines)]
    /\ pc \in {"start", "out", "err", "wait", "returned"}
    /\ ring \in [Slots -> (1 .. MaxLines) \cup {Nil}] /\ pos \in Slots
    /\ result \in {Nil, Err} \cup Seq(1 .. MaxLines)

-----------------------------------------------------------------------------
(* The child process                                                       *)

\* Write the next line to its stream; blocks while that pipe is full.
ChildWrite ==
    LET s == script[written + 1] IN
    /\ started /\ written < Len(script) /\ Len(pipe[s]) < PipeCap
    /\ pipe' = [pipe EXCEPT ![s] = Append(@, written + 1)]
    /\ written' = written + 1
    /\ UNCHANGED <<script, exited, exitOk, started, pc, ring, pos, faults, reaped, result>>

ChildExit ==
    /\ started /\ written = Len(script) /\ ~exited
    /\ exited' = TRUE /\ exitOk' \in BOOLEAN
    /\ UNCHANGED <<script, written, pipe, started, pc, ring, pos, faults, reaped, result>>

-----------------------------------------------------------------------------
(* ExecTailN                                                               *)

\* Mutant: cmd.Wait is called before the output is read (the misuse the
\* os/exec documentation of StdoutPipe warns about).
StartWaitsFirst ==
    /\ pc = "start"
    /\ \/ pc' = "wait" /\ started' = TRUE /\ UNCHANGED result
       \/ pc' = "returned" /\ result' = Err /\ UNCHANGED started
    /\ UNCHANGED <<script, written, pipe, exited, exitOk, ring, pos, faults, reaped>>

\* Lines 378-391: the pipes are created and the command started; a failure
\* returns an error before anything runs.
Start ==
    /\ pc = "start"
    /\ \/ pc' = "out" /\ started' = TRUE /\ UNCHANGED result
       \/ pc' = "returned" /\ result' = Err /\ UNCHANGED started
    /\ UNCHANGED <<script, written, pipe, exited, exitOk, ring, pos, faults, reaped>>

\* ring.Value = line; ring = ring.Next()
Push(line) ==
    /\ ring' = [ring EXCEPT ![pos] = line]
    /\ pos' = (pos + 1) % N

\* Lines 393-403: the MultiReader reads stdout to its end, then stderr;
\* each line scanned goes into the ring. A read blocks on an empty pipe
\* whose writer has not exited.
Scan ==
    LET s == IF pc = "out" THEN "out" ELSE "err" IN
    /\ pc \in {"out", "err"}
    /\ \/ /\ pipe[s] # <<>>
          /\ Push(Head(pipe[s]))
          /\ pipe' = [pipe EXCEPT ![s] = Tail(@)]
          /\ UNCHANGED pc
       \/ /\ pipe[s] = <<>> /\ exited
          /\ pc' = IF s = "out" THEN "err" ELSE "wait"
          /\ UNCHANGED <<pipe, ring, pos>>
    /\ UNCHANGED <<script, written, exited, exitOk, started, faults, reaped, result>>

\* Lines 405-407: scanner.Err() (a line longer than the buffer) returns the
\* error at once, without cmd.Wait.
ScanFails ==
    /\ pc \in {"out", "err"} /\ faults < MaxScanErrs
    /\ faults' = faults + 1
    /\ pc' = "returned" /\ result' = Err
    /\ UNCHANGED <<script, written, pipe, exited, exitOk, started, ring, pos, reaped>>

\* Mutant: the ring is read from slot 0 instead of from the oldest line.
RingDoFromZero(r, p) == SelectSeq([i \in 1 .. N |-> r[i - 1]], LAMBDA x : x # Nil)

\* Lines 413-418: ring.Do from the current slot, which after the last Next
\* holds the oldest line; empty slots are skipped.
RingDo(r, p) == SelectSeq([i \in 1 .. N |-> r[(p + i - 1) % N]], LAMBDA x : x # Nil)

\* Lines 409-420: cmd.Wait returns when the child has exited; a non-zero
\* exit status is an error.
Wait ==
    /\ pc = "wait" /\ exited
    /\ reaped' = TRUE /\ pc' = "returned"
    /\ result' = IF exitOk THEN RingDo(ring, pos) ELSE Err
    /\ UNCHANGED <<script, written, pipe, exited, exitOk, started, ring, pos, faults>>

Init ==
    /\ script \in BoundedSeq(Streams, MaxLines)
    /\ written = 0 /\ pipe = [s \in Streams |-> <<>>]
    /\ exited = FALSE /\ exitOk = FALSE /\ started = FALSE
    /\ pc = "start" /\ ring = [i \in Slots |-> Nil] /\ pos = 0
    /\ faults = 0 /\ reaped = FALSE /\ result = Nil

Child == ChildWrite \/ ChildExit
Reader == Start \/ Scan \/ ScanFails \/ Wait
Next == Child \/ Reader

\* The OS runs the child, and the goroutine in ExecTailN, whenever they can
\* make progress.
Spec == Init /\ [][Next]_vars /\ WF_vars(Child) /\ WF_vars(Start \/ Scan \/ Wait)

-----------------------------------------------------------------------------
(* Properties                                                              *)

\* The numbers of the lines written to stream s, in order.
LinesOf(s) == SelectSeq([i \in 1 .. Len(script) |-> i], LAMBDA i : script[i] = s)

LastN(s) == IF Len(s) <= N THEN s ELSE SubSeq(s, Len(s) - N + 1, Len(s))

\* The ring keeps what it should (lines 396-418): a successful ExecTailN
\* returns the last n lines the scanner read, oldest first, also when the
\* ring has wrapped around. The scanner reads all of stdout and then all of
\* stderr, so this is the tail of that concatenation; whether that is the
\* tail of the output the doc comment promises is TailInWriteOrder.
TailIsLastN ==
    pc = "returned" /\ result \notin {Nil, Err} => result = LastN(LinesOf("out") \o LinesOf("err"))

\* The doc comment of line 376: the result is the last n lines of the
\* command's output, in the order the command wrote them.
TailInWriteOrder ==
    pc = "returned" /\ result \notin {Nil, Err} => result = LastN([i \in 1 .. Len(script) |-> i])

\* A command that was started is waited for on every return, so the child
\* process is reaped (exec.Cmd: Wait releases its resources).
ChildReaped == pc = "returned" /\ started => reaped

\* GetContainerLogs returns: ExecTailN ends however the command spreads its
\* output over stdout and stderr.
Terminates == <>(pc = "returned")

\* Where GetContainerLogs does return: when the command's stderr output fits
\* in the stderr pipe's buffer, ExecTailN returns, whatever the command
\* writes to stdout and in whatever order (stdout is drained while it runs).
StderrFits == Len(LinesOf("err")) <= PipeCap
TerminatesWhenStderrFits == StderrFits => <>(pc = "returned")
=============================================================================
