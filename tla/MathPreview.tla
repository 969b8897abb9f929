---------------------------- MODULE MathPreview ----------------------------
(***************************************************************************)
(* math-preview.el in Emacs and math-preview.js in a process of its own:   *)
(* Emacs puts an overlay on an equation and sends it as a numbered job,    *)
(* the program answers in whatever order MathJax gets done, and a filter   *)
(* puts each answer's image on the overlay that has its number.  Answers   *)
(* arrive in pieces, and the process is stopped, dies and is replaced.     *)
(***************************************************************************)
EXTENDS Integers, Sequences

CONSTANTS
    Equations,     \* places in the buffers that hold an equation
    BufferOf,      \* equation |-> its buffer
    Outcomes,      \* equation |-> what may come of its text: "image", "errors",
                   \* "throws" (mjAPI.typeset) or "mismatch" (of the schema)
    MaxJobs,       \* bound: the overlays ever made
    MaxFaults      \* bound: starts that fail, stops, crashes, lines on stderr,
                   \* jobs that cannot be sent

\* What may be seen of the current buffer, which may be narrowed.
Views == UNION {SUBSET {e \in Equations : BufferOf[e] = BufferOf[one]} : one \in Equations}

ASSUME MathPreviewAssumption ==
    /\ MaxJobs \in Nat /\ MaxFaults \in Nat
    /\ Outcomes \in [Equations -> SUBSET {"image", "errors", "throws", "mismatch"}]
    /\ "error" \notin Equations

VARIABLES
    queue,         \* math-preview--queue, the newest job first
    overlays,      \* the overlays made so far, deleted ones included
    inputBuffer,   \* math-preview--input-buffer
    proc,          \* "none", "running", or "dying": dead, not yet deleted by Emacs
    stdin,         \* lines sent to the program
    typesetting,   \* what mjAPI.typeset has not called back for
    stdout,        \* what it and stderr wrote and Emacs has not read
    faults,        \* how much of that has happened
    cleared,       \* what was in view when the queue was last emptied
    late           \* a job was submitted while a dead process was still there, or
                   \* a process started while an answer of the one before was held

emacs == <<queue, overlays, inputBuffer>>
node  == <<stdin, typesetting, stdout>>
vars  == <<emacs, proc, node, faults, cleared, late>>

Overlay == [equation : Equations, alive : BOOLEAN,
            category : {"processing", "image"}, data : Equations \cup {"error"}]
Job     == [id : Nat, overlay : 1 .. MaxJobs]
Request == [id : Nat, data : Equations]

\* An answer is read in pieces: the text up to somewhere, the rest of it, and the
\* end of the line.  A line on stderr comes in one piece.
Answer == [id : Nat, data : Equations \cup {"error"}]
Piece  == [part : {"begin", "end", "newline", "noise"}, answer : Answer]
Noise  == [part |-> "noise", answer |-> [id |-> 0, data |-> "error"]]

Fault == faults < MaxFaults /\ faults' = faults + 1

-----------------------------------------------------------------------------
(* Jobs                                                                     *)

On(e) == {o \in DOMAIN overlays : overlays[o].alive /\ overlays[o].equation = e}

\* Mutant: overlays stay.
KeepProcessing(visible) == overlays

\* math-preview--overlays-remove-processing, in what is visible.
WithoutProcessing(visible) ==
    [o \in DOMAIN overlays |->
       IF overlays[o].category = "processing" /\ overlays[o].equation \in visible
       THEN [overlays[o] EXCEPT !.alive = FALSE] ELSE overlays[o]]

\* math-preview-start-process up to (start-process ...).
Prepare(visible) ==
    IF proc = "none"
    THEN [queue |-> <<>>, overlays |-> WithoutProcessing(visible), cleared |-> visible]
    ELSE [queue |-> queue, overlays |-> overlays, cleared |-> cleared]

\* Only a line that begins with a whole answer can be parsed; what follows the
\* answer on its line is ignored.
Parses(line) ==
    /\ Len(line) >= 2
    /\ line[1].part = "begin" /\ line[2].part = "end"
    /\ line[1].answer = line[2].answer

\* Answers to jobs that are forgotten may still come: nothing empties the input
\* buffer, nor keeps a job from a dead process.
Stale == proc = "dying" \/ (proc = "none" /\ Parses(inputBuffer))

\* The command, without a job.
StartProcess(visible) ==
    /\ proc = "none" /\ proc' = "running"
    /\ queue' = Prepare(visible).queue
    /\ overlays' = Prepare(visible).overlays
    /\ cleared' = visible
    /\ late' = (late \/ Stale)
    /\ UNCHANGED <<inputBuffer, node, faults>>

StartFails(visible) ==
    /\ Fault /\ proc = "none"
    /\ queue' = Prepare(visible).queue
    /\ overlays' = Prepare(visible).overlays
    /\ cleared' = visible
    /\ UNCHANGED <<inputBuffer, proc, node, late>>

\* Mutant: numbers count the jobs.
NextIdByLength(jobs) == Len(jobs) + 1

NextId(jobs) == 1 + (IF jobs = <<>> THEN 0 ELSE Head(jobs).id)

\* math-preview--submit, up to the preprocess functions.
Enqueue(e, visible) ==
    LET before == Prepare(visible)
    IN /\ On(e) = {} /\ Len(overlays) < MaxJobs
       /\ overlays' = Append(before.overlays,
                        [equation |-> e, alive |-> TRUE,
                         category |-> "processing", data |-> "error"])
       /\ queue' = <<[id |-> NextId(before.queue), overlay |-> Len(overlays')]>>
                     \o before.queue
       /\ cleared' = before.cleared
       /\ proc' = IF proc = "none" THEN "running" ELSE proc
       /\ late' = (late \/ Stale)

\* What is sent to a dead process is lost, with an error or without.
Submit(e, visible) ==
    /\ Enqueue(e, visible)
    /\ stdin' = IF proc = "dying" THEN stdin
                ELSE Append(stdin, [id |-> Head(queue').id, data |-> e])
    /\ UNCHANGED <<inputBuffer, typesetting, stdout, faults>>

\* A preprocess function or process-send-string signals an error.
SubmitFails(e, visible) ==
    /\ Fault /\ Enqueue(e, visible)
    /\ UNCHANGED <<inputBuffer, node>>

\* math-preview--clear-region, with one of the commands that call it.
ClearRegion(region) ==
    /\ \E e \in region : On(e) # {}
    /\ overlays' = [o \in DOMAIN overlays |->
                      IF overlays[o].equation \in region
                      THEN [overlays[o] EXCEPT !.alive = FALSE] ELSE overlays[o]]
    /\ UNCHANGED <<queue, inputBuffer, proc, node, faults, cleared, late>>

\* What the dead program leaves behind: its output may be cut off anywhere.
Dies ==
    /\ proc' = "dying"
    /\ stdin' = <<>> /\ typesetting' = {}
    /\ \E n \in 0 .. Len(stdout) : stdout' = SubSeq(stdout, 1, n)

\* math-preview-stop-process
StopProcess(visible) ==
    /\ Fault /\ proc # "none"
    /\ queue' = <<>>
    /\ overlays' = WithoutProcessing(visible)
    /\ cleared' = visible
    /\ Dies
    /\ UNCHANGED <<inputBuffer, late>>

-----------------------------------------------------------------------------
(* Answers                                                                  *)

\* Mutant: answers are taken to be in order.
OldestJob(id, jobs) == {i \in DOMAIN jobs : i = Len(jobs)}

JobOf(id, jobs) == {i \in DOMAIN jobs : jobs[i].id = id}

Receive(overlay, data) ==
    IF data = "error" THEN [overlay EXCEPT !.alive = FALSE]
    ELSE [overlay EXCEPT !.category = "image", !.data = data]

\* --remove
WithoutJobs(found, jobs) ==
    LET kept[n \in 0 .. Len(jobs)] ==
          IF n = 0 THEN <<>>
          ELSE IF n \in found THEN kept[n - 1] ELSE Append(kept[n - 1], jobs[n])
    IN kept[Len(jobs)]

\* math-preview--process-input
ProcessInput(reading, answer) ==
    LET found == JobOf(answer.id, reading.queue)
        jobs  == {reading.queue[i].overlay : i \in found}
    IN [reading EXCEPT
          !.queue = WithoutJobs(found, @),
          !.overlays = [o \in DOMAIN @ |->
                          IF o \in jobs THEN Receive(@[o], answer.data) ELSE @[o]]]

LineEnds == {"newline", "noise"}

\* The first line that cannot be parsed ends the filter.
ReadPiece(reading, piece) ==
    LET line == Append(reading.line, piece)
    IN IF piece.part \notin LineEnds THEN [reading EXCEPT !.line = line]
       ELSE IF reading.failed \/ ~Parses(line)
            THEN [reading EXCEPT !.line = <<>>, !.failed = TRUE]
            ELSE [ProcessInput(reading, line[1].answer) EXCEPT !.line = <<>>]

Reading == [line |-> <<>>, queue |-> queue, overlays |-> overlays, failed |-> FALSE]

ReadAll(pieces) ==
    LET reading[n \in 0 .. Len(pieces)] ==
          IF n = 0 THEN Reading ELSE ReadPiece(reading[n - 1], pieces[n])
    IN reading[Len(pieces)]

Taken(n) == stdout' = SubSeq(stdout, n + 1, Len(stdout))

\* Mutant: half a line is not kept.
FilterForgetting(n) ==
    LET end == ReadAll(SubSeq(stdout, 1, n))
    IN /\ queue' = end.queue /\ overlays' = end.overlays /\ inputBuffer' = <<>>
       /\ Taken(n)
       /\ UNCHANGED <<proc, stdin, typesetting, faults, cleared, late>>

\* math-preview--process-filter: some of the output, at the end of what was read
\* before and is not a line yet.
Filter(n) ==
    /\ Taken(n)
    /\ UNCHANGED <<proc, stdin, typesetting, faults, cleared, late>>
    /\ \E end \in {ReadAll(inputBuffer \o SubSeq(stdout, 1, n))} :
         queue' = end.queue /\ overlays' = end.overlays /\ inputBuffer' = end.line

-----------------------------------------------------------------------------
(* math-preview.js                                                          *)

\* console.log(JSON.stringify(output))
Write(id, data) ==
    LET answer == [id |-> id, data |-> data]
    IN stdout' = stdout \o << [part |-> "begin", answer |-> answer],
                              [part |-> "end", answer |-> answer],
                              [part |-> "newline", answer |-> answer] >>

\* rl.on('line', ...): what does not validate is answered at once as job 0, and
\* what mjAPI.typeset throws at once as the job.
OnLine ==
    /\ proc = "running" /\ stdin # <<>>
    /\ stdin' = Tail(stdin)
    /\ LET input == Head(stdin)
       IN \/ "mismatch" \in Outcomes[input.data] /\ Write(0, "error") /\ UNCHANGED typesetting
          \/ "throws" \in Outcomes[input.data] /\ Write(input.id, "error") /\ UNCHANGED typesetting
          \/ /\ Outcomes[input.data] \cap {"image", "errors"} # {}
             /\ typesetting' = typesetting \cup {input}
             /\ UNCHANGED stdout
    /\ UNCHANGED <<emacs, proc, faults, cleared, late>>

\* The callback of mjAPI.typeset, with an image or with errors.
Typeset(input) ==
    /\ input \in typesetting
    /\ typesetting' = typesetting \ {input}
    /\ \/ "image" \in Outcomes[input.data] /\ Write(input.id, input.data)
       \/ "errors" \in Outcomes[input.data] /\ Write(input.id, "error")
    /\ UNCHANGED <<emacs, proc, stdin, faults, cleared, late>>

\* A warning on stderr, which start-process joins to stdout.
Warn ==
    /\ Fault /\ proc = "running"
    /\ stdout' = Append(stdout, Noise)
    /\ UNCHANGED <<emacs, proc, stdin, typesetting, cleared, late>>

Crash ==
    /\ Fault /\ proc = "running"
    /\ Dies
    /\ UNCHANGED <<emacs, cleared, late>>

\* Emacs reads what a dead process left and deletes it.
Reap ==
    /\ proc = "dying" /\ stdout = <<>>
    /\ proc' = "none"
    /\ UNCHANGED <<emacs, node, faults, cleared, late>>

-----------------------------------------------------------------------------
Init ==
    /\ queue = <<>> /\ overlays = <<>> /\ inputBuffer = <<>>
    /\ proc = "none"
    /\ stdin = <<>> /\ typesetting = {} /\ stdout = <<>>
    /\ faults = 0 /\ cleared = {} /\ late = FALSE

Read == \E n \in 1 .. Len(stdout) : Filter(n)
Work == OnLine \/ \E input \in typesetting : Typeset(input)

InBuffer(visible) ==
    \/ \E e \in visible : Submit(e, visible) \/ SubmitFails(e, visible)
    \/ StartProcess(visible)
    \/ StartFails(visible)
    \/ StopProcess(visible)
    \/ ClearRegion(visible)

Next ==
    \/ \E visible \in Views : InBuffer(visible)
    \/ Read
    \/ Work
    \/ Warn
    \/ Crash
    \/ Reap

Spec == Init /\ [][Next]_vars

\* The program gets on with its work, and Emacs reads what it writes: as long as
\* nothing fails, Filter alone takes output.
FairSpec ==
    /\ Spec
    /\ WF_vars(Work)
    /\ WF_stdout(\E n \in 1 .. Len(stdout) : Taken(n))

-----------------------------------------------------------------------------
(* Properties                                                               *)

\* Jobs, overlays and what is between the processes have their types, and
\* nothing is left of a process that Emacs has deleted.
TypeOK ==
    /\ queue \in Seq(Job)
    /\ overlays \in Seq(Overlay) /\ Len(overlays) <= MaxJobs
    /\ inputBuffer \in Seq(Piece)
    /\ proc \in {"none", "running", "dying"}
    /\ stdin \in Seq(Request) /\ typesetting \subseteq Request /\ stdout \in Seq(Piece)
    /\ proc = "none" => stdin = <<>> /\ typesetting = {} /\ stdout = <<>>
    /\ faults \in 0 .. MaxFaults
    /\ cleared \subseteq Equations
    /\ late \in BOOLEAN

\* Numbers are used again once the newest job is done, but never while a job has
\* them, and never the 0 of an answer to no job: the number tells the job.
IdsDescend ==
    \A i \in DOMAIN queue :
      /\ queue[i].id > 0
      /\ \A j \in DOMAIN queue : i < j => queue[i].id > queue[j].id

\* An overlay gets the image of its own equation, in whatever order and pieces
\* the answers arrive, wherever they are cut off and however often the process is
\* replaced, unless a job was submitted while get-process still found a dead one
\* or a process was started while a whole answer of the one before, read without
\* the end of its line, was in the input buffer.
RightImage ==
    ~late => \A o \in DOMAIN overlays :
               overlays[o].category = "image" => overlays[o].data = overlays[o].equation

\* Every job is for an overlay that waits or was deleted, and an overlay that
\* waits for no job any more was out of view when the queue was emptied: in
\* another buffer, or outside of a narrowing.
Tracked ==
    /\ \A i \in DOMAIN queue : overlays[queue[i].overlay].category = "processing"
    /\ \A o \in DOMAIN overlays :
         (/\ overlays[o].alive /\ overlays[o].category = "processing"
          /\ overlays[o].equation \in cleared)
           => \E i \in DOMAIN queue : queue[i].overlay = o

\* A job that the program can parse is answered, as long as nothing fails: again
\* and again there is none on the queue, as jobs are not submitted for ever.
JobsFinish ==
    []<>(\/ faults > 0
         \/ \A i \in DOMAIN queue :
              "mismatch" \in Outcomes[overlays[queue[i].overlay].equation])
=============================================================================
