---------------------------- MODULE CameraSession ----------------------------
(***************************************************************************)
(* The browser camera playground (docs/site/camera): CameraSession, the    *)
(* page of app.mjs that it drives, captureBitmap and the tracking worker.  *)
(* All but the worker run on one event loop, so a task, with the           *)
(* continuations it releases, is one step.  Nothing native can be          *)
(* cancelled: camera permission, play(), the photo, a bitmap and messages  *)
(* of a terminated worker may all arrive after their run is over.          *)
(*                                                                         *)
(* A run is what one call of start() creates.  Time is left out: a timer   *)
(* that is armed may fire.                                                 *)
(***************************************************************************)
EXTENDS Integers, FiniteSets

CONSTANTS MaxRuns,     \* bound: calls of start
          MaxCaptures, \* bound: bitmaps captured, over all runs
          Modes,       \* what visitors start: "camera", "sample", "photo"
          Dims,        \* intrinsic dimensions of the video
          Sizes,       \* processed frame sizes
          FrameSize,   \* cameraFrameSize: a size, or Unsupported
          SampleSize,  \* the size of procedural and photo samples
          Unsupported

Runs == 1..MaxRuns

ASSUME CameraAssumption ==
    /\ MaxRuns \in Nat /\ MaxCaptures \in Nat
    /\ Modes \subseteq {"camera", "sample", "photo"}
    /\ Unsupported \notin Sizes /\ SampleSize \in Sizes
    /\ FrameSize \in [Dims -> Sizes \cup {Unsupported}]

VARIABLES runs,      \* what each run owns
          session,   \* CameraSession: the current run and its frame in flight
          page,      \* app.mjs: what is shown and whether the pump is scheduled
          dims,      \* intrinsic dimensions of the video
          captures,  \* native bitmap creations under way
          captured,  \* how many there were
          frames,    \* frames transferred to workers
          mail,      \* messages of workers
          open       \* history: the bitmaps that exist and are not closed

native == <<dims, captures, captured, frames, mail, open>>
vars == <<runs, session, page, native>>

NoRun == [mode |-> "none", start |-> "none", presenter |-> "none", ready |-> FALSE,
          worker |-> "none", camera |-> "none"]

NoSession(state) == [run |-> 0, started |-> FALSE, in_flight |-> 0, frame_id |-> 0, ui |-> state]

Current == session.run

Init ==
    /\ runs = [r \in Runs |-> NoRun]
    /\ session = NoSession("idle")
    /\ page = [mode |-> "none", source |-> 0, photo |-> 0, capturing |-> 0, scheduled |-> 0,
               size |-> SampleSize]
    /\ dims \in Dims
    /\ captures = {}
    /\ captured = 0
    /\ frames = {}
    /\ mail = {}
    /\ open = {}

-----------------------------------------------------------------------------
(* stop and fail *)

\* Bug: the callback that is scheduled is not cancelled.
OffPageKeepsPump ==
    [page EXCEPT !.mode = "none", !.source = 0, !.photo = 0, !.capturing = 0]

\* onStop; frameHandle is the callback scheduled last.
OffPage ==
    [page EXCEPT !.mode = "none", !.source = 0, !.photo = 0, !.capturing = 0,
                 !.scheduled = IF @ > 0 THEN @ - 1 ELSE 0]

\* The tracks are stopped and the worker is terminated, and with it the frames
\* it has not handled are gone.
Released(owned) ==
    [r \in Runs |->
        IF r # Current THEN owned[r]
        ELSE [owned[r] EXCEPT !.worker = IF @ = "none" THEN @ ELSE "terminated",
                              !.camera = IF @ \in {"live", "ended"} THEN "stopped" ELSE @]]

\* The abort signal rejects the wait for a bitmap; its creation goes on.
Aborted(waiting) ==
    {IF c.run = Current THEN [c EXCEPT !.late = TRUE] ELSE c : c \in waiting}

Gone(f) == f.run = Current

\* stop, while the runs own `owned` and wait for `waiting`; `after` is what
\* session.run and the state shown become.
StopInto(after, owned, waiting) ==
    /\ runs' = Released(owned)
    /\ session' = after
    /\ page' = OffPage
    /\ captures' = Aborted(waiting)
    /\ frames' = {f \in frames : ~Gone(f)}
    /\ open' = open \ {f.no : f \in {g \in frames : Gone(g)}}
    /\ UNCHANGED <<dims, captured>>

\* fail: stop the current run, then show the error.
Fail == StopInto(NoSession("error"), runs, captures) /\ UNCHANGED mail

Stop == StopInto(NoSession("idle"), runs, captures) /\ UNCHANGED mail

-----------------------------------------------------------------------------
(* start *)

Fresh(r) == runs[r] = NoRun /\ \A q \in Runs : q < r => runs[q] # NoRun

\* Stop whatever runs, create the worker and send it init; the camera is asked
\* for in a microtask.
Start(r, mode) ==
    /\ Fresh(r)
    /\ StopInto([NoSession("loading") EXCEPT !.run = r],
                [runs EXCEPT ![r] = [NoRun EXCEPT
                    !.mode = mode, !.start = "preparing", !.worker = "loading",
                    !.camera = IF mode = "camera" THEN "unasked" ELSE "none"]],
                captures)
    /\ UNCHANGED mail

\* The worker is not created, or its init is not sent: nothing was asked for.
StartThrows(r, mode) ==
    /\ Fresh(r)
    /\ StopInto(NoSession("error"),
                [runs EXCEPT ![r] = [NoRun EXCEPT !.mode = mode, !.start = "preparing"]],
                captures)
    /\ UNCHANGED mail

Ask(r) ==
    /\ runs[r].camera = "unasked"
    /\ runs' = [runs EXCEPT ![r].camera = IF r = Current THEN "asking" ELSE "none"]
    /\ UNCHANGED <<session, page, native>>

\* Bug: a stream that arrives late is kept.
KeepLateStream(r) ==
    /\ runs[r].camera = "asking"
    /\ runs' = [runs EXCEPT ![r].camera = "live"]
    /\ UNCHANGED <<session, page, native>>

\* The stream of a run that is over is stopped at once.
Acquire(r) ==
    /\ runs[r].camera = "asking"
    /\ runs' = [runs EXCEPT ![r].camera = IF r = Current THEN "live" ELSE "stopped"]
    /\ UNCHANGED <<session, page, native>>

Deny(r) ==
    /\ runs[r].camera = "asking"
    /\ \/ /\ r = Current
          /\ StopInto(NoSession("error"), [runs EXCEPT ![r].camera = "none"], captures)
          /\ UNCHANGED mail
       \/ /\ r # Current
          /\ runs' = [runs EXCEPT ![r].camera = "none"]
          /\ UNCHANGED <<session, page, native>>

\* The device ends the video; the event and the polls come later.
CameraEnds(r) ==
    /\ runs[r].camera = "live"
    /\ runs' = [runs EXCEPT ![r].camera = "ended"]
    /\ UNCHANGED <<session, page, native>>

\* checkCamera: from the ended and inactive events and on acquisition.
SeeCameraEnded ==
    /\ Current # 0
    /\ runs[Current].camera = "ended"
    /\ Fail

Prepared(r) ==
    /\ runs[r].ready
    /\ runs[r].mode = "camera" => runs[r].camera \in {"live", "ended"}

\* onReady up to its first await; a procedural sample needs none.
Present(r) ==
    /\ r = Current
    /\ runs[r].start = "preparing"
    /\ Prepared(r)
    /\ runs' = [runs EXCEPT ![r].start = "presenting",
                            ![r].presenter = IF runs[r].mode = "sample" THEN "done" ELSE "pending"]
    /\ page' = [page EXCEPT !.mode = IF runs[r].mode = "sample" THEN "sample" ELSE @,
                            !.size = IF runs[r].mode = "sample" THEN SampleSize ELSE @,
                            !.source = IF runs[r].mode = "camera" THEN r ELSE @]
    /\ UNCHANGED <<session, native>>

\* The rest of onReady.
Show(r) ==
    /\ page' = [page EXCEPT !.mode = runs[r].mode,
                            !.photo = IF runs[r].mode = "photo" THEN r ELSE @,
                            !.size = IF runs[r].mode = "camera" THEN FrameSize[dims] ELSE SampleSize]
    /\ runs' = [runs EXCEPT ![r].presenter = "done"]
    /\ UNCHANGED <<session, native>>

\* Bug: onReady does not look whether its run was stopped while it waited.
ShowAlways(r) == runs[r].presenter = "pending" /\ Show(r)

\* play() or the photo is through and its run is still current.
ShowCurrent(r) ==
    /\ runs[r].presenter = "pending"
    /\ r = Current
    /\ runs[r].mode = "camera" => FrameSize[dims] # Unsupported
    /\ Show(r)

\* play() is through after its run was stopped: nothing is shown.
ShowNothing(r) ==
    /\ runs[r].presenter = "pending"
    /\ r # Current
    /\ runs' = [runs EXCEPT ![r].presenter = "done"]
    /\ UNCHANGED <<session, page, native>>

\* play() is rejected, the photo is not what it should be, or the dimensions of
\* the video are not supported.
PresentFails(r) ==
    /\ runs[r].presenter = "pending"
    /\ r = Current
    /\ StopInto(NoSession("error"), [runs EXCEPT ![r].presenter = "done"], captures)
    /\ UNCHANGED mail

\* The end of start: the pump is scheduled when "running" is shown.
Run(r) ==
    /\ r = Current
    /\ runs[r].start = "presenting"
    /\ runs[r].presenter = "done"
    /\ runs[r].camera # "ended"
    /\ runs' = [runs EXCEPT ![r].start = "settled"]
    /\ session' = [session EXCEPT !.started = TRUE, !.ui = "running"]
    /\ page' = [page EXCEPT !.scheduled = @ + 1]
    /\ UNCHANGED native

\* Bug: start waits for readiness, the camera and play() alone.
SettleWhenDone(r) ==
    /\ runs[r].start \in {"preparing", "presenting"}
    /\ r # Current
    /\ runs[r].ready /\ runs[r].presenter = "done"
    /\ runs' = [runs EXCEPT ![r].start = "settled"]
    /\ UNCHANGED <<session, page, native>>

\* cancelStart: start of a stopped run returns, whatever it was waiting for.
Settle(r) ==
    /\ runs[r].start \in {"preparing", "presenting"}
    /\ r # Current
    /\ runs' = [runs EXCEPT ![r].start = "settled"]
    /\ UNCHANGED <<session, page, native>>

StartTimeout ==
    /\ Current # 0
    /\ ~session.started
    /\ Fail

-----------------------------------------------------------------------------
(* The worker, and the messages the session receives from it *)

Message(r, kind, frame, size) == [run |-> r, kind |-> kind, frame |-> frame, size |-> size]

WorkerReady(r) ==
    /\ runs[r].worker = "loading"
    /\ runs' = [runs EXCEPT ![r].worker = "ready"]
    /\ mail' = mail \cup {Message(r, "ready", 0, SampleSize)}
    /\ UNCHANGED <<session, page, dims, captures, captured, frames, open>>

\* A failed initialization, a script error or a message that cannot be read.
WorkerFails(r) ==
    /\ runs[r].worker \in {"loading", "ready"}
    /\ runs' = [runs EXCEPT ![r].worker = "failed"]
    /\ mail' = mail \cup {Message(r, "error", 0, SampleSize)}
    /\ UNCHANGED <<session, page, dims, captures, captured, frames, open>>

\* One frame is handled to its end: it is closed on every path, and a result or
\* an error is sent.
HandleFrame(f) ==
    /\ runs[f.run].worker = "ready"
    /\ frames' = frames \ {f}
    /\ open' = open \ {f.no}
    /\ \E kind \in {"result", "error"} :
          mail' = mail \cup {Message(f.run, kind, f.frame, f.size)}
    /\ UNCHANGED <<runs, session, page, dims, captures, captured>>

\* A message of another run, or a result nobody waits for.
Ignored(m) ==
    \/ m.run # Current
    \/ m.kind = "result" /\ (~session.started \/ session.in_flight # m.frame)

Ignore(m) ==
    /\ Ignored(m)
    /\ mail' = mail \ {m}
    /\ UNCHANGED <<runs, session, page, dims, captures, captured, frames, open>>

ReceiveReady(m) ==
    /\ ~Ignored(m)
    /\ m.kind = "ready"
    /\ mail' = mail \ {m}
    /\ runs' = [runs EXCEPT ![m.run].ready = TRUE]
    /\ UNCHANGED <<session, page, dims, captures, captured, frames, open>>

\* The result is taken, then onResult draws it.
ReceiveResult(m) ==
    /\ ~Ignored(m)
    /\ m.kind = "result"
    /\ m.size = page.size
    /\ mail' = mail \ {m}
    /\ session' = [session EXCEPT !.in_flight = 0]
    /\ UNCHANGED <<runs, page, dims, captures, captured, frames, open>>

\* An error, or a result that onResult rejects for its dimensions.
ReceiveError(m) ==
    /\ ~Ignored(m)
    /\ m.kind = "error" \/ (m.kind = "result" /\ m.size # page.size)
    /\ mail' = mail \ {m}
    /\ StopInto(NoSession("error"), runs, captures)

\* Bug: the timer is armed for the first frame of a run only.
FirstResultTimeout ==
    /\ session.in_flight = 1
    /\ Fail

ResultTimeout ==
    /\ session.in_flight # 0
    /\ Fail

-----------------------------------------------------------------------------
(* The pump, one animation frame each *)

Busy == ~session.started \/ session.in_flight # 0

\* A callback that finds no run ends the chain; else the next one is scheduled.
Pumping == page.scheduled > 0 /\ Current # 0 /\ page.mode # "none"

\* The camera has ended, has stalled, or has dimensions that are not supported.
PumpFails ==
    /\ Pumping
    /\ page.mode = "camera"
    /\ Fail

\* The size of the frames follows the video.
NewSize == IF page.mode = "camera" THEN FrameSize[dims] ELSE page.size

BeginCapture(size) ==
    /\ captured < MaxCaptures
    /\ captured' = captured + 1
    /\ captures' = captures \cup {[run |-> Current, no |-> captured + 1, size |-> size,
                                   dims |-> dims, late |-> FALSE]}
    /\ page' = [page EXCEPT !.capturing = Current, !.size = size]
    /\ UNCHANGED <<runs, session, dims, frames, mail, open>>

\* Bug: the frame in flight is not waited for.
CaptureWhileBusy ==
    /\ Pumping
    /\ session.started
    /\ page.capturing # Current
    /\ page.mode = "camera" => runs[Current].camera # "ended" /\ FrameSize[dims] # Unsupported
    /\ BeginCapture(NewSize)

\* When neither a frame nor a capture is under way, take the next one.
Capture ==
    /\ Pumping
    /\ ~Busy
    /\ page.capturing # Current
    /\ page.mode = "camera" => runs[Current].camera # "ended" /\ FrameSize[dims] # Unsupported
    /\ BeginCapture(NewSize)

DoneCapturing(c) ==
    [page EXCEPT !.capturing = IF @ = c.run THEN 0 ELSE @]

\* Bug: a bitmap that comes after the abort or the timeout is not closed.
LoseLateBitmap(c) ==
    /\ c.late
    /\ captures' = captures \ {c}
    /\ open' = open \cup {c.no}
    /\ UNCHANGED <<runs, session, page, dims, captured, frames, mail>>

\* captureBitmap has been settled already: the bitmap is closed, an error is
\* ignored.
DiscardLate(c) ==
    /\ c.late
    /\ captures' = captures \ {c}
    /\ UNCHANGED <<runs, session, page, dims, captured, frames, mail, open>>

\* The bitmap is closed when the run or the dimensions of the video have changed
\* since, and by submit when the session is busy.
Stale(c) ==
    \/ c.run # Current
    \/ page.mode = "camera" /\ dims # c.dims
    \/ Busy

Discard(c) ==
    /\ ~c.late
    /\ Stale(c)
    /\ captures' = captures \ {c}
    /\ page' = DoneCapturing(c)
    /\ UNCHANGED <<runs, session, dims, captured, frames, mail, open>>

\* Otherwise it is transferred to the worker.
Submit(c) ==
    /\ ~c.late
    /\ ~Stale(c)
    /\ LET frame == session.frame_id + 1
       IN  /\ session' = [session EXCEPT !.frame_id = frame, !.in_flight = frame]
           /\ frames' = frames \cup {[run |-> Current, frame |-> frame, no |-> c.no, size |-> c.size]}
    /\ open' = open \cup {c.no}
    /\ captures' = captures \ {c}
    /\ page' = DoneCapturing(c)
    /\ UNCHANGED <<runs, dims, captured, mail>>

\* The transfer throws and the bitmap is closed, or the creation is rejected.
CaptureFails(c) ==
    /\ ~c.late
    /\ StopInto(NoSession("error"), runs, captures \ {c})
    /\ UNCHANGED mail

\* The timer of captureBitmap: the wait ends, the creation goes on.
CaptureTimeout(c) ==
    /\ ~c.late
    /\ StopInto(NoSession("error"), runs, (captures \ {c}) \cup {[c EXCEPT !.late = TRUE]})
    /\ UNCHANGED mail

\* The device is turned while its video is shown.
Rotate(d) ==
    /\ page.source # 0
    /\ dims' = d
    /\ UNCHANGED <<runs, session, page, captures, captured, frames, mail, open>>

-----------------------------------------------------------------------------
User == Stop \/ (\E r \in Runs, mode \in Modes : Start(r, mode) \/ StartThrows(r, mode))

StartUp(r) ==
    \/ Ask(r) \/ Acquire(r) \/ Deny(r)
    \/ Present(r) \/ ShowCurrent(r) \/ ShowNothing(r) \/ PresentFails(r)
    \/ Run(r) \/ Settle(r)

Receive(m) == Ignore(m) \/ ReceiveReady(m) \/ ReceiveResult(m) \/ ReceiveError(m)

Timers == StartTimeout \/ ResultTimeout \/ (\E c \in captures : CaptureTimeout(c))

Pump == PumpFails \/ Capture

Bitmap(c) ==
    DiscardLate(c) \/ Discard(c) \/ Submit(c) \/ CaptureFails(c)

Next ==
    \/ User
    \/ \E r \in Runs : StartUp(r) \/ CameraEnds(r) \/ WorkerReady(r) \/ WorkerFails(r)
    \/ SeeCameraEnded
    \/ \E f \in frames : HandleFrame(f)
    \/ \E m \in mail : Receive(m)
    \/ Timers
    \/ Pump
    \/ \E c \in captures : Bitmap(c)
    \/ \E d \in Dims : Rotate(d)

\* Armed timers fire unless they are cleared, and microtasks run.  Nothing native
\* need ever settle, no worker need answer, and no visitor need do anything.
Fairness ==
    /\ WF_vars(StartTimeout)
    /\ WF_vars(ResultTimeout)
    /\ \A r \in Runs : WF_vars(Settle(r))

Spec == Init /\ [][Next]_vars /\ Fairness

-----------------------------------------------------------------------------
TypeOK ==
    /\ runs \in [Runs -> [mode : Modes \cup {"none"},
                          start : {"none", "preparing", "presenting", "settled"},
                          presenter : {"none", "pending", "done"},
                          ready : BOOLEAN,
                          worker : {"none", "loading", "ready", "failed", "terminated"},
                          camera : {"none", "unasked", "asking", "live", "ended", "stopped"}]]
    /\ session \in [run : Runs \cup {0}, started : BOOLEAN, in_flight : 0..MaxCaptures,
                    frame_id : 0..MaxCaptures, ui : {"idle", "loading", "running", "error"}]
    /\ page \in [mode : Modes \cup {"none"}, source : Runs \cup {0}, photo : Runs \cup {0},
                 capturing : Runs \cup {0}, scheduled : 0..1, size : Sizes]
    /\ dims \in Dims
    /\ captures \subseteq [run : Runs, no : 1..MaxCaptures, size : Sizes, dims : Dims, late : BOOLEAN]
    /\ captured \in 0..MaxCaptures
    /\ frames \subseteq [run : Runs, frame : 1..MaxCaptures, no : 1..MaxCaptures, size : Sizes]
    /\ mail \subseteq [run : Runs, kind : {"ready", "result", "error"}, frame : 0..MaxCaptures,
                       size : Sizes]
    /\ open \subseteq 1..MaxCaptures

\* "Late async completions never reopen a stopped session": the camera is on and
\* a worker lives only for the current run, however late permission, play() or
\* messages arrive.
NothingOutlivesItsRun ==
    \A r \in Runs \ {Current} :
        /\ runs[r].worker \in {"none", "terminated"}
        /\ runs[r].camera \notin {"live", "ended"}

\* No bitmap leaks, however late it comes: those that exist are the frames that
\* the current run's worker is still to handle and close.
BitmapsHaveOneOwner ==
    /\ open = {f.no : f \in frames}
    /\ \A f, g \in frames : f.no = g.no => f = g
    /\ \A f \in frames : f.run = Current

\* One capture or one frame is under way, and until its result is consumed the
\* size of the overlay is its size: no result is drawn in other coordinates or
\* rejected for them.
OneFrameInItsGeometry ==
    LET waiting == {c \in captures : ~c.late}
        answers == {m \in mail : m.kind = "result" /\ ~Ignored(m)}
    IN  /\ Cardinality(waiting) <= 1
        /\ waiting # {} => session.in_flight = 0 /\ frames = {}
        /\ Cardinality(frames) + Cardinality(answers) <= 1
        /\ \A x \in waiting \cup frames \cup answers :
              x.run = Current /\ x.size = page.size

\* The page shows the camera, the photo and the mode of the current run and of
\* no other, says what state it is in, and schedules one pump while it runs.
PageShowsTheRun ==
    /\ page.mode # "none" => Current # 0 /\ page.mode = runs[Current].mode
    /\ page.source \in {0, Current}
    /\ page.photo \in {0, Current}
    /\ page.capturing \in {0, Current}
    /\ page.scheduled = (IF session.started THEN 1 ELSE 0)
    /\ session.ui \in (IF Current = 0 THEN {"idle", "error"}
                       ELSE IF session.started THEN {"running"} ELSE {"loading"})
    /\ session.started => page.mode # "none"

\* start() settles although the camera prompt, play() or the worker never does.
StartSettles ==
    \A r \in Runs : (runs[r].start \in {"preparing", "presenting"}) ~> (runs[r].start = "settled")

\* A frame does not keep the session busy for ever: its result comes, or the
\* session is stopped.
FrameIsAnswered ==
    \A n \in 1..MaxCaptures : (session.in_flight = n) ~> (session.in_flight # n)
=============================================================================
