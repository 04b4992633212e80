------------------------- MODULE CameraSessionProofs -------------------------
(***************************************************************************)
(* Proofs about CameraSession for any number of runs and captures and any  *)
(* mapping of video dimensions to frame sizes: however late native work    *)
(* settles, the camera, the worker, the page and every bitmap belong to    *)
(* the current run, a stopped run stays stopped, and one frame at a time   *)
(* is shown in its own geometry.                                           *)
(***************************************************************************)
EXTENDS CameraSession, FiniteSetTheorems, TLAPS

Waiting(c) == c \in captures /\ ~c.late

\* A result the session waits for.
Answers(m) == m \in mail /\ m.kind = "result" /\ ~Ignored(m)

\* How far the current run has come.
CurrentStarted ==
    /\ Current # 0 => runs[Current].mode \in Modes
    /\ Current # 0 /\ runs[Current].presenter = "pending" => runs[Current].start = "presenting"
    /\ Current # 0 /\ runs[Current].presenter = "done" => page.mode = runs[Current].mode
    /\ session.started => Current # 0 /\ runs[Current].start = "settled"
    /\ session.in_flight # 0 => session.started /\ session.in_flight = session.frame_id

\* A bitmap that is waited for is the only one, of the size shown, and counted.
OneIsWaitedFor ==
    /\ \A c, d \in captures : Waiting(c) /\ Waiting(d) => c = d
    /\ \A c \in captures : Waiting(c) =>
          /\ session.started /\ session.in_flight = 0
          /\ c.run = Current /\ page.capturing = Current /\ c.size = page.size
          /\ session.frame_id < captured
    /\ session.frame_id <= captured

\* The frame in flight is with the worker or answered, once.
OneIsInFlight ==
    /\ \A f, g \in frames : f = g
    /\ \A f \in frames : f.run = Current /\ f.frame = session.in_flight /\ f.size = page.size
    /\ \A m \in mail : m.kind = "result" =>
          /\ runs[m.run].mode # "none"
          /\ m.run = Current => m.frame \in 1..session.frame_id
    /\ \A m \in mail : Answers(m) => frames = {} /\ m.size = page.size
    /\ \A m, n \in mail : Answers(m) /\ Answers(n) => m = n

IInv ==
    /\ TypeOK
    /\ CurrentStarted
    /\ OneIsWaitedFor
    /\ OneIsInFlight
    /\ open = {f.no : f \in frames}
    /\ NothingOutlivesItsRun
    /\ PageShowsTheRun

\* What a run may own.
RunRecord == [mode : Modes \cup {"none"},
              start : {"none", "preparing", "presenting", "settled"},
              presenter : {"none", "pending", "done"},
              ready : BOOLEAN,
              worker : {"none", "loading", "ready", "failed", "terminated"},
              camera : {"none", "unasked", "asking", "live", "ended", "stopped"}]

SessionRecord == [run : Runs \cup {0}, started : BOOLEAN, in_flight : 0..MaxCaptures,
                  frame_id : 0..MaxCaptures, ui : {"idle", "loading", "running", "error"}]

PageRecord == [mode : Modes \cup {"none"}, source : Runs \cup {0}, photo : Runs \cup {0},
               capturing : Runs \cup {0}, scheduled : 0..1, size : Sizes]

CaptureRecord == [run : Runs, no : 1..MaxCaptures, size : Sizes, dims : Dims, late : BOOLEAN]

LEMMA ConstantFacts ==
  /\ "none" \notin Modes
  /\ 0 \notin Runs
  /\ Runs \subseteq Nat
  /\ NoRun \in RunRecord
BY CameraAssumption DEF Runs, NoRun, RunRecord

-----------------------------------------------------------------------------
LEMMA InitEstablishes ==
  ASSUME Init
  PROVE  IInv
<1> USE DEF Init, NoSession, Current
<1>1. TypeOK
  BY CameraAssumption, ConstantFacts DEF TypeOK, RunRecord
<1>2. CurrentStarted /\ OneIsWaitedFor /\ OneIsInFlight
  BY DEF CurrentStarted, OneIsWaitedFor, OneIsInFlight
<1>3. open = {f.no : f \in frames}
  OBVIOUS
<1>4. NothingOutlivesItsRun
  BY DEF NothingOutlivesItsRun, NoRun
<1>5. PageShowsTheRun
  BY DEF PageShowsTheRun
<1> QED
  BY <1>1, <1>2, <1>3, <1>4, <1>5 DEF IInv

-----------------------------------------------------------------------------
(* stop: what every path to it has in common *)

\* Whatever a run owned, it is a run's record without worker and camera after
\* its resources are released.
LEMMA ReleasedRuns ==
  ASSUME NEW owned \in [Runs -> RunRecord]
  PROVE  /\ Released(owned) \in [Runs -> RunRecord]
         /\ \A r \in Runs : /\ r # Current => Released(owned)[r] = owned[r]
                           /\ Released(owned)[r].mode = owned[r].mode
         /\ Current \in Runs => /\ Released(owned)[Current].worker \in {"none", "terminated"}
                               /\ Released(owned)[Current].camera \notin {"live", "ended"}
<1>1. ASSUME NEW r \in Runs
      PROVE  /\ Released(owned)[r] \in RunRecord
             /\ r # Current => Released(owned)[r] = owned[r]
             /\ Released(owned)[r].mode = owned[r].mode
             /\ r = Current => /\ Released(owned)[r].worker \in {"none", "terminated"}
                              /\ Released(owned)[r].camera \notin {"live", "ended"}
  <2>1. owned[r] \in RunRecord
    OBVIOUS
  <2> DEFINE o == owned[r]
             w == IF o.worker = "none" THEN o.worker ELSE "terminated"
             c == IF o.camera \in {"live", "ended"} THEN "stopped" ELSE o.camera
  <2>2. CASE r # Current
    BY <2>1, <2>2 DEF Released, RunRecord
  <2>3. CASE r = Current
    <3>1. Released(owned)[r] = [o EXCEPT !.worker = w, !.camera = c]
      BY <2>3 DEF Released
    <3>2. w \in {"none", "terminated"} /\ c \in {"none", "unasked", "asking", "stopped"}
      BY <2>1 DEF RunRecord
    <3> HIDE DEF w, c
    <3>3. [o EXCEPT !.worker = w, !.camera = c] \in RunRecord
      BY <2>1, <3>2 DEF RunRecord
    <3> QED
      BY <2>1, <2>3, <3>1, <3>2, <3>3 DEF RunRecord
  <2> QED
    BY <2>2, <2>3
<1> QED
  BY <1>1 DEF Released

\* The session after stop, with the run that replaces the one that is stopped.
Stopped(next, shown) ==
    [run |-> next, started |-> FALSE, in_flight |-> 0, frame_id |-> 0, ui |-> shown]

\* stop drops the frames, aborts the wait and clears the page, and the run that
\* replaces the stopped one, if any, owns nothing yet.
LEMMA StopKeeps ==
  ASSUME IInv,
         NEW next \in Runs \cup {0},
         NEW shown \in (IF next = 0 THEN {"idle", "error"} ELSE {"loading"}),
         NEW owned \in [Runs -> RunRecord],
         NEW waiting \in SUBSET CaptureRecord,
         StopInto(Stopped(next, shown), owned, waiting),
         mail' \in SUBSET mail,
         \A r \in Runs : runs[r].mode # "none" => owned[r].mode # "none",
         \A r \in Runs : r # Current /\ r # next =>
             owned[r].worker \in {"none", "terminated"} /\ owned[r].camera \notin {"live", "ended"},
         next # 0 => /\ runs[next] = NoRun
                     /\ owned[next].mode \in Modes
                     /\ owned[next].presenter = "none",
         \A c \in waiting : ~c.late => c.run = Current
  PROVE  IInv'
<1> USE DEF IInv, StopInto, NoSession, Current
<1>1. /\ Released(owned) \in [Runs -> RunRecord]
      /\ \A r \in Runs : /\ r # Current => Released(owned)[r] = owned[r]
                        /\ Released(owned)[r].mode = owned[r].mode
      /\ Current \in Runs => /\ Released(owned)[Current].worker \in {"none", "terminated"}
                            /\ Released(owned)[Current].camera \notin {"live", "ended"}
  BY ReleasedRuns
<1>2. session' = [run |-> next, started |-> FALSE, in_flight |-> 0, frame_id |-> 0, ui |-> shown]
  BY DEF Stopped
<1>3. next # 0 => next # Current
  BY ConstantFacts DEF CurrentStarted, NoRun
<1>4. frames' = {} /\ open' = {}
  <2>1. \A f \in frames : f.run = Current
    BY DEF OneIsInFlight
  <2> QED
    BY <2>1 DEF Gone
<1>5. page' = [mode |-> "none", source |-> 0, photo |-> 0, capturing |-> 0, scheduled |-> 0,
               size |-> page.size]
  <2>1. page \in PageRecord
    BY DEF TypeOK, PageRecord
  <2>2. (IF page.scheduled > 0 THEN page.scheduled - 1 ELSE 0) = 0
    BY <2>1 DEF PageRecord
  <2>3. page' = [page EXCEPT !.mode = "none", !.source = 0, !.photo = 0, !.capturing = 0,
                             !.scheduled = 0]
    BY <2>2 DEF OffPage
  <2> QED
    BY <2>1, <2>3 DEF PageRecord
<1>6. captures' \in SUBSET CaptureRecord /\ \A c \in captures' : c.late
  BY DEF Aborted, CaptureRecord
<1>7. TypeOK'
  <2>1. runs' \in [Runs -> RunRecord]
    BY <1>1
  <2>2. next \in Runs \cup {0} /\ shown \in {"idle", "error", "loading"} /\ 0 \in 0..MaxCaptures
    BY CameraAssumption
  <2>3. session' \in SessionRecord
    BY <1>2, <2>2 DEF SessionRecord
  <2>4. page' \in PageRecord
    BY <1>5 DEF TypeOK, PageRecord
  <2> QED
    BY <1>4, <1>6, <2>1, <2>3, <2>4 DEF TypeOK, RunRecord, SessionRecord, PageRecord, CaptureRecord
<1>8. CurrentStarted'
  BY <1>1, <1>2, <1>3 DEF CurrentStarted
<1>9. OneIsWaitedFor'
  BY <1>2, <1>6 DEF OneIsWaitedFor, Waiting, TypeOK
<1>10. OneIsInFlight'
  <2>1. \A m \in mail' : m.kind = "result" => runs'[m.run].mode # "none"
    BY <1>1 DEF OneIsInFlight, TypeOK
  <2>2. \A m \in mail' : m.kind = "result" => m.run # next
    BY ConstantFacts DEF OneIsInFlight, TypeOK, NoRun
  <2>3. \A m \in mail' : m.kind = "result" => Ignored(m)'
    BY <1>2 DEF Ignored
  <2> QED
    BY <1>2, <1>4, <2>1, <2>2, <2>3 DEF OneIsInFlight, Answers
<1>11. NothingOutlivesItsRun'
  BY <1>1, <1>2 DEF NothingOutlivesItsRun
<1>12. PageShowsTheRun'
  BY <1>2, <1>5 DEF PageShowsTheRun
<1> QED
  BY <1>4, <1>7, <1>8, <1>9, <1>10, <1>11, <1>12

\* A visitor or an error stops the run as it is.
LEMMA PlainStopKeeps ==
  ASSUME IInv, NEW shown \in {"idle", "error"}, NEW owned \in [Runs -> RunRecord],
         StopInto(NoSession(shown), owned, captures),
         mail' \in SUBSET mail,
         \A r \in Runs : owned[r].mode = runs[r].mode,
         \A r \in Runs \ {Current} : owned[r].worker = runs[r].worker /\ owned[r].camera = runs[r].camera
  PROVE  IInv'
<1>1. Stopped(0, shown) = NoSession(shown)
  BY DEF NoSession, Stopped
<1>2. captures \in SUBSET CaptureRecord
  BY DEF IInv, TypeOK, CaptureRecord
<1>3. \A c \in captures : ~c.late => c.run = Current
  BY DEF IInv, OneIsWaitedFor, Waiting
<1>4. \A r \in Runs : r # Current =>
             owned[r].worker \in {"none", "terminated"} /\ owned[r].camera \notin {"live", "ended"}
  BY DEF IInv, NothingOutlivesItsRun
<1> QED
  BY <1>1, <1>2, <1>3, <1>4, StopKeeps

LEMMA FailKeeps ==
  ASSUME IInv, Fail \/ Stop
  PROVE  IInv'
<1>1. runs \in [Runs -> RunRecord]
  BY DEF IInv, TypeOK, RunRecord
<1> QED
  BY <1>1, PlainStopKeeps DEF Fail, Stop

LEMMA StartKeeps ==
  ASSUME IInv, NEW r \in Runs, NEW mode \in Modes, Start(r, mode) \/ StartThrows(r, mode)
  PROVE  IInv'
<1> DEFINE begun == [runs EXCEPT ![r] = [NoRun EXCEPT
                        !.mode = mode, !.start = "preparing", !.worker = "loading",
                        !.camera = IF mode = "camera" THEN "unasked" ELSE "none"]]
           thrown == [runs EXCEPT ![r] = [NoRun EXCEPT !.mode = mode, !.start = "preparing"]]
<1>1. /\ runs \in [Runs -> RunRecord]
      /\ captures \in SUBSET CaptureRecord
      /\ \A c \in captures : ~c.late => c.run = Current
      /\ \A q \in Runs : q # Current =>
             runs[q].worker \in {"none", "terminated"} /\ runs[q].camera \notin {"live", "ended"}
  BY DEF IInv, TypeOK, RunRecord, CaptureRecord, OneIsWaitedFor, Waiting, NothingOutlivesItsRun
<1>2. runs[r] = NoRun /\ mail' \in SUBSET mail
  BY DEF Start, StartThrows, Fresh
<1>3. begun \in [Runs -> RunRecord] /\ thrown \in [Runs -> RunRecord]
  BY <1>1 DEF RunRecord, NoRun
<1>4. /\ begun[r].mode = mode /\ begun[r].presenter = "none"
      /\ thrown[r].mode = mode /\ thrown[r].worker = "none" /\ thrown[r].camera = "none"
      /\ \A q \in Runs : q # r => begun[q] = runs[q] /\ thrown[q] = runs[q]
  BY <1>1 DEF NoRun
<1>5. CASE Start(r, mode)
  <2>1. StopInto([NoSession("loading") EXCEPT !.run = r], begun, captures)
    BY <1>5 DEF Start
  <2>2. session' = Stopped(r, "loading")
    BY <2>1 DEF StopInto, NoSession, Stopped
  <2>3. StopInto(Stopped(r, "loading"), begun, captures)
    BY <2>1, <2>2 DEF StopInto
  <2>4. "loading" \in (IF r = 0 THEN {"idle", "error"} ELSE {"loading"})
    BY ConstantFacts
  <2>5. \A q \in Runs : q # Current /\ q # r =>
             begun[q].worker \in {"none", "terminated"} /\ begun[q].camera \notin {"live", "ended"}
    BY <1>1, <1>4
  <2>6. \A q \in Runs : runs[q].mode # "none" => begun[q].mode # "none"
    BY <1>2, <1>4 DEF NoRun
  <2> HIDE DEF begun
  <2> QED
    BY <1>1, <1>2, <1>3, <1>4, <2>3, <2>4, <2>5, <2>6, StopKeeps
<1>6. CASE StartThrows(r, mode)
  <2>1. NoSession("error") = Stopped(0, "error")
    BY DEF NoSession, Stopped
  <2>2. StopInto(Stopped(0, "error"), thrown, captures)
    BY <1>6, <2>1 DEF StartThrows
  <2>3. \A q \in Runs : q # Current =>
             thrown[q].worker \in {"none", "terminated"} /\ thrown[q].camera \notin {"live", "ended"}
    BY <1>1, <1>4
  <2>4. \A q \in Runs : runs[q].mode # "none" => thrown[q].mode # "none"
    BY <1>2, <1>4 DEF NoRun
  <2> HIDE DEF thrown
  <2> QED
    BY <1>1, <1>2, <1>3, <2>2, <2>3, <2>4, StopKeeps
<1> QED
  BY <1>5, <1>6

-----------------------------------------------------------------------------
(* start *)

\* A step of one run's start that only this run's record shows.
LEMMA RunMoves ==
  ASSUME IInv, NEW r \in Runs, NEW moved \in RunRecord, runs' = [runs EXCEPT ![r] = moved],
         UNCHANGED <<session, page, dims, captures, captured, frames, open>>,
         mail' \in SUBSET [run : Runs, kind : {"ready", "result", "error"},
                           frame : 0..MaxCaptures, size : Sizes],
         \A m \in mail' : m.kind = "result" => m \in mail,
         moved.mode = runs[r].mode,
         r = Current => moved.presenter = runs[r].presenter /\ moved.start = runs[r].start,
         r # Current => moved.worker \in {"none", "terminated"} /\ moved.camera \notin {"live", "ended"}
  PROVE  IInv'
<1> USE DEF IInv, Current
<1>1. runs \in [Runs -> RunRecord]
  BY DEF TypeOK, RunRecord
<1>2. /\ runs' \in [Runs -> RunRecord]
      /\ \A q \in Runs : q # r => runs'[q] = runs[q]
      /\ runs'[r] = moved
  BY <1>1
<1>3. TypeOK'
  BY <1>2 DEF TypeOK, RunRecord
<1>4. CurrentStarted'
  BY <1>2 DEF CurrentStarted, TypeOK
<1>5. OneIsWaitedFor'
  BY DEF OneIsWaitedFor, Waiting
<1>6. OneIsInFlight'
  <2>1. \A m \in mail' : Answers(m)' => m \in mail /\ Answers(m)
    BY DEF Answers, Ignored
  <2>2. \A m \in mail' : m.kind = "result" =>
          /\ runs'[m.run].mode # "none"
          /\ m.run = Current => m.frame \in 1..session.frame_id
    BY <1>2 DEF OneIsInFlight, TypeOK
  <2> QED
    BY <2>1, <2>2 DEF OneIsInFlight
<1>7. NothingOutlivesItsRun'
  BY <1>2 DEF NothingOutlivesItsRun
<1>8. PageShowsTheRun'
  BY <1>2 DEF PageShowsTheRun, TypeOK
<1> QED
  BY <1>3, <1>4, <1>5, <1>6, <1>7, <1>8

\* What Present and Show put on the page while the run is not shown as running:
\* no frame and no capture is there to be measured by the size.
LEMMA PageIsSet ==
  ASSUME IInv, NEW r \in Runs, r = Current, runs[r].start \in {"preparing", "presenting"},
         NEW moved \in RunRecord, runs' = [runs EXCEPT ![r] = moved],
         moved.mode = runs[r].mode, moved.presenter = "pending" => moved.start = "presenting",
         page' \in PageRecord,
         page'.capturing = page.capturing, page'.scheduled = page.scheduled,
         page'.source \in {page.source, r}, page'.photo \in {page.photo, r},
         page'.mode \in {page.mode, moved.mode},
         moved.presenter = "done" => page'.mode = moved.mode,
         UNCHANGED <<session, dims, captures, captured, frames, mail, open>>
  PROVE  IInv'
<1> USE DEF IInv, Current
<1>1. runs \in [Runs -> RunRecord]
  BY DEF TypeOK, RunRecord
<1>2. /\ runs' \in [Runs -> RunRecord]
      /\ \A q \in Runs : q # r => runs'[q] = runs[q]
      /\ runs'[r] = moved
  BY <1>1
<1>3. ~session.started /\ session.in_flight = 0
  BY DEF CurrentStarted
<1>4. TypeOK'
  BY <1>2 DEF TypeOK, RunRecord, PageRecord
<1>5. CurrentStarted'
  BY <1>2, <1>3 DEF CurrentStarted
<1>6. OneIsWaitedFor'
  BY <1>3 DEF OneIsWaitedFor, Waiting
<1>7. OneIsInFlight'
  <2>1. \A m \in mail : m.kind = "result" => Ignored(m)'
    BY <1>3 DEF Ignored
  <2>2. frames = {}
    BY <1>3 DEF OneIsInFlight, TypeOK
  <2> QED
    BY <1>2, <2>1, <2>2 DEF OneIsInFlight, Answers, TypeOK
<1>8. NothingOutlivesItsRun'
  BY <1>2 DEF NothingOutlivesItsRun
<1>9. PageShowsTheRun'
  <2>1. r # 0 /\ session' = session /\ session.run = r
    BY ConstantFacts
  <2>2. page'.mode # "none" => page'.mode = runs'[r].mode
    BY <1>2, <2>1 DEF PageShowsTheRun
  <2> QED
    BY <1>3, <2>1, <2>2 DEF PageShowsTheRun
<1> QED
  BY <1>4, <1>5, <1>6, <1>7, <1>8, <1>9

LEMMA CameraStepKeeps ==
  ASSUME IInv, NEW r \in Runs, Ask(r) \/ Acquire(r) \/ Deny(r) \/ CameraEnds(r)
  PROVE  IInv'
<1> DEFINE with(v) == [runs[r] EXCEPT !.camera = v]
           Moved(v) == runs' = [runs EXCEPT ![r] = with(v)] /\ UNCHANGED <<session, page, native>>
<1>1. runs \in [Runs -> RunRecord]
  BY DEF IInv, TypeOK, RunRecord
<1>2. ASSUME NEW v \in {"none", "asking", "live", "ended", "stopped"}, Moved(v),
             v \in {"live", "ended"} => r = Current
      PROVE  IInv'
  <2>1. with(v) \in RunRecord /\ with(v).camera = v
    BY <1>1 DEF RunRecord
  <2>2. /\ with(v).mode = runs[r].mode /\ with(v).presenter = runs[r].presenter
        /\ with(v).start = runs[r].start /\ with(v).worker = runs[r].worker
    BY <1>1 DEF RunRecord
  <2>3. r # Current => runs[r].worker \in {"none", "terminated"}
    BY DEF IInv, NothingOutlivesItsRun
  <2>4. mail \in SUBSET [run : Runs, kind : {"ready", "result", "error"},
                         frame : 0..MaxCaptures, size : Sizes]
    BY DEF IInv, TypeOK
  <2> HIDE DEF with
  <2> QED
    BY <1>2, <2>1, <2>2, <2>3, <2>4, RunMoves DEF native
<1>3. CASE Ask(r)
  <2>1. CASE r = Current
    BY <1>2, <1>3, <2>1 DEF Ask
  <2>2. CASE r # Current
    BY <1>2, <1>3, <2>2 DEF Ask
  <2> QED
    BY <2>1, <2>2
<1>4. CASE Acquire(r)
  <2>1. CASE r = Current
    BY <1>2, <1>4, <2>1 DEF Acquire
  <2>2. CASE r # Current
    BY <1>2, <1>4, <2>2 DEF Acquire
  <2> QED
    BY <2>1, <2>2
<1>5. CASE Deny(r)
  <2>1. CASE r = Current /\ StopInto(NoSession("error"), [runs EXCEPT ![r].camera = "none"], captures)
             /\ UNCHANGED mail
    <3> DEFINE owned == [runs EXCEPT ![r].camera = "none"]
    <3>1. owned \in [Runs -> RunRecord]
      BY <1>1 DEF RunRecord
    <3>2. /\ \A q \in Runs : owned[q].mode = runs[q].mode
          /\ \A q \in Runs \ {Current} : owned[q].worker = runs[q].worker /\ owned[q].camera = runs[q].camera
      BY <1>1, <2>1 DEF RunRecord
    <3>3. StopInto(NoSession("error"), owned, captures) /\ mail' \in SUBSET mail
      BY <2>1
    <3> HIDE DEF owned
    <3> QED
      BY <3>1, <3>2, <3>3, PlainStopKeeps
  <2>2. CASE r # Current /\ Moved("none")
    BY <1>2, <2>2
  <2> QED
    BY <1>5, <2>1, <2>2 DEF Deny
<1>6. CASE CameraEnds(r)
  BY <1>2, <1>6 DEF CameraEnds, IInv, NothingOutlivesItsRun
<1> QED
  BY <1>3, <1>4, <1>5, <1>6

\* A presentation or a start of a run that is over ends without a trace.
LEMMA LateStartKeeps ==
  ASSUME IInv, NEW r \in Runs, ShowNothing(r) \/ Settle(r)
  PROVE  IInv'
<1>1. runs \in [Runs -> RunRecord]
  BY DEF IInv, TypeOK, RunRecord
<1>2. PICK moved \in RunRecord :
          /\ runs' = [runs EXCEPT ![r] = moved]
          /\ moved.mode = runs[r].mode /\ moved.worker = runs[r].worker
          /\ moved.camera = runs[r].camera
  <2> DEFINE shown == [runs[r] EXCEPT !.presenter = "done"]
             settled == [runs[r] EXCEPT !.start = "settled"]
  <2>1. /\ shown \in RunRecord /\ shown.mode = runs[r].mode
        /\ shown.worker = runs[r].worker /\ shown.camera = runs[r].camera
    BY <1>1 DEF RunRecord
  <2>2. CASE ShowNothing(r)
    BY <2>1, <2>2 DEF ShowNothing
  <2>3. /\ settled \in RunRecord /\ settled.mode = runs[r].mode
        /\ settled.worker = runs[r].worker /\ settled.camera = runs[r].camera
    BY <1>1 DEF RunRecord
  <2>4. CASE Settle(r)
    BY <2>3, <2>4 DEF Settle
  <2> QED
    BY <2>2, <2>4
<1>3. r # Current /\ UNCHANGED <<session, page, native>>
  BY DEF ShowNothing, Settle
<1>4. runs[r].worker \in {"none", "terminated"} /\ runs[r].camera \notin {"live", "ended"}
  BY <1>3 DEF IInv, NothingOutlivesItsRun
<1>5. mail \in SUBSET [run : Runs, kind : {"ready", "result", "error"},
                       frame : 0..MaxCaptures, size : Sizes]
  BY DEF IInv, TypeOK
<1> QED
  BY <1>2, <1>3, <1>4, <1>5, RunMoves DEF native

LEMMA PresentKeeps ==
  ASSUME IInv, NEW r \in Runs, Present(r)
  PROVE  IInv'
<1> DEFINE presenter == IF runs[r].mode = "sample" THEN "done" ELSE "pending"
           moved == [runs[r] EXCEPT !.start = "presenting", !.presenter = presenter]
<1>1. /\ runs \in [Runs -> RunRecord] /\ page \in PageRecord
      /\ r = Current /\ runs[r].start = "preparing" /\ runs[r].mode \in Modes
  BY ConstantFacts DEF IInv, TypeOK, RunRecord, PageRecord, Present, CurrentStarted
<1>2. /\ moved \in RunRecord /\ moved.mode = runs[r].mode
      /\ moved.start = "presenting" /\ moved.presenter = presenter
  <2>1. presenter \in {"done", "pending"}
    OBVIOUS
  <2> HIDE DEF presenter
  <2> QED
    BY <1>1, <2>1 DEF RunRecord
<1>3. runs' = [runs EXCEPT ![r] = moved]
  BY <1>1 DEF Present
<1>4. /\ page' \in PageRecord
      /\ page'.capturing = page.capturing /\ page'.scheduled = page.scheduled
      /\ page'.source \in {page.source, r} /\ page'.photo = page.photo
      /\ page'.mode \in {page.mode, moved.mode}
      /\ moved.presenter = "done" => page'.mode = moved.mode
  <2> DEFINE mode == IF runs[r].mode = "sample" THEN "sample" ELSE page.mode
             size == IF runs[r].mode = "sample" THEN SampleSize ELSE page.size
             source == IF runs[r].mode = "camera" THEN r ELSE page.source
  <2>1. /\ mode \in {page.mode, moved.mode} /\ mode \in Modes \cup {"none"}
        /\ moved.presenter = "done" => mode = moved.mode
        /\ size \in Sizes /\ source \in {page.source, r}
    BY <1>1, <1>2, CameraAssumption DEF PageRecord
  <2>2. page' = [page EXCEPT !.mode = mode, !.size = size, !.source = source]
    BY DEF Present
  <2> HIDE DEF mode, size, source, moved
  <2> QED
    BY <1>1, <2>1, <2>2 DEF PageRecord
<1> HIDE DEF moved
<1> QED
  BY <1>1, <1>2, <1>3, <1>4, PageIsSet DEF Present, native

LEMMA ShowKeeps ==
  ASSUME IInv, NEW r \in Runs, ShowCurrent(r)
  PROVE  IInv'
<1> DEFINE moved == [runs[r] EXCEPT !.presenter = "done"]
           size == IF runs[r].mode = "camera" THEN FrameSize[dims] ELSE SampleSize
           photo == IF runs[r].mode = "photo" THEN r ELSE page.photo
<1>1. /\ runs \in [Runs -> RunRecord] /\ page \in PageRecord /\ dims \in Dims
      /\ r = Current /\ runs[r].start = "presenting" /\ runs[r].mode \in Modes
  BY ConstantFacts DEF IInv, TypeOK, RunRecord, PageRecord, ShowCurrent, CurrentStarted
<1>2. moved \in RunRecord /\ moved.mode = runs[r].mode /\ moved.presenter = "done"
  BY <1>1 DEF RunRecord
<1>3. runs' = [runs EXCEPT ![r] = moved]
  BY DEF ShowCurrent, Show
<1>4. size \in Sizes /\ photo \in {page.photo, r}
  BY <1>1, CameraAssumption DEF ShowCurrent
<1>5. page' = [page EXCEPT !.mode = runs[r].mode, !.photo = photo, !.size = size]
  BY DEF ShowCurrent, Show
<1> HIDE DEF moved, size, photo
<1>6. /\ page' \in PageRecord
      /\ page'.capturing = page.capturing /\ page'.scheduled = page.scheduled
      /\ page'.source = page.source /\ page'.photo \in {page.photo, r}
      /\ page'.mode = moved.mode
  BY <1>1, <1>2, <1>4, <1>5 DEF PageRecord
<1> QED
  BY <1>1, <1>2, <1>3, <1>6, PageIsSet DEF ShowCurrent, Show, native

LEMMA PresentFailsKeeps ==
  ASSUME IInv, NEW r \in Runs, PresentFails(r)
  PROVE  IInv'
<1> DEFINE owned == [runs EXCEPT ![r].presenter = "done"]
<1>1. runs \in [Runs -> RunRecord]
  BY DEF IInv, TypeOK, RunRecord
<1>2. owned \in [Runs -> RunRecord]
  BY <1>1 DEF RunRecord
<1>3. /\ \A q \in Runs : owned[q].mode = runs[q].mode
      /\ \A q \in Runs \ {Current} : owned[q].worker = runs[q].worker /\ owned[q].camera = runs[q].camera
  BY <1>1 DEF RunRecord
<1>4. StopInto(NoSession("error"), owned, captures) /\ mail' \in SUBSET mail
  BY DEF PresentFails
<1> HIDE DEF owned
<1> QED
  BY <1>2, <1>3, <1>4, PlainStopKeeps

LEMMA RunKeeps ==
  ASSUME IInv, NEW r \in Runs, Run(r)
  PROVE  IInv'
<1> USE DEF IInv, Current, Run, native
<1> DEFINE moved == [runs[r] EXCEPT !.start = "settled"]
<1>1. /\ runs \in [Runs -> RunRecord] /\ page \in PageRecord /\ session \in SessionRecord
  BY DEF TypeOK, RunRecord, PageRecord, SessionRecord
<1>2. /\ r = Current /\ r # 0 /\ ~session.started /\ session.in_flight = 0
      /\ page.mode = runs[r].mode /\ page.scheduled = 0 /\ runs[r].mode \in Modes
  BY <1>1, ConstantFacts DEF CurrentStarted, PageShowsTheRun
<1>3. /\ runs' \in [Runs -> RunRecord]
      /\ \A q \in Runs : q # r => runs'[q] = runs[q]
      /\ runs'[r] = [runs[r] EXCEPT !.start = "settled"]
  BY <1>1 DEF RunRecord
<1>4. /\ runs'[r].mode = runs[r].mode /\ runs'[r].presenter = "done"
      /\ runs'[r].start = "settled"
  BY <1>1, <1>3 DEF RunRecord
<1>5. /\ session' \in SessionRecord /\ session'.run = r /\ session'.started
      /\ session'.in_flight = 0 /\ session'.frame_id = session.frame_id /\ session'.ui = "running"
  BY <1>1, <1>2 DEF SessionRecord
<1>6. /\ page' \in PageRecord /\ page'.scheduled = 1 /\ page'.mode = page.mode
      /\ page'.source = page.source /\ page'.photo = page.photo
      /\ page'.capturing = page.capturing /\ page'.size = page.size
  BY <1>1, <1>2 DEF PageRecord
<1>7. TypeOK'
  BY <1>3, <1>5, <1>6 DEF TypeOK, RunRecord, SessionRecord, PageRecord
<1>8. CurrentStarted'
  BY <1>2, <1>4, <1>5, <1>6 DEF CurrentStarted
<1>9. OneIsWaitedFor'
  BY <1>2, <1>5, <1>6 DEF OneIsWaitedFor, Waiting
<1>10. OneIsInFlight'
  <2>1. frames = {}
    BY <1>2 DEF OneIsInFlight, TypeOK
  <2>2. \A m \in mail : ~Answers(m)'
    <3>1. \A m \in mail : m.kind = "result" /\ m.run = r => m.frame # 0
      BY <1>1, <1>2 DEF OneIsInFlight, SessionRecord
    <3> QED
      BY <1>5, <3>1 DEF Answers, Ignored
  <2> QED
    BY <1>2, <1>3, <1>4, <1>5, <2>1, <2>2 DEF OneIsInFlight, TypeOK
<1>11. NothingOutlivesItsRun'
  BY <1>2, <1>3, <1>5 DEF NothingOutlivesItsRun
<1>12. PageShowsTheRun'
  BY <1>2, <1>4, <1>5, <1>6, ConstantFacts DEF PageShowsTheRun
<1> QED
  BY <1>7, <1>8, <1>9, <1>10, <1>11, <1>12

-----------------------------------------------------------------------------
(* The worker and its messages *)

LEMMA WorkerStepKeeps ==
  ASSUME IInv, NEW r \in Runs, WorkerReady(r) \/ WorkerFails(r)
  PROVE  IInv'
<1> DEFINE with(w) == [runs[r] EXCEPT !.worker = w]
<1>1. runs \in [Runs -> RunRecord]
  BY DEF IInv, TypeOK, RunRecord
<1>2. r = Current
  BY DEF WorkerReady, WorkerFails, IInv, NothingOutlivesItsRun
<1>3. PICK w \in {"ready", "failed"}, kind \in {"ready", "error"} :
          /\ runs' = [runs EXCEPT ![r] = with(w)]
          /\ mail' = mail \cup {Message(r, kind, 0, SampleSize)}
          /\ UNCHANGED <<session, page, dims, captures, captured, frames, open>>
  BY DEF WorkerReady, WorkerFails
<1>4. /\ with(w) \in RunRecord /\ with(w).mode = runs[r].mode
      /\ with(w).presenter = runs[r].presenter /\ with(w).start = runs[r].start
  BY <1>1 DEF RunRecord
<1>5. /\ mail' \in SUBSET [run : Runs, kind : {"ready", "result", "error"},
                            frame : 0..MaxCaptures, size : Sizes]
      /\ \A m \in mail' : m.kind = "result" => m \in mail
  BY <1>3, CameraAssumption DEF IInv, TypeOK, Message
<1> HIDE DEF with
<1> QED
  BY <1>2, <1>3, <1>4, <1>5, RunMoves

\* The frame goes and its one answer comes.
LEMMA HandleFrameKeeps ==
  ASSUME IInv, NEW f \in frames, HandleFrame(f)
  PROVE  IInv'
<1> USE DEF IInv, Current, HandleFrame
<1>1. PICK kind \in {"result", "error"} : mail' = mail \cup {Message(f.run, kind, f.frame, f.size)}
  OBVIOUS
<1> DEFINE answer == Message(f.run, kind, f.frame, f.size)
<1>2. /\ f \in [run : Runs, frame : 1..MaxCaptures, no : 1..MaxCaptures, size : Sizes]
      /\ f.run = Current /\ f.frame = session.in_flight /\ f.size = page.size /\ frames = {f}
  BY DEF OneIsInFlight, TypeOK
<1>3. frames' = {} /\ open' = {}
  BY <1>2
<1>4. session.in_flight # 0 /\ session.in_flight = session.frame_id /\ session.started
  BY <1>2 DEF CurrentStarted
<1>5. TypeOK'
  BY <1>1, <1>2, <1>3 DEF TypeOK, Message
<1>6. CurrentStarted'
  BY DEF CurrentStarted
<1>7. OneIsWaitedFor'
  BY DEF OneIsWaitedFor, Waiting
<1>8. OneIsInFlight'
  <2>1. \A m \in mail : ~Answers(m) /\ ~Answers(m)'
    BY <1>2 DEF OneIsInFlight, Answers, Ignored
  <2>2. answer.run = Current /\ answer.frame \in 1..session.frame_id /\ answer.size = page.size
    BY <1>2, <1>4 DEF Message, TypeOK
  <2>3. Current # 0 /\ runs[Current].mode \in Modes
    BY <1>4 DEF CurrentStarted
  <2> HIDE DEF answer
  <2> QED
    BY <1>1, <1>3, <2>1, <2>2, <2>3, ConstantFacts DEF OneIsInFlight, answer
<1>9. NothingOutlivesItsRun'
  BY DEF NothingOutlivesItsRun
<1>10. PageShowsTheRun'
  BY DEF PageShowsTheRun
<1> QED
  BY <1>3, <1>5, <1>6, <1>7, <1>8, <1>9, <1>10

LEMMA ReceiveKeeps ==
  ASSUME IInv, NEW m \in mail, Receive(m)
  PROVE  IInv'
<1> USE DEF IInv, Current
<1>1. CASE Ignore(m)
  <2>1. \A n \in mail' : n \in mail /\ (Answers(n)' => Answers(n))
    BY <1>1 DEF Ignore, Answers, Ignored
  <2>2. UNCHANGED <<runs, session, page, dims, captures, captured, frames, open>>
    BY <1>1 DEF Ignore
  <2> QED
    BY <2>1, <2>2 DEF TypeOK, CurrentStarted, OneIsWaitedFor, Waiting, OneIsInFlight,
                      NothingOutlivesItsRun, PageShowsTheRun
<1>2. CASE ReceiveReady(m)
  <2> DEFINE moved == [runs[m.run] EXCEPT !.ready = TRUE]
  <2>1. m.run \in Runs /\ m.run = Current
    BY <1>2 DEF ReceiveReady, Ignored, TypeOK
  <2>2. /\ moved \in RunRecord /\ moved.mode = runs[m.run].mode
        /\ moved.presenter = runs[m.run].presenter /\ moved.start = runs[m.run].start
    <3>1. runs[m.run] \in RunRecord
      BY <2>1 DEF TypeOK, RunRecord
    <3> QED
      BY <3>1 DEF RunRecord
  <2>3. /\ mail' \in SUBSET [run : Runs, kind : {"ready", "result", "error"},
                             frame : 0..MaxCaptures, size : Sizes]
        /\ \A n \in mail' : n \in mail
    BY <1>2 DEF ReceiveReady, TypeOK
  <2>4. runs' = [runs EXCEPT ![m.run] = moved]
        /\ UNCHANGED <<session, page, dims, captures, captured, frames, open>>
    BY <1>2 DEF ReceiveReady
  <2> HIDE DEF moved
  <2> QED
    BY <2>1, <2>2, <2>3, <2>4, RunMoves
<1>3. CASE ReceiveResult(m)
  <2>1. Answers(m) /\ frames = {} /\ session.started
    BY <1>3 DEF ReceiveResult, Answers, OneIsInFlight, Ignored
  <2>2. /\ session' \in SessionRecord /\ session'.in_flight = 0
        /\ session'.run = session.run /\ session'.started = session.started
        /\ session'.frame_id = session.frame_id /\ session'.ui = session.ui
    BY <1>3, CameraAssumption DEF ReceiveResult, TypeOK, SessionRecord
  <2>3. mail' \in SUBSET mail /\ UNCHANGED <<runs, page, dims, captures, captured, frames, open>>
    BY <1>3 DEF ReceiveResult
  <2>4. \A n \in mail' : n.kind = "result" => Ignored(n)'
    BY <2>2, <2>3 DEF OneIsInFlight, Ignored, TypeOK
  <2>5. OneIsInFlight'
    BY <2>1, <2>2, <2>3, <2>4 DEF OneIsInFlight, Answers
  <2>6. TypeOK'
    BY <2>2, <2>3 DEF TypeOK, SessionRecord
  <2>7. CurrentStarted' /\ OneIsWaitedFor'
    BY <2>2, <2>3 DEF CurrentStarted, OneIsWaitedFor, Waiting
  <2>8. NothingOutlivesItsRun' /\ PageShowsTheRun'
    BY <2>2, <2>3 DEF NothingOutlivesItsRun, PageShowsTheRun
  <2> QED
    BY <2>1, <2>3, <2>5, <2>6, <2>7, <2>8
<1>4. CASE ReceiveError(m)
  <2>1. runs \in [Runs -> RunRecord]
    BY DEF TypeOK, RunRecord
  <2>2. StopInto(NoSession("error"), runs, captures) /\ mail' \in SUBSET mail
    BY <1>4 DEF ReceiveError
  <2> QED
    BY <2>1, <2>2, PlainStopKeeps
<1> QED
  BY <1>1, <1>2, <1>3, <1>4 DEF Receive

-----------------------------------------------------------------------------
(* The pump and its bitmaps *)

\* Nothing is waited for and no frame is anywhere when a capture begins.
LEMMA CaptureKeeps ==
  ASSUME IInv, Capture
  PROVE  IInv'
<1> USE DEF IInv, Current
<1> DEFINE c0 == [run |-> Current, no |-> captured + 1, size |-> NewSize, dims |-> dims, late |-> FALSE]
<1>1. /\ session.started /\ session.in_flight = 0 /\ page.capturing # Current
      /\ Current \in Runs /\ captured \in Nat /\ captured + 1 \in 1..MaxCaptures
      /\ page \in PageRecord /\ dims \in Dims
  BY CameraAssumption DEF Capture, Busy, Pumping, BeginCapture, TypeOK, PageRecord
<1>2. NewSize \in Sizes
  BY <1>1, CameraAssumption DEF Capture, NewSize, PageRecord
<1>3. /\ captured' = captured + 1 /\ captures' = captures \cup {c0}
      /\ page' = [page EXCEPT !.capturing = Current, !.size = NewSize]
      /\ UNCHANGED <<runs, session, dims, frames, mail, open>>
  BY DEF Capture, BeginCapture
<1>4. /\ page' \in PageRecord /\ page'.capturing = Current /\ page'.size = NewSize
      /\ page'.mode = page.mode /\ page'.source = page.source /\ page'.photo = page.photo
      /\ page'.scheduled = page.scheduled
  BY <1>1, <1>2, <1>3 DEF PageRecord
<1>5. c0 \in CaptureRecord
  BY <1>1, <1>2 DEF CaptureRecord
<1>6. \A c \in captures : c.late
  BY <1>1 DEF OneIsWaitedFor, Waiting
<1>7. frames = {} /\ \A m \in mail : m.kind = "result" => Ignored(m)
  <2>1. frames = {}
    BY <1>1 DEF OneIsInFlight, TypeOK
  <2>2. \A m \in mail : m.kind = "result" /\ m.run = Current => m.frame # 0
    BY DEF OneIsInFlight, TypeOK
  <2> QED
    BY <1>1, <2>1, <2>2 DEF Ignored
<1>8. TypeOK'
  <2>1. captures' \subseteq CaptureRecord
    BY <1>3, <1>5 DEF TypeOK, CaptureRecord
  <2>2. captured' \in 0..MaxCaptures
    BY <1>1, <1>3, CameraAssumption
  <2> HIDE DEF c0
  <2> QED
    BY <1>3, <1>4, <2>1, <2>2 DEF TypeOK, PageRecord, CaptureRecord
<1>9. CurrentStarted'
  BY <1>3, <1>4 DEF CurrentStarted
<1>10. OneIsWaitedFor'
  <2>1. session.frame_id \in Nat /\ session.frame_id < captured'
    BY <1>1, <1>3 DEF OneIsWaitedFor, TypeOK
  <2> QED
    <3>1. \A c \in captures' : ~c.late => c = c0
      BY <1>3, <1>6
    <3>2. c0.run = Current /\ c0.size = NewSize
      OBVIOUS
    <3> HIDE DEF c0
    <3> QED
      BY <1>1, <1>3, <1>4, <2>1, <3>1, <3>2 DEF OneIsWaitedFor, Waiting
<1>11. OneIsInFlight'
  BY <1>3, <1>7 DEF OneIsInFlight, Answers, Ignored
<1>12. NothingOutlivesItsRun'
  BY <1>3 DEF NothingOutlivesItsRun
<1>13. PageShowsTheRun'
  BY <1>3, <1>4 DEF PageShowsTheRun
<1> QED
  BY <1>3, <1>8, <1>9, <1>10, <1>11, <1>12, <1>13

\* A bitmap comes whose run is over, or is closed on arrival.
LEMMA DiscardKeeps ==
  ASSUME IInv, NEW c \in captures, DiscardLate(c) \/ Discard(c)
  PROVE  IInv'
<1> USE DEF IInv, Current
<1>1. page \in PageRecord
  BY DEF TypeOK, PageRecord
<1>2. /\ captures' = captures \ {c}
      /\ UNCHANGED <<runs, session, dims, captured, frames, mail, open>>
  BY DEF DiscardLate, Discard
<1>3. /\ page' \in PageRecord /\ page'.size = page.size /\ page'.mode = page.mode
      /\ page'.source = page.source /\ page'.photo = page.photo
      /\ page'.scheduled = page.scheduled
      /\ page'.capturing \in {0, page.capturing}
      /\ page'.capturing # page.capturing => ~c.late
  BY <1>1 DEF DiscardLate, Discard, DoneCapturing, PageRecord
<1>4. TypeOK'
  BY <1>2, <1>3 DEF TypeOK, PageRecord
<1>5. CurrentStarted'
  BY <1>2, <1>3 DEF CurrentStarted
<1>6. OneIsWaitedFor'
  <2>1. \A d \in captures' : Waiting(d)' => d \in captures /\ Waiting(d) /\ page'.capturing = page.capturing
    BY <1>2, <1>3 DEF OneIsWaitedFor, Waiting
  <2> QED
    BY <1>2, <1>3, <2>1 DEF OneIsWaitedFor
<1>7. OneIsInFlight'
  BY <1>2, <1>3 DEF OneIsInFlight, Answers, Ignored
<1>8. NothingOutlivesItsRun'
  BY <1>2 DEF NothingOutlivesItsRun
<1>9. PageShowsTheRun'
  BY <1>2, <1>3 DEF PageShowsTheRun
<1> QED
  BY <1>2, <1>4, <1>5, <1>6, <1>7, <1>8, <1>9

\* The bitmap that was waited for becomes the frame in flight.
LEMMA SubmitKeeps ==
  ASSUME IInv, NEW c \in captures, Submit(c)
  PROVE  IInv'
<1> USE DEF IInv, Current
<1> DEFINE frame == session.frame_id + 1
           f0 == [run |-> Current, frame |-> frame, no |-> c.no, size |-> c.size]
<1>1. /\ Waiting(c) /\ c.run = Current /\ c.size = page.size /\ session.started
      /\ session.in_flight = 0 /\ session.frame_id < captured
      /\ \A d \in captures : Waiting(d) => d = c
  BY DEF Submit, OneIsWaitedFor, Waiting
<1>2. /\ c \in CaptureRecord /\ Current \in Runs /\ page \in PageRecord /\ session \in SessionRecord
      /\ captured \in 0..MaxCaptures
  BY <1>1 DEF TypeOK, CaptureRecord, PageRecord, SessionRecord
<1>3. frame \in 1..MaxCaptures /\ frame <= captured /\ session.frame_id \in Nat
  BY <1>1, <1>2, CameraAssumption DEF SessionRecord
<1>4. /\ session' = [session EXCEPT !.frame_id = frame, !.in_flight = frame]
      /\ frames' = frames \cup {f0} /\ open' = open \cup {c.no} /\ captures' = captures \ {c}
      /\ page' = DoneCapturing(c) /\ UNCHANGED <<runs, dims, captured, mail>>
  BY DEF Submit
<1> HIDE DEF frame
<1>5. /\ session' \in SessionRecord /\ session'.in_flight = frame /\ session'.frame_id = frame
      /\ session'.run = session.run /\ session'.started = session.started /\ session'.ui = session.ui
  <2>1. frame \in 0..MaxCaptures
    BY <1>3, CameraAssumption
  <2> QED
    BY <1>2, <1>4, <2>1 DEF SessionRecord
<1>6. /\ page' \in PageRecord /\ page'.size = page.size /\ page'.mode = page.mode
      /\ page'.source = page.source /\ page'.photo = page.photo
      /\ page'.scheduled = page.scheduled /\ page'.capturing \in {0, page.capturing}
  BY <1>2, <1>4 DEF DoneCapturing, PageRecord
<1>7. frames = {} /\ frames' = {f0} /\ open' = {f.no : f \in frames'}
  <2>1. frames = {}
    BY <1>1 DEF OneIsInFlight, TypeOK
  <2>2. open = {}
    BY <2>1
  <2> QED
    BY <1>4, <2>1, <2>2
<1>8. f0 \in [run : Runs, frame : 1..MaxCaptures, no : 1..MaxCaptures, size : Sizes]
  BY <1>2, <1>3 DEF CaptureRecord
<1>9. TypeOK'
  <2>1. open' \subseteq 1..MaxCaptures
    BY <1>7, <1>8
  <2> QED
    BY <1>4, <1>5, <1>6, <1>7, <1>8, <2>1 DEF TypeOK, SessionRecord, PageRecord
<1>10. CurrentStarted'
  BY <1>1, <1>4, <1>5, <1>6 DEF CurrentStarted
<1>11. OneIsWaitedFor'
  <2>1. \A d \in captures' : ~Waiting(d)'
    BY <1>1, <1>4 DEF Waiting
  <2> QED
    BY <1>3, <1>4, <1>5, <2>1 DEF OneIsWaitedFor
<1>12. OneIsInFlight'
  <2>1. /\ frame = session.frame_id + 1 /\ f0.run = Current /\ f0.frame = frame
        /\ f0.size = page.size
    BY <1>1 DEF frame
  <2>2. \A m \in mail : m.kind = "result" =>
          /\ runs[m.run].mode # "none"
          /\ m.run = Current => m.frame \in 1..session.frame_id
    BY DEF OneIsInFlight
  <2>3. \A m \in mail : m.kind = "result" /\ m.run = Current =>
          m.frame \in 1..frame /\ m.frame # frame
    BY <1>3, <2>1, <2>2
  <2>4. \A m \in mail : ~Answers(m)'
    BY <1>4, <1>5, <2>3 DEF Answers, Ignored
  <2> QED
    BY <1>4, <1>5, <1>6, <1>7, <2>1, <2>2, <2>3, <2>4 DEF OneIsInFlight
<1>13. NothingOutlivesItsRun'
  BY <1>4, <1>5 DEF NothingOutlivesItsRun
<1>14. PageShowsTheRun'
  BY <1>4, <1>5, <1>6 DEF PageShowsTheRun
<1> QED
  BY <1>7, <1>9, <1>10, <1>11, <1>12, <1>13, <1>14

\* The wait for a bitmap fails: nothing is waited for any more.
LEMMA CaptureEndsKeeps ==
  ASSUME IInv, NEW c \in captures, CaptureFails(c) \/ CaptureTimeout(c)
  PROVE  IInv'
<1>1. PICK waiting : /\ waiting \in {captures \ {c}, (captures \ {c}) \cup {[c EXCEPT !.late = TRUE]}}
                     /\ StopInto(NoSession("error"), runs, waiting) /\ UNCHANGED mail
  BY DEF CaptureFails, CaptureTimeout
<1>2. captures \in SUBSET CaptureRecord /\ runs \in [Runs -> RunRecord]
  BY DEF IInv, TypeOK, CaptureRecord, RunRecord
<1>3. [c EXCEPT !.late = TRUE] \in CaptureRecord /\ [c EXCEPT !.late = TRUE].late
  BY <1>2 DEF CaptureRecord
<1>4. waiting \in SUBSET CaptureRecord
  BY <1>1, <1>2, <1>3
<1>5. \A d \in waiting : ~d.late => d.run = Current
  BY <1>1, <1>3 DEF IInv, OneIsWaitedFor, Waiting
<1>6. Stopped(0, "error") = NoSession("error")
  BY DEF NoSession, Stopped
<1>7. \A r \in Runs : r # Current =>
             runs[r].worker \in {"none", "terminated"} /\ runs[r].camera \notin {"live", "ended"}
  BY DEF IInv, NothingOutlivesItsRun
<1>8. StopInto(Stopped(0, "error"), runs, waiting) /\ mail' \in SUBSET mail
  BY <1>1, <1>6
<1> QED
  BY <1>2, <1>4, <1>5, <1>7, <1>8, StopKeeps

LEMMA RotateKeeps ==
  ASSUME IInv, NEW d \in Dims, Rotate(d)
  PROVE  IInv'
<1> USE DEF IInv, Current
<1>1. dims' \in Dims /\ UNCHANGED <<runs, session, page, captures, captured, frames, mail, open>>
  BY DEF Rotate
<1>2. TypeOK' /\ CurrentStarted'
  BY <1>1 DEF TypeOK, CurrentStarted
<1>3. OneIsWaitedFor' /\ OneIsInFlight'
  BY <1>1 DEF OneIsWaitedFor, Waiting, OneIsInFlight, Answers, Ignored
<1>4. NothingOutlivesItsRun' /\ PageShowsTheRun'
  BY <1>1 DEF NothingOutlivesItsRun, PageShowsTheRun
<1> QED
  BY <1>1, <1>2, <1>3, <1>4

LEMMA StutterKeeps ==
  ASSUME IInv, UNCHANGED vars
  PROVE  IInv'
<1> USE DEF IInv, Current, vars, native
<1>1. TypeOK' /\ CurrentStarted'
  BY DEF TypeOK, CurrentStarted
<1>2. OneIsWaitedFor' /\ OneIsInFlight'
  BY DEF OneIsWaitedFor, Waiting, OneIsInFlight, Answers, Ignored
<1>3. NothingOutlivesItsRun' /\ PageShowsTheRun'
  BY DEF NothingOutlivesItsRun, PageShowsTheRun
<1> QED
  BY <1>1, <1>2, <1>3

LEMMA NextKeeps ==
  ASSUME IInv, [Next]_vars
  PROVE  IInv'
<1>1. CASE User
  <2>1. CASE Stop
    BY <2>1, FailKeeps
  <2>2. ASSUME NEW r \in Runs, NEW mode \in Modes, Start(r, mode) \/ StartThrows(r, mode)
        PROVE  IInv'
    BY <2>2, StartKeeps
  <2> QED
    BY <1>1, <2>1, <2>2 DEF User
<1>2. ASSUME NEW r \in Runs, StartUp(r) \/ CameraEnds(r) \/ WorkerReady(r) \/ WorkerFails(r)
      PROVE  IInv'
  <2>1. CASE Ask(r) \/ Acquire(r) \/ Deny(r) \/ CameraEnds(r)
    BY <2>1, CameraStepKeeps
  <2>2. CASE Present(r) \/ ShowCurrent(r) \/ PresentFails(r) \/ Run(r)
    BY <2>2, PresentKeeps, ShowKeeps, PresentFailsKeeps, RunKeeps
  <2>3. CASE ShowNothing(r) \/ Settle(r)
    BY <2>3, LateStartKeeps
  <2>4. CASE WorkerReady(r) \/ WorkerFails(r)
    BY <2>4, WorkerStepKeeps
  <2> QED
    BY <1>2, <2>1, <2>2, <2>3, <2>4 DEF StartUp
<1>3. CASE SeeCameraEnded \/ StartTimeout \/ ResultTimeout \/ PumpFails
  <2>1. Fail
    BY <1>3 DEF SeeCameraEnded, StartTimeout, ResultTimeout, PumpFails
  <2> QED
    BY <2>1, FailKeeps
<1>4. ASSUME NEW f \in frames, HandleFrame(f)
      PROVE  IInv'
  BY <1>4, HandleFrameKeeps
<1>5. ASSUME NEW m \in mail, Receive(m)
      PROVE  IInv'
  BY <1>5, ReceiveKeeps
<1>6. CASE Capture
  BY <1>6, CaptureKeeps
<1>7. ASSUME NEW c \in captures, Bitmap(c) \/ CaptureTimeout(c)
      PROVE  IInv'
  <2>1. CASE DiscardLate(c) \/ Discard(c)
    BY <2>1, DiscardKeeps
  <2>2. CASE Submit(c)
    BY <2>2, SubmitKeeps
  <2>3. CASE CaptureFails(c) \/ CaptureTimeout(c)
    BY <2>3, CaptureEndsKeeps
  <2> QED
    BY <1>7, <2>1, <2>2, <2>3 DEF Bitmap
<1>8. ASSUME NEW d \in Dims, Rotate(d)
      PROVE  IInv'
  BY <1>8, RotateKeeps
<1>9. CASE UNCHANGED vars
  BY <1>9, StutterKeeps
<1> QED
  BY <1>1, <1>2, <1>3, <1>4, <1>5, <1>6, <1>7, <1>8, <1>9 DEF Next, Timers, Pump

-----------------------------------------------------------------------------
(* What the inductive invariant says of the session *)

\* A set without two elements has at most one.
LEMMA AtMostOne ==
  ASSUME NEW S, \A x, y \in S : x = y
  PROVE  Cardinality(S) \in {0, 1} /\ (S = {} => Cardinality(S) = 0)
<1>1. CASE S = {}
  BY <1>1, FS_EmptySet
<1>2. CASE S # {}
  <2>1. PICK x \in S : S = {x}
    BY <1>2
  <2> QED
    BY <1>2, <2>1, FS_Singleton
<1> QED
  BY <1>1, <1>2

LEMMA ImpliesOneFrame ==
  ASSUME IInv
  PROVE  OneFrameInItsGeometry
<1> USE DEF IInv
<1> DEFINE waiting == {c \in captures : ~c.late}
           answers == {m \in mail : m.kind = "result" /\ ~Ignored(m)}
<1>1. \A c, d \in waiting : c = d
  BY DEF OneIsWaitedFor, Waiting
<1>2. \A m, n \in answers : m = n
  BY DEF OneIsInFlight, Answers
<1>3. \A f, g \in frames : f = g
  BY DEF OneIsInFlight
<1>4. frames = {} \/ answers = {}
  BY DEF OneIsInFlight, Answers
<1>5. Cardinality(waiting) <= 1
  BY <1>1, AtMostOne
<1>6. Cardinality(frames) + Cardinality(answers) <= 1
  <2>1. /\ Cardinality(frames) \in {0, 1} /\ (frames = {} => Cardinality(frames) = 0)
        /\ Cardinality(answers) \in {0, 1} /\ (answers = {} => Cardinality(answers) = 0)
    BY <1>2, <1>3, AtMostOne
  <2> QED
    BY <1>4, <2>1
<1>7. waiting # {} => session.in_flight = 0 /\ frames = {}
  BY DEF OneIsWaitedFor, Waiting, OneIsInFlight, TypeOK
<1>8. \A x \in waiting : x.run = Current /\ x.size = page.size
  BY DEF OneIsWaitedFor, Waiting
<1>9. \A x \in frames : x.run = Current /\ x.size = page.size
  BY DEF OneIsInFlight
<1>10. \A x \in answers : x.run = Current /\ x.size = page.size
  BY DEF OneIsInFlight, Answers, Ignored
<1> QED
  BY <1>5, <1>6, <1>7, <1>8, <1>9, <1>10 DEF OneFrameInItsGeometry

LEMMA ImpliesOneOwner ==
  ASSUME IInv
  PROVE  BitmapsHaveOneOwner
BY DEF IInv, OneIsInFlight, BitmapsHaveOneOwner

\* The inductive invariant holds in every reachable state of the session.
THEOREM SpecInvariant == Spec => []IInv
<1>1. Init => IInv
  BY InitEstablishes
<1>2. IInv /\ [Next]_vars => IInv'
  BY NextKeeps
<1> QED
  BY <1>1, <1>2, PTL DEF Spec

\* Every variable of the session, the page and the worker keeps its type.
THEOREM TypeCorrect == Spec => []TypeOK
<1>1. IInv => TypeOK
  BY DEF IInv
<1> QED
  BY <1>1, SpecInvariant, PTL

\* "Late async completions never reopen a stopped session": no camera is on and
\* no worker lives for a run that is over, whenever permission, play() or a
\* message arrives.
THEOREM LateCompletions == Spec => []NothingOutlivesItsRun
<1>1. IInv => NothingOutlivesItsRun
  BY DEF IInv
<1> QED
  BY <1>1, SpecInvariant, PTL

\* Every bitmap that exists is a frame the current run's worker has yet to close.
THEOREM BitmapsClosed == Spec => []BitmapsHaveOneOwner
<1>1. IInv => BitmapsHaveOneOwner
  BY ImpliesOneOwner
<1> QED
  BY <1>1, SpecInvariant, PTL

\* One capture, frame or answer at a time, in the geometry the overlay shows.
THEOREM OneFrame == Spec => []OneFrameInItsGeometry
<1>1. IInv => OneFrameInItsGeometry
  BY ImpliesOneFrame
<1> QED
  BY <1>1, SpecInvariant, PTL

\* The page shows the current run and keeps one pump scheduled while it runs.
THEOREM PageFollows == Spec => []PageShowsTheRun
<1>1. IInv => PageShowsTheRun
  BY DEF IInv
<1> QED
  BY <1>1, SpecInvariant, PTL

-----------------------------------------------------------------------------
(* What no step of the session does *)

\* A run that was started and is not current has been stopped.
Over(r) == runs[r].mode # "none" /\ r # Current

\* A run that is over is not resumed: it never becomes current, gets no worker,
\* no readiness, no camera and no bitmap, and its start can only settle.
StaysOver(r) ==
    /\ session'.run # r
    /\ runs'[r].mode = runs[r].mode
    /\ runs'[r].ready = runs[r].ready
    /\ runs'[r].worker = runs[r].worker
    /\ runs'[r].start \in {runs[r].start, "settled"}
    /\ runs'[r].presenter \in {runs[r].presenter, "done"}
    /\ runs'[r].camera # runs[r].camera => runs'[r].camera \in {"none", "stopped"}
    /\ \A c \in captures' : c.run = r => \E d \in captures : d.run = r /\ d.no = c.no

RunsStayOver ==
    \A r \in Runs : /\ runs[r].start = "settled" => runs'[r].start = "settled"
                    /\ Over(r) => StaysOver(r)

\* A step that keeps the current run and moves at most the record of one run.
LEMMA MovedRunStaysOver ==
  ASSUME IInv, NEW q \in Runs, NEW moved \in RunRecord,
         runs' = [runs EXCEPT ![q] = moved], session'.run = Current,
         \A c \in captures' : c.run # Current => \E d \in captures : d.run = c.run /\ d.no = c.no,
         runs[q].start = "settled" => moved.start = "settled",
         q # Current =>
            /\ moved.mode = runs[q].mode
            /\ moved.ready = runs[q].ready
            /\ moved.worker = runs[q].worker
            /\ moved.start \in {runs[q].start, "settled"}
            /\ moved.presenter \in {runs[q].presenter, "done"}
            /\ moved.camera # runs[q].camera => moved.camera \in {"none", "stopped"}
  PROVE  RunsStayOver
<1>1. runs \in [Runs -> RunRecord]
  BY DEF IInv, TypeOK, RunRecord
<1>2. runs'[q] = moved /\ \A r \in Runs : r # q => runs'[r] = runs[r]
  BY <1>1
<1> QED
  BY <1>2 DEF RunsStayOver, Over, StaysOver

\* A step that moves no run.
LEMMA OthersStayOver ==
  ASSUME IInv, runs' = runs, session'.run = Current,
         \A c \in captures' : c.run # Current => \E d \in captures : d.run = c.run /\ d.no = c.no
  PROVE  RunsStayOver
BY DEF RunsStayOver, Over, StaysOver

\* A stop releases the current run alone, and what replaces it is new.
LEMMA StopStaysOver ==
  ASSUME IInv, NEW after, NEW owned \in [Runs -> RunRecord], NEW waiting \in SUBSET CaptureRecord,
         StopInto(after, owned, waiting),
         after.run \notin Runs \/ runs[after.run] = NoRun,
         \A r \in Runs : runs[r].start = "settled" => owned[r].start = "settled",
         \A r \in Runs : Over(r) => owned[r] = runs[r],
         \A c \in waiting : \E d \in captures : d.run = c.run /\ d.no = c.no
  PROVE  RunsStayOver
<1>1. \A r \in Runs : r # Current => runs'[r] = owned[r]
  BY ReleasedRuns DEF StopInto
<1>2. \A r \in Runs : runs'[r].start = owned[r].start
  <2> SUFFICES ASSUME NEW r \in Runs
               PROVE  Released(owned)[r].start = owned[r].start
    BY DEF StopInto
  <2>1. owned[r] \in RunRecord
    OBVIOUS
  <2> QED
    BY <2>1 DEF Released, RunRecord
<1>3. \A r \in Runs : Over(r) => session'.run # r
  BY DEF StopInto, Over, NoRun
<1>4. \A c \in captures' : \E d \in captures : d.run = c.run /\ d.no = c.no
  <2>1. \A c \in captures' : \E w \in waiting : c = w \/ c = [w EXCEPT !.late = TRUE]
    BY DEF StopInto, Aborted
  <2> SUFFICES ASSUME NEW c \in captures'
               PROVE  \E d \in captures : d.run = c.run /\ d.no = c.no
    OBVIOUS
  <2>2. PICK w \in waiting : c = w \/ c = [w EXCEPT !.late = TRUE]
    BY <2>1
  <2>3. c.run = w.run /\ c.no = w.no
    BY <2>2 DEF CaptureRecord
  <2> QED
    BY <2>3
<1> QED
  BY <1>1, <1>2, <1>3, <1>4 DEF RunsStayOver, StaysOver, Over

LEMMA CapturesTyped ==
  ASSUME IInv
  PROVE  captures \in SUBSET CaptureRecord
BY DEF IInv, TypeOK, CaptureRecord

\* A visitor, an error or a timer stops the current run as it is.
LEMMA PlainStopStaysOver ==
  ASSUME IInv, NEW shown, NEW waiting \in SUBSET CaptureRecord,
         StopInto(NoSession(shown), runs, waiting),
         \A c \in waiting : \E d \in captures : d.run = c.run /\ d.no = c.no
  PROVE  RunsStayOver
<1>1. runs \in [Runs -> RunRecord]
  BY DEF IInv, TypeOK, RunRecord
<1>2. NoSession(shown).run \notin Runs
  BY ConstantFacts DEF NoSession
<1> QED
  BY <1>1, <1>2, StopStaysOver

LEMMA StartStaysOver ==
  ASSUME IInv, NEW r \in Runs, NEW mode \in Modes, Start(r, mode) \/ StartThrows(r, mode)
  PROVE  RunsStayOver
<1> DEFINE begun == [runs EXCEPT ![r] = [NoRun EXCEPT
                        !.mode = mode, !.start = "preparing", !.worker = "loading",
                        !.camera = IF mode = "camera" THEN "unasked" ELSE "none"]]
           thrown == [runs EXCEPT ![r] = [NoRun EXCEPT !.mode = mode, !.start = "preparing"]]
<1>1. runs \in [Runs -> RunRecord] /\ runs[r] = NoRun
  BY DEF IInv, TypeOK, RunRecord, Start, StartThrows, Fresh
<1>2. begun \in [Runs -> RunRecord] /\ thrown \in [Runs -> RunRecord]
  BY <1>1 DEF RunRecord, NoRun
<1>3. \A q \in Runs : q # r => begun[q] = runs[q] /\ thrown[q] = runs[q]
  BY <1>1
<1>4. runs[r].start # "settled" /\ ~Over(r)
  BY <1>1 DEF Over, NoRun
<1>5. CASE Start(r, mode)
  <2> DEFINE after == [NoSession("loading") EXCEPT !.run = r]
  <2>1. StopInto(after, begun, captures) /\ after.run = r
    BY <1>5 DEF Start, NoSession
  <2> HIDE DEF begun, thrown, after
  <2> QED
    BY <1>1, <1>2, <1>3, <1>4, <2>1, CapturesTyped, StopStaysOver
<1>6. CASE StartThrows(r, mode)
  <2>1. StopInto(NoSession("error"), thrown, captures) /\ NoSession("error").run \notin Runs
    BY <1>6, ConstantFacts DEF StartThrows, NoSession
  <2> HIDE DEF begun, thrown
  <2> QED
    BY <1>2, <1>3, <1>4, <2>1, CapturesTyped, StopStaysOver
<1> QED
  BY <1>5, <1>6

\* What the visitor's device does late: it is refused or stopped at once.
LEMMA CameraStaysOver ==
  ASSUME IInv, NEW r \in Runs, Ask(r) \/ Acquire(r) \/ Deny(r) \/ CameraEnds(r)
  PROVE  RunsStayOver
<1> DEFINE with(v) == [runs[r] EXCEPT !.camera = v]
           Moved(v) == runs' = [runs EXCEPT ![r] = with(v)] /\ UNCHANGED <<session, page, native>>
<1>1. runs \in [Runs -> RunRecord]
  BY DEF IInv, TypeOK, RunRecord
<1>2. ASSUME NEW v \in {"none", "asking", "live", "ended", "stopped"}, Moved(v),
             r # Current => v \in {"none", "stopped"}
      PROVE  RunsStayOver
  <2>1. /\ with(v) \in RunRecord /\ with(v).camera = v
        /\ with(v).mode = runs[r].mode /\ with(v).ready = runs[r].ready
        /\ with(v).worker = runs[r].worker /\ with(v).start = runs[r].start
        /\ with(v).presenter = runs[r].presenter
    BY <1>1 DEF RunRecord
  <2>2. session'.run = Current /\ captures' = captures
    BY <1>2 DEF native, Current
  <2> HIDE DEF with
  <2> QED
    BY <1>2, <2>1, <2>2, MovedRunStaysOver
<1>3. CASE Ask(r)
  <2>1. CASE r = Current
    BY <1>2, <1>3, <2>1 DEF Ask
  <2>2. CASE r # Current
    BY <1>2, <1>3, <2>2 DEF Ask
  <2> QED
    BY <2>1, <2>2
<1>4. CASE Acquire(r)
  <2>1. CASE r = Current
    BY <1>2, <1>4, <2>1 DEF Acquire
  <2>2. CASE r # Current
    BY <1>2, <1>4, <2>2 DEF Acquire
  <2> QED
    BY <2>1, <2>2
<1>5. CASE Deny(r)
  <2>1. CASE r = Current /\ StopInto(NoSession("error"), [runs EXCEPT ![r].camera = "none"], captures)
    <3> DEFINE owned == [runs EXCEPT ![r].camera = "none"]
    <3>1. owned \in [Runs -> RunRecord]
      BY <1>1 DEF RunRecord
    <3>2. \A q \in Runs : owned[q].start = runs[q].start /\ (Over(q) => owned[q] = runs[q])
      BY <1>1, <2>1 DEF RunRecord, Over
    <3>3. StopInto(NoSession("error"), owned, captures) /\ NoSession("error").run \notin Runs
      BY <2>1, ConstantFacts DEF NoSession
    <3> HIDE DEF owned
    <3> QED
      BY <3>1, <3>2, <3>3, CapturesTyped, StopStaysOver
  <2>2. CASE r # Current /\ Moved("none")
    BY <1>2, <2>2
  <2> QED
    BY <1>5, <2>1, <2>2 DEF Deny
<1>6. CASE CameraEnds(r)
  BY <1>2, <1>6 DEF CameraEnds, IInv, NothingOutlivesItsRun
<1> QED
  BY <1>3, <1>4, <1>5, <1>6

\* The steps of start: only the current run is presented and running.
LEMMA PresentationStaysOver ==
  ASSUME IInv, NEW r \in Runs,
         Present(r) \/ ShowCurrent(r) \/ ShowNothing(r) \/ PresentFails(r) \/ Run(r) \/ Settle(r)
  PROVE  RunsStayOver
<1>1. runs \in [Runs -> RunRecord]
  BY DEF IInv, TypeOK, RunRecord
<1>2. CASE Present(r)
  <2> DEFINE presenter == IF runs[r].mode = "sample" THEN "done" ELSE "pending"
             moved == [runs[r] EXCEPT !.start = "presenting", !.presenter = presenter]
  <2>1. /\ runs' = [runs EXCEPT ![r] = moved] /\ r = Current /\ runs[r].start # "settled"
        /\ session'.run = Current /\ captures' = captures
    BY <1>2 DEF Present, native, Current
  <2>2. presenter \in {"done", "pending"}
    OBVIOUS
  <2> HIDE DEF presenter
  <2>3. moved \in RunRecord
    BY <1>1, <2>2 DEF RunRecord
  <2> HIDE DEF moved
  <2> QED
    BY <2>1, <2>3, MovedRunStaysOver
<1>3. CASE ShowCurrent(r) \/ ShowNothing(r)
  <2> DEFINE moved == [runs[r] EXCEPT !.presenter = "done"]
  <2>1. /\ runs' = [runs EXCEPT ![r] = moved]
        /\ session'.run = Current /\ captures' = captures
    BY <1>3 DEF ShowCurrent, Show, ShowNothing, native, Current
  <2>2. /\ moved \in RunRecord /\ moved.presenter = "done"
        /\ moved.mode = runs[r].mode /\ moved.ready = runs[r].ready
        /\ moved.worker = runs[r].worker /\ moved.start = runs[r].start
        /\ moved.camera = runs[r].camera
    BY <1>1 DEF RunRecord
  <2> HIDE DEF moved
  <2> QED
    BY <2>1, <2>2, MovedRunStaysOver
<1>4. CASE PresentFails(r)
  <2> DEFINE owned == [runs EXCEPT ![r].presenter = "done"]
  <2>1. owned \in [Runs -> RunRecord]
    BY <1>1 DEF RunRecord
  <2>2. \A q \in Runs : owned[q].start = runs[q].start /\ (Over(q) => owned[q] = runs[q])
    BY <1>1, <1>4 DEF RunRecord, Over, PresentFails
  <2>3. StopInto(NoSession("error"), owned, captures) /\ NoSession("error").run \notin Runs
    BY <1>4, ConstantFacts DEF PresentFails, NoSession
  <2> HIDE DEF owned
  <2> QED
    BY <2>1, <2>2, <2>3, CapturesTyped, StopStaysOver
<1>5. CASE Run(r) \/ Settle(r)
  <2> DEFINE moved == [runs[r] EXCEPT !.start = "settled"]
  <2>1. session'.run = Current
    BY <1>5 DEF Run, Settle, Current, IInv, TypeOK
  <2>2. runs' = [runs EXCEPT ![r] = moved] /\ captures' = captures
    BY <1>5 DEF Run, Settle, native
  <2>3. /\ moved \in RunRecord /\ moved.start = "settled"
        /\ moved.mode = runs[r].mode /\ moved.ready = runs[r].ready
        /\ moved.worker = runs[r].worker /\ moved.presenter = runs[r].presenter
        /\ moved.camera = runs[r].camera
    BY <1>1 DEF RunRecord
  <2> HIDE DEF moved
  <2> QED
    BY <2>1, <2>2, <2>3, MovedRunStaysOver
<1> QED
  BY <1>2, <1>3, <1>4, <1>5

\* The worker that speaks is the current run's, and a message is heard for it.
LEMMA WorkerStaysOver ==
  ASSUME IInv,
         \/ \E r \in Runs : WorkerReady(r) \/ WorkerFails(r)
         \/ \E f \in frames : HandleFrame(f)
         \/ \E m \in mail : Receive(m)
  PROVE  RunsStayOver
<1>1. runs \in [Runs -> RunRecord]
  BY DEF IInv, TypeOK, RunRecord
<1>2. ASSUME NEW r \in Runs, WorkerReady(r) \/ WorkerFails(r)
      PROVE  RunsStayOver
  <2> DEFINE with(w) == [runs[r] EXCEPT !.worker = w]
  <2>1. PICK w \in {"ready", "failed"} : runs' = [runs EXCEPT ![r] = with(w)]
    BY <1>2 DEF WorkerReady, WorkerFails
  <2>2. r = Current /\ session'.run = Current /\ captures' = captures
    BY <1>2 DEF WorkerReady, WorkerFails, IInv, NothingOutlivesItsRun, Current
  <2>3. with(w) \in RunRecord /\ with(w).start = runs[r].start
    BY <1>1 DEF RunRecord
  <2> HIDE DEF with
  <2> QED
    BY <2>1, <2>2, <2>3, MovedRunStaysOver
<1>3. ASSUME NEW f \in frames, HandleFrame(f)
      PROVE  RunsStayOver
  BY <1>3, OthersStayOver DEF HandleFrame, Current
<1>4. ASSUME NEW m \in mail, Receive(m)
      PROVE  RunsStayOver
  <2>1. CASE Ignore(m)
    BY <2>1, OthersStayOver DEF Ignore, Current
  <2>2. CASE ReceiveReady(m)
    <3> DEFINE moved == [runs[m.run] EXCEPT !.ready = TRUE]
    <3>1. m.run \in Runs /\ m.run = Current
      BY <2>2 DEF ReceiveReady, Ignored, IInv, TypeOK
    <3>2. moved \in RunRecord /\ moved.start = runs[m.run].start
      BY <1>1, <3>1 DEF RunRecord
    <3>3. runs' = [runs EXCEPT ![m.run] = moved] /\ session'.run = Current /\ captures' = captures
      BY <2>2 DEF ReceiveReady, Current
    <3> HIDE DEF moved
    <3> QED
      BY <3>1, <3>2, <3>3, MovedRunStaysOver
  <2>3. CASE ReceiveResult(m)
    <3>1. session'.run = Current
      BY <2>3 DEF ReceiveResult, Current, IInv, TypeOK
    <3> QED
      BY <2>3, <3>1, OthersStayOver DEF ReceiveResult
  <2>4. CASE ReceiveError(m)
    BY <2>4, CapturesTyped, PlainStopStaysOver DEF ReceiveError
  <2> QED
    BY <1>4, <2>1, <2>2, <2>3, <2>4 DEF Receive
<1> QED
  BY <1>2, <1>3, <1>4

\* A bitmap is asked for by the current run alone.
LEMMA BitmapStaysOver ==
  ASSUME IInv, Capture \/ \E c \in captures : Bitmap(c) \/ CaptureTimeout(c)
  PROVE  RunsStayOver
<1>1. CASE Capture
  <2>1. runs' = runs /\ session'.run = Current
    BY <1>1 DEF Capture, BeginCapture, Current
  <2>2. \A c \in captures' : c \in captures \/ c.run = Current
    BY <1>1 DEF Capture, BeginCapture
  <2> QED
    BY <2>1, <2>2, OthersStayOver
<1>2. ASSUME NEW c \in captures, Bitmap(c) \/ CaptureTimeout(c)
      PROVE  RunsStayOver
  <2>1. CASE DiscardLate(c) \/ Discard(c)
    BY <2>1, OthersStayOver DEF DiscardLate, Discard, Current
  <2>2. CASE Submit(c)
    <3>1. session'.run = Current
      BY <2>2 DEF Submit, Current, IInv, TypeOK
    <3> QED
      BY <2>2, <3>1, OthersStayOver DEF Submit
  <2>3. CASE CaptureFails(c)
    <3>1. StopInto(NoSession("error"), runs, captures \ {c})
      BY <2>3 DEF CaptureFails
    <3> QED
      BY <3>1, CapturesTyped, PlainStopStaysOver
  <2>4. CASE CaptureTimeout(c)
    <3> DEFINE waiting == (captures \ {c}) \cup {[c EXCEPT !.late = TRUE]}
    <3>1. \A w \in waiting : \E d \in captures : d.run = w.run /\ d.no = w.no
      BY CapturesTyped DEF CaptureRecord
    <3>2. StopInto(NoSession("error"), runs, waiting)
      BY <2>4 DEF CaptureTimeout
    <3>3. waiting \in SUBSET CaptureRecord
      BY CapturesTyped DEF CaptureRecord
    <3> HIDE DEF waiting
    <3> QED
      BY <3>1, <3>2, <3>3, PlainStopStaysOver
  <2> QED
    BY <1>2, <2>1, <2>2, <2>3, <2>4 DEF Bitmap
<1> QED
  BY <1>1, <1>2

\* "Late async completions never reopen a stopped session", step by step: no
\* permission, play(), message, timer or bitmap that comes late makes a stopped
\* run current again, or gives it a worker, a camera or a bitmap, and start()
\* settles once.
THEOREM StoppedStaysStopped == Spec => [][RunsStayOver]_vars
<1>1. IInv /\ [Next]_vars => [RunsStayOver]_vars
  <2> SUFFICES ASSUME IInv, Next
               PROVE  RunsStayOver
    OBVIOUS
  <2>1. CASE User
    BY <2>1, StartStaysOver, CapturesTyped, PlainStopStaysOver DEF User, Stop
  <2>2. ASSUME NEW r \in Runs, StartUp(r) \/ CameraEnds(r)
        PROVE  RunsStayOver
    BY <2>2, CameraStaysOver, PresentationStaysOver DEF StartUp
  <2>3. CASE SeeCameraEnded \/ StartTimeout \/ ResultTimeout \/ PumpFails
    <3>1. Fail
      BY <2>3 DEF SeeCameraEnded, StartTimeout, ResultTimeout, PumpFails
    <3> QED
      BY <3>1, CapturesTyped, PlainStopStaysOver DEF Fail
  <2>4. CASE \/ \E r \in Runs : WorkerReady(r) \/ WorkerFails(r)
             \/ \E f \in frames : HandleFrame(f)
             \/ \E m \in mail : Receive(m)
    BY <2>4, WorkerStaysOver
  <2>5. CASE Capture \/ \E c \in captures : Bitmap(c) \/ CaptureTimeout(c)
    BY <2>5, BitmapStaysOver
  <2>6. CASE \E d \in Dims : Rotate(d)
    BY <2>6, OthersStayOver DEF Rotate, Current
  <2> QED
    BY <2>1, <2>2, <2>3, <2>4, <2>5, <2>6 DEF Next, Timers, Pump
<1> QED
  BY <1>1, SpecInvariant, PTL DEF Spec
=============================================================================
