----------------------------- MODULE FramePark -----------------------------
(***************************************************************************)
(* Where a displayed frame ends.  The game paces itself off the tick       *)
(* counter its timer interrupt bumps, and a frame brings its interrupts    *)
(* before it runs: a loop that waits for a tick cannot leave until the     *)
(* next frame.  Three drivers find the end of the frame at the heads of    *)
(* six such loops:                                                         *)
(*                                                                         *)
(*   "generated"    skyroads/vmless_backend.py: an observer after the      *)
(*                  comparison parks by an exception when a head is        *)
(*                  reached again in a frame;                              *)
(*   "interpreter"  skyroads/pacing.py: hooks on the six heads;            *)
(*   "cpuless"      skyroads/cpuless_driver.py: a callback, which runs the *)
(*                  next frame's interrupts in place and returns; the      *)
(*                  loops at 22F8 and 4468 call it twice a round, once on  *)
(*                  either side of their comparison.                       *)
(*                                                                         *)
(* Loops at 0EF8, 22F8 and 47CD are empty.  The body of 434A blends and    *)
(* presents a palette, that of 4866 draws a menu scene, that of 4468 polls *)
(* the keyboard; those of 434A and 4866 run before their test.             *)
(***************************************************************************)
EXTENDS Naturals

CONSTANTS
    Providers,  \* the drivers considered
    IRQS,       \* timer interrupts of a frame (6)
    MaxSpan,    \* bound: ticks a wait may be asked to last
    MaxVisits   \* bound: waits the game begins within one frame

ASSUME FrameAssumption ==
    /\ Providers \subseteq {"generated", "interpreter", "cpuless"}
    /\ IRQS \in Nat \ {0}
    /\ MaxSpan \in Nat \ {0, 1}
    /\ MaxVisits \in Nat

VARIABLES
    provider,  \* the driver of this run
    frame,     \* "running", or how the last frame ended ("none" before one)
    pc,        \* "free" between two waits, or where in a wait: see Places
    head,      \* the head of the wait the game is in, or "none"
    span,      \* the ticks this wait was asked to last,
    left,      \* and those it still needs
    seen,      \* _seen, or the _skyroads_*_seen flags that are set
    earlier,   \* history: heads of the waits left in this semantic frame
    ran,       \* history: bodies the wait began since the last interrupts
    held,      \* history: bodies the wait began in this semantic frame
    visits     \* history: waits begun in this frame, for MaxVisits

wait == <<head, span, left>>
vars == <<provider, frame, pc, wait, seen, earlier, ran, held, visits>>
history == <<earlier, ran, held, visits>>

Empty == {"0EF8", "22F8", "47CD"}
SideEffecting == {"434A", "4468", "4866"}
SEMANTIC_FRAME_HEADS == Empty \cup SideEffecting

\* The callback's names for the points at which these two loops also call it.
Doubled == {"22F8", "4468"}
Seams == SEMANTIC_FRAME_HEADS \cup {"22FB", "4465"}

\* On a head; past the first call of a doubled one, before its comparison;
\* behind the comparison, with flags that say the wait is over or not; in a
\* body, which may be the wait's last.
Ahead == {"head", "compare"}
Behind == {"over", "waiting"}
Bodies == {"body", "final"}
Places == {"free"} \cup Ahead \cup Behind \cup Bodies

\* Histories of bodies saturate here: three is already one too many.
BodyCap == 3
Counted(n) == IF n < BodyCap THEN n + 1 ELSE n

\* Ticks a wait may need when it begins: 0EF8 starts from the present tick,
\* 22F8 may have been overtaken, 47CD wants two, 4866 a fixed number.
Spans(h) ==
    {ticks \in 0 .. MaxSpan :
        /\ h = "0EF8" => ticks = 1
        /\ h = "22F8" => ticks <= 1
        /\ h = "47CD" => ticks <= 2
        /\ h = "4866" => ticks = MaxSpan}

TypeOK ==
    /\ provider \in Providers
    /\ frame \in {"none", "running", "frame-park", "input-block", "guest-fallback"}
    /\ pc \in Places
    /\ head \in SEMANTIC_FRAME_HEADS \cup {"none"}
    /\ head = "none" <=> pc = "free"
    /\ span \in 0 .. MaxSpan /\ left \in 0 .. MaxSpan
    /\ seen \in SUBSET (IF provider = "cpuless" THEN Seams ELSE SEMANTIC_FRAME_HEADS)
    /\ earlier \in SUBSET SEMANTIC_FRAME_HEADS
    /\ ran \in 0 .. BodyCap /\ held \in 0 .. BodyCap
    /\ visits \in 0 .. MaxVisits

-----------------------------------------------------------------------------
(* The frame, seen from the game.                                          *)

\* Bug: more interrupts than ticks wanted are counted below zero.
TickedBelow(ticks) == ticks - IRQS

\* The timer interrupts of a frame.
Ticked(ticks) == IF ticks > IRQS THEN ticks - IRQS ELSE 0

\* Bug: a frame after a diagnostic slice starts with no head seen.
SeenCleared == {}

\* Bug: the heads seen are cleared after a console wait only.
SeenKept == IF frame = "input-block" THEN {} ELSE seen

\* A diagnostic slice is not the end of the generated driver's frame.
SeenAtFrame ==
    IF provider = "generated" /\ frame = "guest-fallback" THEN seen ELSE {}

\* A new frame begins: its interrupts, then the heads a driver remembers.
Fresh(heads) ==
    /\ left' = Ticked(left)
    /\ UNCHANGED <<head, span>>
    /\ seen' = heads
    /\ ran' = 0
    /\ visits' = 0

\* frame(): up to the interrupts; begin_frame_park and the same for pacing.
FrameBegins ==
    /\ frame # "running"
    /\ frame' = "running"
    /\ Fresh(SeenAtFrame)
    /\ held' = IF frame = "guest-fallback" THEN held ELSE 0
    /\ earlier' = IF frame = "guest-fallback" THEN earlier ELSE {}
    /\ UNCHANGED <<provider, pc>>

FrameEnds(kind) ==
    /\ frame' = kind
    /\ UNCHANGED <<provider, wait, seen, history>>

\* The callback's frame: nothing is unwound, the game goes on behind it.
AdvancesInPlace ==
    /\ Fresh({})
    /\ held' = 0
    /\ earlier' = {}
    /\ UNCHANGED <<provider, frame>>

-----------------------------------------------------------------------------
(* The game's waits.                                                       *)

\* The game begins a wait.
ReachWait ==
    /\ frame = "running" /\ pc = "free"
    /\ visits < MaxVisits
    /\ head' \in SEMANTIC_FRAME_HEADS
    /\ span' \in Spans(head')
    /\ left' = span'
    /\ pc' = "head"
    /\ ran' = 0 /\ held' = 0
    /\ visits' = visits + 1
    /\ UNCHANGED <<provider, frame, seen, earlier>>

Leave ==
    /\ pc' = "free"
    /\ head' = "none" /\ span' = 0 /\ left' = 0
    /\ earlier' = earlier \cup {head}
    /\ UNCHANGED <<provider, frame, seen, ran, held, visits>>

BodyBegins(body) ==
    /\ pc' = body
    /\ ran' = Counted(ran) /\ held' = Counted(held)
    /\ UNCHANGED <<provider, frame, wait, seen, earlier, visits>>

BackToHead ==
    /\ pc' = "head"
    /\ UNCHANGED <<provider, frame, wait, seen, history>>

LeaveOrRetry ==
    \/ pc = "over" /\ Leave
    \/ pc = "waiting" /\ BackToHead

At(h) == frame = "running" /\ pc \in Behind /\ head = h

DepartureBranch == At("0EF8") /\ LeaveOrRetry
PacingBranch == At("22F8") /\ LeaveOrRetry
MenuAnimBranch == At("47CD") /\ LeaveOrRetry

\* 446C: leave when over or when a key is down, else poll and come back.
FadeWaitBranch ==
    /\ At("4468")
    /\ \/ Leave
       \/ pc = "waiting" /\ BodyBegins("body")

\* 434E: the fraction is taken from the tick; at its end, or with a key down,
\* the blend that runs now is the last.
FadeBlendBranch ==
    /\ At("434A")
    /\ \/ BodyBegins("final")
       \/ left > 0 /\ BodyBegins("body")

\* 4869: likewise, for the scene's progress.
MenuSceneBranch ==
    /\ At("4866")
    /\ \/ BodyBegins("final")
       \/ left > 0 /\ BodyBegins("body")

Branch == DepartureBranch \/ PacingBranch \/ MenuAnimBranch
              \/ FadeWaitBranch \/ FadeBlendBranch \/ MenuSceneBranch

BodyEnds ==
    /\ frame = "running"
    /\ \/ pc = "final" /\ Leave
       \/ pc = "body" /\ BackToHead

-----------------------------------------------------------------------------
(* What the drivers do at a head.                                          *)

AtHead(p) == provider = p /\ frame = "running" /\ pc = "head"

\* The comparison of a head, by its flags.
Compared == IF left = 0 THEN "over" ELSE "waiting"

\* Bug: the observer parks on arrival.
PassesNever(h) == FALSE

\* The first arrival of a frame passes.
Passes(h) == h \notin seen

\* Bug: the head that was passed is not remembered.
MarkedNot(h) == seen

Marked(h) == seen \cup {h}

\* Bug: the frame resumes behind the comparison that was made before it.
ParksBehind == Compared

\* CS:IP is set back on the head before the stack is unwound.
ParksAt == "head"

\* VmlessDriver._boundary: the comparison, then the observer.
GeneratedArrives ==
    /\ AtHead("generated")
    /\ \/ /\ Passes(head)
          /\ pc' = Compared
          /\ seen' = Marked(head)
          /\ UNCHANGED <<provider, frame, wait, history>>
       \/ /\ ~Passes(head)
          /\ pc' = ParksAt
          /\ FrameEnds("frame-park")

AtSeam == provider = "cpuless" /\ frame = "running" /\ pc \in Ahead

\* The point of the loop at which the callback is called.
Seam ==
    IF pc = "compare" /\ head = "22F8" THEN "22FB"
    ELSE IF pc = "head" /\ head = "4468" THEN "4465" ELSE head

\* CPUlessFrameDriver.boundary: the second arrival runs the next frame's
\* interrupts and returns, where the comparison was made, behind it.
CallbackArrives ==
    /\ AtSeam
    /\ pc' = IF pc = "head" /\ head \in Doubled THEN "compare" ELSE Compared
    /\ \/ /\ Passes(Seam)
          /\ seen' = Marked(Seam)
          /\ UNCHANGED <<provider, frame, wait, history>>
       \/ /\ ~Passes(Seam)
          /\ AdvancesInPlace

\* What a hook of pacing.py does: run on behind the head, or park on it.
HookRuns(heads) ==
    /\ pc' = Compared
    /\ seen' = heads
    /\ UNCHANGED <<provider, frame, wait, history>>

HookParks ==
    /\ FrameEnds("frame-park")
    /\ UNCHANGED pc

\* park_pacing_spin, park_menu_anim_wait, park_road_departure_wait.
ParkEmptyWait ==
    /\ head \in Empty
    /\ \/ left > 0 /\ HookParks
       \/ left = 0 /\ HookRuns(seen)

\* A fade without duration neither parks nor counts as seen.
ParkFadeBlend ==
    /\ head = "434A"
    /\ \/ span = 0 /\ HookRuns(seen \ {"434A"})
       \/ span > 0 /\ "434A" \in seen /\ HookParks
       \/ span > 0 /\ "434A" \notin seen /\ HookRuns(seen \cup {"434A"})

ParkFadeWait ==
    /\ head = "4468"
    /\ \/ left = 0 /\ HookRuns(seen \ {"4468"})
       \/ left > 0 /\ "4468" \in seen /\ HookParks
       \/ left > 0 /\ "4468" \notin seen /\ HookRuns(seen \cup {"4468"})

ParkMenuScene ==
    /\ head = "4866"
    /\ \/ "4866" \in seen /\ HookParks
       \/ "4866" \notin seen /\ HookRuns(seen \cup {"4866"})

InterpreterArrives ==
    /\ AtHead("interpreter")
    /\ ParkEmptyWait \/ ParkFadeBlend \/ ParkFadeWait \/ ParkMenuScene

Arrives == GeneratedArrives \/ CallbackArrives \/ InterpreterArrives

\* A console read without a key ends the frame ...
InputBlocks ==
    /\ provider # "cpuless" /\ frame = "running" /\ pc = "free"
    /\ FrameEnds("input-block")
    /\ UNCHANGED pc

\* ... or, with no frame to unwind, runs the next one's interrupts in place.
\* So does a second arrival in one of the loops that are no waits of these six
\* (0F1A, 20AD, 2317), where the generated code calls the callback as well.
BlockingRead ==
    /\ provider = "cpuless" /\ frame = "running" /\ pc = "free"
    /\ AdvancesInPlace
    /\ UNCHANGED pc

\* The budget of instructions is used up: between two functions, in a body,
\* and for the interpreter also on a head.
Slice ==
    /\ provider # "cpuless" /\ frame = "running"
    /\ pc \in {"free"} \cup Bodies \/ (provider = "interpreter" /\ pc = "head")
    /\ FrameEnds("guest-fallback")
    /\ UNCHANGED pc

-----------------------------------------------------------------------------
Init ==
    /\ provider \in Providers
    /\ frame = IF provider = "cpuless" THEN "running" ELSE "none"
    /\ pc = "free" /\ head = "none" /\ span = 0 /\ left = 0
    /\ seen = {} /\ earlier = {}
    /\ ran = 0 /\ held = 0 /\ visits = 0

InFrame == ReachWait \/ Branch \/ BodyEnds \/ Arrives
               \/ InputBlocks \/ BlockingRead \/ Slice

Next == FrameBegins \/ InFrame

Spec == Init /\ [][Next]_vars

\* Frames keep coming and run to their end; a slice always gets somewhere, so
\* bodies end and heads are reached however often the budget runs out.
FairSpec ==
    /\ Spec
    /\ WF_vars(FrameBegins) /\ WF_vars(InFrame)
    /\ SF_vars(Branch) /\ SF_vars(BodyEnds) /\ SF_vars(Arrives)

-----------------------------------------------------------------------------
(* Properties.                                                             *)

\* A wait's body runs once for the ticks of a frame.  The generated driver
\* also keeps this over the slices of an unfinished frame ("otherwise a long
\* body ... runs twice", vmless_backend.py:178); the callback driver, which
\* returns into a body it has not counted, may run it twice.
BodyOncePerFrame ==
    /\ ran <= IF provider = "cpuless" THEN 2 ELSE 1
    /\ provider = "generated" => held <= 1

\* The branch behind a head acts on a comparison made after the frame's
\* interrupts (vmless_backend.py:161).  Only the callback driver returns
\* behind an older one, and then only to a body too many, never to a body
\* too few.
ComparesAfterInterrupts ==
    /\ pc = "over" => left = 0
    /\ pc = "waiting" => left > 0 \/ provider = "cpuless"

\* A frame is shown at the head of a wait only once the wait's body has run in
\* it ("side-effecting fade waits run exactly one body before parking",
\* pacing.py:5; the all-black fade of vmless_backend.py:115), unless another
\* wait at the same head was left in the same frame: then its successor is
\* taken for its second arrival.
ParksAtHead ==
    \/ frame = "running" /\ frame' = "frame-park"
    \/ AtSeam /\ Seam \in seen

BodyBeforePark ==
    [][ParksAtHead /\ head \in SideEffecting
          => held >= 1 \/ head \in earlier]_vars

\* A frame of an unwinding driver ends, whatever waits it begins.
FramesEnd == (frame = "running" /\ provider # "cpuless") ~> (frame # "running")

\* A wait ends once its ticks have come, with every driver: no park, slice or
\* remembered head keeps the game in it.
WaitsEnd == (pc # "free") ~> (pc = "free")
=============================================================================
