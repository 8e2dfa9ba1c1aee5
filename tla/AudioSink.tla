----------------------------- MODULE AudioSink -----------------------------
(***************************************************************************)
(* The sink that plays the game's digital effects beside the music         *)
(* (skyroads/audio/sink.py): what the captured Sound Blaster has started,  *)
(* the buffer the effects are mixed in, the buffer of finished samples in  *)
(* front of the mixer, and the pump that fills both by the wall clock.     *)
(*                                                                         *)
(* A sample is the set of the effects' samples that sound in it; music and *)
(* speaker leave it as it is.  A sample of an effect is a position in it   *)
(* and the number of its entry in the device's log.  Resampling changes an *)
(* effect's length only, so the lengths here are those after it.  Time is  *)
(* counted in samples.                                                     *)
(*                                                                         *)
(* A call of pump is a step for each entry of the log it reads and one for *)
(* the rest; the game and the mixer do not move in between.                *)
(***************************************************************************)
EXTENDS Integers, Sequences

CONSTANTS
    CHUNK,          \* samples of the first pump (one frame's)
    MIN_CHUNK,      \* fewest samples of a pump (256)
    MAX_PUMP,       \* most samples of a pump (a quarter of a second)
    BUF_CAP,        \* most samples in front of the mixer (a fifth)
    SFX_CAP,        \* most samples of pending effects (a second)
    LEAD,           \* samples that start the channel (the base class's)
    Lengths,        \* the lengths of effects
    MaxLog,         \* bound: entries of the device's log
    MaxStall        \* bound: time between two pumps

ASSUME SinkAssumption ==
    /\ MIN_CHUNK \in Nat \ {0} /\ CHUNK \in Nat \ {0}
    /\ MAX_PUMP \in Nat /\ BUF_CAP \in Nat /\ SFX_CAP \in Nat \ {0}
    /\ MAX_PUMP >= MIN_CHUNK /\ MAX_PUMP >= BUF_CAP
    /\ LEAD \in 1 .. BUF_CAP /\ MIN_CHUNK <= BUF_CAP
    /\ Lengths \subseteq Nat
    /\ MaxLog \in Nat /\ MaxStall \in Nat

VARIABLES
    log,            \* the device's log: what was started, and other entries
    pcm,            \* the samples it has captured, one effect after another
    log_cursor,     \* how much of the log is read
    pcm_cursor,     \* how much of pcm is read
    sfx,            \* the effects, mixed, not yet taken
    buf,            \* finished samples in front of the mixer
    playing,        \* what the channel still has to play
    queued,         \* what it plays next; empty when there is none
    started,        \* has the channel been started?
    last_pump,      \* time since the last pump, or -1 before the first
    pumping,        \* inside a pump that has read from the log
    taken,          \* history: samples taken since an effect was mixed in
    age,            \* history: time since then, while any of it remains
    missed          \* history: of that, time no pump made samples for

device == <<log, pcm>>
channel == <<playing, queued>>
vars == <<log, pcm, log_cursor, pcm_cursor, sfx, buf, playing, queued,
          started, last_pump, pumping, taken, age, missed>>

-----------------------------------------------------------------------------
(* The device.                                                             *)

Started(entry) == entry.tag = "dma_start"
Length(e) == IF Started(log[e]) THEN log[e].len ELSE 0

\* The game starts an effect: single-cycle DMA, never waited for.
Fires(len) ==
    /\ ~pumping /\ Len(log) < MaxLog
    /\ log' = Append(log, [tag |-> "dma_start", len |-> len])
    /\ pcm' = pcm \o [k \in 1 .. len |-> <<Len(log) + 1, k>>]
    /\ UNCHANGED <<log_cursor, pcm_cursor, sfx, buf, channel, started,
                   last_pump, pumping, taken, age, missed>>

\* The log has entries of other kinds, some with a length.
LogsOther ==
    /\ ~pumping /\ Len(log) < MaxLog
    /\ log' = Append(log, [tag |-> "other", len |-> 1])
    /\ UNCHANGED <<pcm, log_cursor, pcm_cursor, sfx, buf, channel, started,
                   last_pump, pumping, taken, age, missed>>

-----------------------------------------------------------------------------
(* The effects' buffer.                                                    *)

Least(a, b) == IF a < b THEN a ELSE b
Most(a, b) == IF a < b THEN b ELSE a

\* Bug: nothing is dropped.
NewestAll(seq, cap) == seq

\* Bug: the newest samples are dropped.
Oldest(seq, cap) == SubSeq(seq, 1, Least(Len(seq), cap))

\* The last samples of a sequence, at most cap of them.
Newest(seq, cap) == SubSeq(seq, Most(Len(seq) - cap, 0) + 1, Len(seq))

\* The first n samples of a sequence, filled up with silence, and the rest.
Padded(seq, n) == [k \in 1 .. n |-> IF k <= Len(seq) THEN seq[k] ELSE {}]
Rest(seq, n) == SubSeq(seq, n + 1, Len(seq))

\* A slice of Python: it ends where the sequence does.
Sliced(seq, first, last) == SubSeq(seq, first + 1, Least(last, Len(seq)))

\* _enqueue_sfx: an effect is mixed into the front of what is pending.
Mixed(pending, block) ==
    Newest([k \in 1 .. Most(Len(pending), Len(block)) |->
                (IF k <= Len(pending) THEN pending[k] ELSE {})
                    \cup (IF k <= Len(block) THEN {block[k]} ELSE {})],
           SFX_CAP)

\* Bug: every entry moves the cursor of the samples.
PcmAdvanceAlways(entry) == entry.len

\* Only a started effect has samples.
PcmAdvance(entry) == IF Started(entry) THEN entry.len ELSE 0

\* A round of _drain_sb: the next entry of the log.
Drains ==
    /\ log_cursor < Len(log)
    /\ log_cursor' = log_cursor + 1
    /\ LET entry == log[log_cursor + 1]
           next == pcm_cursor + PcmAdvance(entry)
       IN  /\ pcm_cursor' = next
           /\ sfx' = IF Started(entry) THEN Mixed(sfx, Sliced(pcm, pcm_cursor, next))
                     ELSE sfx
    /\ pumping' = TRUE
    /\ taken' = Append(taken, 0) /\ age' = Append(age, 0) /\ missed' = Append(missed, 0)
    /\ UNCHANGED <<device, buf, channel, started, last_pump>>

-----------------------------------------------------------------------------
(* The pump.                                                               *)

\* As many samples as time has passed, within limits.
Samples ==
    IF last_pump = -1 THEN CHUNK
    ELSE Most(MIN_CHUNK, Least(last_pump, MAX_PUMP))

\* What lies in front of the mixer once a pump has added to it.
Filled(samples) == Newest(buf \o samples, BUF_CAP)

\* The channel has not been started: it is when there is enough to play.
Starts(filled) ==
    /\ ~started
    /\ Len(filled) >= LEAD
    /\ playing' = filled /\ buf' = <<>>
    /\ started' = TRUE
    /\ UNCHANGED queued

Primes(filled) ==
    /\ ~started
    /\ Len(filled) < LEAD
    /\ buf' = filled
    /\ UNCHANGED <<channel, started>>

\* Bug: the sink takes the idle channel for a started one.
StartedStill == started

\* The channel ran dry: it is started anew by a later pump.
StartedAfterIdle == FALSE

Underruns(filled) ==
    /\ started /\ playing = <<>>
    /\ started' = StartedAfterIdle
    /\ buf' = filled
    /\ UNCHANGED channel

\* The channel has room for one more sound: it gets all there is.
Queues(filled) ==
    /\ started /\ playing # <<>> /\ queued = <<>>
    /\ Len(filled) >= MIN_CHUNK
    /\ queued' = filled /\ buf' = <<>>
    /\ UNCHANGED <<playing, started>>

Holds(filled) ==
    /\ started /\ playing # <<>> /\ queued # <<>>
    /\ buf' = filled
    /\ UNCHANGED <<channel, started>>

\* Is an effect under way: begun by an earlier pump, and not yet taken whole?
UnderWay(e) == taken[e] > 0 /\ taken[e] < Length(e)

\* History: a pump makes up for MAX_PUMP at most.  The time beyond that is never
\* made up, and puts off what is left of the effects under way.
Notes ==
    /\ taken' = [e \in DOMAIN taken |-> Least(taken[e] + Samples, Length(e))]
    /\ missed' = [e \in DOMAIN missed |->
                    missed[e] + IF UnderWay(e) THEN Most(last_pump - MAX_PUMP, 0) ELSE 0]

\* The rest of a pump, with the log read to its end.
Feeds ==
    /\ log_cursor = Len(log)
    /\ LET filled == Filled(Padded(sfx, Samples)) IN
        \/ Starts(filled)
        \/ Primes(filled)
        \/ Underruns(filled)
        \/ Queues(filled)
        \/ Holds(filled)
    /\ sfx' = Rest(sfx, Samples)
    /\ last_pump' = 0
    /\ pumping' = FALSE
    /\ Notes
    /\ UNCHANGED <<device, log_cursor, pcm_cursor, age>>

Pump == Drains \/ Feeds

-----------------------------------------------------------------------------
\* Is any of an effect still to be heard?
Remains(e) ==
    \E seq \in {sfx, buf, playing, queued} :
        \E k \in 1 .. Len(seq) : \E s \in seq[k] : s[1] = e

\* The mixer plays a sample; the sound that waits follows the one that ends.
Plays ==
    /\ ~pumping /\ last_pump < MaxStall
    /\ last_pump' = IF last_pump = -1 THEN -1 ELSE last_pump + 1
    /\ IF Len(playing) > 1
       THEN playing' = Tail(playing) /\ UNCHANGED queued
       ELSE playing' = queued /\ queued' = <<>>
    /\ UNCHANGED <<device, log_cursor, pcm_cursor, sfx, buf, started, pumping, taken, missed>>
    /\ age' = [e \in DOMAIN age |-> IF Remains(e)' THEN age[e] + 1 ELSE 0]

Init ==
    /\ log = <<>> /\ pcm = <<>>
    /\ log_cursor = 0 /\ pcm_cursor = 0
    /\ sfx = <<>> /\ buf = <<>>
    /\ playing = <<>> /\ queued = <<>> /\ started = FALSE
    /\ last_pump = -1 /\ pumping = FALSE
    /\ taken = <<>> /\ age = <<>> /\ missed = <<>>

Next ==
    \/ \E len \in Lengths : Fires(len)
    \/ LogsOther
    \/ Pump
    \/ Plays

Spec == Init /\ [][Next]_vars

\* The viewer pumps once for every frame it presents.
FairSpec == Spec /\ WF_vars(Pump)

-----------------------------------------------------------------------------
(* Properties.                                                             *)

Entry == [tag : {"dma_start", "other"}, len : Nat]
Sample == (1 .. MaxLog) \X (Nat \ {0})

Holding(seq, cap) == seq \in Seq(SUBSET Sample) /\ Len(seq) <= cap

\* The buffers never pass their caps (MAX_BUFFER_S, MAX_SFX_S), however the
\* pumps fall and the effects pile up, and so no sound given to the channel
\* is longer than the cap.
TypeOK ==
    /\ log \in Seq(Entry) /\ Len(log) <= MaxLog /\ pcm \in Seq(Sample)
    /\ log_cursor \in 0 .. Len(log) /\ pcm_cursor \in 0 .. Len(pcm)
    /\ Holding(sfx, SFX_CAP) /\ Holding(buf, BUF_CAP)
    /\ Holding(playing, BUF_CAP) /\ Holding(queued, BUF_CAP)
    /\ started \in BOOLEAN
    /\ last_pump \in -1 .. MaxStall /\ pumping \in BOOLEAN
    /\ taken \in Seq(Nat) /\ age \in Seq(Nat) /\ missed \in Seq(Nat)
    /\ Len(taken) = log_cursor /\ Len(age) = log_cursor /\ Len(missed) = log_cursor

\* As long as no effect is longer than the cap, mixing neither loses, moves nor
\* borrows a sample: each effect that was read lies in the pending buffer from
\* the position it has been played to, whatever was mixed in after it.
EffectsIntact ==
    (\A e \in 1 .. Len(log) : Length(e) <= SFX_CAP) =>
        /\ \A k \in 1 .. Len(sfx) :
            sfx[k] = {<<e, taken[e] + k>> : e \in
                        {d \in DOMAIN taken : taken[d] + k <= Length(d)}}
        /\ \A e \in DOMAIN taken : Len(sfx) >= Length(e) - taken[e]

\* A sample of an effect is heard less than two buffers after its time, counted
\* from the pump that read the effect, but for the time that stalls within the
\* effect lasted beyond what a pump makes up for.  A stall puts off the rest of
\* the effect by that time and no more: what waits in the buffers, slow pumps
\* and restarts of the channel add no delay that grows (the "resync to now" of
\* sink.py), whereas no later pump catches up.
HeardSoon ==
    \A k \in 1 .. Len(playing) : \A s \in playing[k] :
        age[s[1]] + k - s[2] < 2 * BUF_CAP + missed[s[1]]

\* A channel that has run dry plays again.
SoundReturns == playing = <<>> ~> playing # <<>>
=============================================================================
