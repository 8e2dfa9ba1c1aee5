-------------------------- MODULE AudioSink_proofs --------------------------
(***************************************************************************)
(* The safety of the audio sink, for every size of its buffers and every   *)
(* limit of its pumps: the buffers keep their caps, no mixing damages an   *)
(* effect, and nothing but a stall's time beyond what a pump makes up for  *)
(* adds to the delay of the buffers.                                       *)
(*                                                                         *)
(* HeardSoon speaks of what the channel plays; to keep it, the invariant   *)
(* follows a sample on its way there.  In the pending effects a sample is  *)
(* no later than its effect was when it was mixed in (SfxInTime); in front *)
(* of the mixer it is later by what lies behind it (BufInTime), which the  *)
(* cap bounds; and what waits in the channel counts what plays before it   *)
(* (QueuedInTime).                                                         *)
(***************************************************************************)
EXTENDS AudioSink, SequenceTheorems, TLAPS

-----------------------------------------------------------------------------
(* The inductive invariant.                                                *)

\* The captured samples are the effects of the log, one after another, and the
\* cursors stand at the same effect.
PcmLayout ==
    \E at \in [1 .. Len(log) + 1 -> 0 .. Len(pcm)] :
        /\ \A e \in 1 .. Len(log) :
            /\ at[e + 1] = at[e] + Length(e)
            /\ \A k \in 1 .. Length(e) : pcm[at[e] + k] = <<e, k>>
        /\ at[Len(log) + 1] = Len(pcm)
        /\ at[log_cursor + 1] = pcm_cursor

IsRead(seq) ==
    \A k \in 1 .. Len(seq) : \A s \in seq[k] :
        s[1] <= log_cursor /\ s[2] <= Length(s[1])

\* Only effects that were read lie in the buffers.
OnlyRead == IsRead(sfx) /\ IsRead(buf) /\ IsRead(playing) /\ IsRead(queued)

\* A pump takes some of every effect it reads; nothing moves before the first
\* pump; the channel plays only while it is started, and queues only while it
\* plays.
Order ==
    /\ ~pumping => \A e \in 1 .. log_cursor : Length(e) > 0 => taken[e] > 0
    /\ last_pump = -1 => buf = <<>> /\ playing = <<>> /\ queued = <<>>
    /\ last_pump = -1 /\ ~pumping => sfx = <<>>
    /\ ~started => playing = <<>>
    /\ playing = <<>> => queued = <<>>

\* How old an effect is, but for the time that no pump made samples for.
Late(e) == age[e] - missed[e]

\* A pending sample is never behind its place in what is left of its effect, and
\* its effect is no older than that place tells.
SfxInTime ==
    \A k \in 1 .. Len(sfx) : \A s \in sfx[k] :
        /\ taken[s[1]] + k <= s[2]
        /\ IF taken[s[1]] = 0 THEN Late(s[1]) <= 0
           ELSE Late(s[1]) - last_pump <= s[2] - k - 1

\* In front of the mixer a sample is late by what lies behind it.
BufInTime ==
    \A k \in 1 .. Len(buf) : \A s \in buf[k] :
        Late(s[1]) - last_pump <= s[2] - 1 + Len(buf) - k

\* What plays is in time, and what waits is when its turn comes.
ChannelInTime ==
    \A k \in 1 .. Len(playing) : \A s \in playing[k] :
        Late(s[1]) + k - s[2] < 2 * BUF_CAP

QueuedInTime ==
    \A k \in 1 .. Len(queued) : \A s \in queued[k] :
        Late(s[1]) + Len(playing) + k - s[2] < 2 * BUF_CAP

Layout == TypeOK /\ PcmLayout /\ OnlyRead /\ Order

InTime == SfxInTime /\ BufInTime /\ QueuedInTime /\ ChannelInTime

IInv == Layout /\ EffectsIntact /\ InTime

-----------------------------------------------------------------------------
(* The operators of the model.                                             *)

\* A function on 1 .. n is a sequence of length n.
LEMMA FunctionIsSeq ==
    ASSUME NEW S, NEW n \in Nat, NEW f \in [1 .. n -> S]
    PROVE  f \in Seq(S) /\ Len(f) = n
<1>1. f \in Seq(S)
    BY SeqDef
<1>2. 1 .. n = 1 .. Len(f) /\ Len(f) \in Nat
    BY <1>1, LenProperties
<1> QED
    BY <1>1, <1>2

\* How many samples a cap takes away.
Dropped(seq, cap) == Most(Len(seq) - cap, 0)

\* The newest samples: a sequence without its first ones.
LEMMA NewestIs ==
    ASSUME NEW S, NEW seq \in Seq(S), NEW cap \in Nat
    PROVE  /\ Dropped(seq, cap) \in 0 .. Len(seq)
           /\ Newest(seq, cap) \in Seq(S)
           /\ Len(Newest(seq, cap)) = Len(seq) - Dropped(seq, cap)
           /\ Len(Newest(seq, cap)) <= cap
           /\ \A k \in 1 .. Len(seq) - Dropped(seq, cap) :
                Newest(seq, cap)[k] = seq[k + Dropped(seq, cap)]
<1>a. PICK gone : gone = Dropped(seq, cap)
    OBVIOUS
<1>1. Len(seq) \in Nat
    BY LenProperties
<1>2. gone \in 0 .. Len(seq) /\ Len(seq) - gone <= cap
    BY <1>a, <1>1 DEF Dropped, Most
<1>3. \A k \in gone + 1 .. Len(seq) : seq[k] \in S
    BY <1>2, ElementOfSeq
<1>4. /\ SubSeq(seq, gone + 1, Len(seq)) \in Seq(S)
      /\ Len(SubSeq(seq, gone + 1, Len(seq))) = Len(seq) - gone
      /\ \A k \in 1 .. Len(seq) - gone :
            SubSeq(seq, gone + 1, Len(seq))[k] = seq[k + gone]
    BY <1>1, <1>2, <1>3, SubSeqProperties
<1>5. Newest(seq, cap) = SubSeq(seq, gone + 1, Len(seq))
    BY <1>a DEF Newest, Dropped
<1> QED
    BY <1>a, <1>2, <1>4, <1>5

\* What a pump takes of the pending effects.
LEMMA PaddedIs ==
    ASSUME NEW S, NEW seq \in Seq(SUBSET S), NEW n \in Nat
    PROVE  /\ Padded(seq, n) \in Seq(SUBSET S)
           /\ Len(Padded(seq, n)) = n
           /\ \A k \in 1 .. n :
                Padded(seq, n)[k] = IF k <= Len(seq) THEN seq[k] ELSE {}
<1>1. \A k \in 1 .. n : k <= Len(seq) => seq[k] \in SUBSET S
    BY LenProperties, ElementOfSeq
<1>2. Padded(seq, n) \in [1 .. n -> SUBSET S]
    BY <1>1 DEF Padded
<1> QED
    BY <1>2, FunctionIsSeq DEF Padded

\* What it leaves of them.
LEMMA RestIs ==
    ASSUME NEW S, NEW seq \in Seq(S), NEW n \in Nat
    PROVE  /\ Rest(seq, n) \in Seq(S)
           /\ Len(Rest(seq, n)) = Most(Len(seq) - n, 0)
           /\ \A k \in 1 .. Len(seq) - n : Rest(seq, n)[k] = seq[k + n]
<1>1. Len(seq) \in Nat
    BY LenProperties
<1>2. \A k \in n + 1 .. Len(seq) : seq[k] \in S
    BY <1>1, ElementOfSeq
<1>3. /\ SubSeq(seq, n + 1, Len(seq)) \in Seq(S)
      /\ Len(SubSeq(seq, n + 1, Len(seq))) = Most(Len(seq) - n, 0)
      /\ \A k \in 1 .. Len(seq) - n : SubSeq(seq, n + 1, Len(seq))[k] = seq[k + n]
    BY <1>1, <1>2, SubSeqProperties DEF Most
<1> QED
    BY <1>3 DEF Rest

\* What is pending once an effect is mixed in: the newest of both together.
LEMMA MixedIs ==
    ASSUME NEW S, NEW pending \in Seq(SUBSET S), NEW block \in Seq(S), SFX_CAP \in Nat
    PROVE  /\ Mixed(pending, block) \in Seq(SUBSET S)
           /\ Len(Mixed(pending, block)) <= SFX_CAP
           /\ \E long, gone \in Nat :
                /\ long = Most(Len(pending), Len(block))
                /\ gone = Most(long - SFX_CAP, 0)
                /\ Len(Mixed(pending, block)) = long - gone
                /\ \A k \in 1 .. long - gone :
                    Mixed(pending, block)[k] =
                        (IF k + gone <= Len(pending) THEN pending[k + gone] ELSE {})
                            \cup (IF k + gone <= Len(block) THEN {block[k + gone]} ELSE {})
<1>a. PICK long : long = Most(Len(pending), Len(block))
    OBVIOUS
<1>b. PICK gone : gone = Most(long - SFX_CAP, 0)
    OBVIOUS
<1> DEFINE both == [k \in 1 .. long |->
                        (IF k <= Len(pending) THEN pending[k] ELSE {})
                            \cup (IF k <= Len(block) THEN {block[k]} ELSE {})]
<1>1. Len(pending) \in Nat /\ Len(block) \in Nat /\ long \in Nat
    BY <1>a, LenProperties DEF Most
<1>2. \A k \in 1 .. long : k <= Len(pending) => pending[k] \in SUBSET S
    BY <1>1, ElementOfSeq
<1>3. \A k \in 1 .. long : k <= Len(block) => block[k] \in S
    BY <1>1, ElementOfSeq
<1>4. both \in [1 .. long -> SUBSET S]
    BY <1>2, <1>3
<1>5. both \in Seq(SUBSET S) /\ Len(both) = long
    BY <1>1, <1>4, FunctionIsSeq
<1>6. Mixed(pending, block) = Newest(both, SFX_CAP)
    BY <1>a DEF Mixed
<1>7. \A k \in 1 .. long :
            both[k] = (IF k <= Len(pending) THEN pending[k] ELSE {})
                            \cup (IF k <= Len(block) THEN {block[k]} ELSE {})
    OBVIOUS
<1> HIDE DEF both
<1>8. gone = Dropped(both, SFX_CAP)
    BY <1>5, <1>b DEF Dropped
<1>9. /\ gone \in 0 .. Len(both)
      /\ Newest(both, SFX_CAP) \in Seq(SUBSET S)
      /\ Len(Newest(both, SFX_CAP)) = Len(both) - gone
      /\ Len(Newest(both, SFX_CAP)) <= SFX_CAP
      /\ \A k \in 1 .. Len(both) - gone : Newest(both, SFX_CAP)[k] = both[k + gone]
    <2> DEFINE T == SUBSET S
    <2>1. both \in Seq(T)
        BY <1>5
    <2> HIDE DEF T
    <2>2. /\ Dropped(both, SFX_CAP) \in 0 .. Len(both)
          /\ Newest(both, SFX_CAP) \in Seq(T)
          /\ Len(Newest(both, SFX_CAP)) = Len(both) - Dropped(both, SFX_CAP)
          /\ Len(Newest(both, SFX_CAP)) <= SFX_CAP
          /\ \A k \in 1 .. Len(both) - Dropped(both, SFX_CAP) :
                Newest(both, SFX_CAP)[k] = both[k + Dropped(both, SFX_CAP)]
        BY <2>1, NewestIs
    <2> QED
        BY <1>8, <2>2 DEF T
<1>10. \A k \in 1 .. long - gone : k + gone \in 1 .. long
    BY <1>1, <1>5, <1>9
<1>11. \A k \in 1 .. long - gone :
            Mixed(pending, block)[k] =
                (IF k + gone <= Len(pending) THEN pending[k + gone] ELSE {})
                    \cup (IF k + gone <= Len(block) THEN {block[k + gone]} ELSE {})
    BY <1>5, <1>6, <1>7, <1>9, <1>10
<1>12. /\ Mixed(pending, block) \in Seq(SUBSET S)
       /\ Len(Mixed(pending, block)) <= SFX_CAP
       /\ Len(Mixed(pending, block)) = long - gone
       /\ long \in Nat /\ gone \in Nat
    BY <1>1, <1>5, <1>6, <1>9
<1> QED
    BY <1>11, <1>12, <1>a, <1>b

-----------------------------------------------------------------------------
(* What the type invariant says, in the form the proofs use it.            *)

LEMMA TypeFacts ==
    ASSUME TypeOK
    PROVE  /\ Len(log) \in Nat /\ Len(pcm) \in Nat
           /\ log_cursor \in 0 .. Len(log) /\ pcm_cursor \in 0 .. Len(pcm)
           /\ Len(sfx) \in Nat /\ Len(buf) \in Nat
           /\ Len(playing) \in Nat /\ Len(queued) \in Nat
           /\ DOMAIN taken = 1 .. log_cursor /\ DOMAIN age = 1 .. log_cursor
           /\ DOMAIN missed = 1 .. log_cursor
           /\ \A e \in 1 .. log_cursor :
                taken[e] \in Nat /\ age[e] \in Nat /\ missed[e] \in Nat /\ Late(e) \in Int
           /\ \A e \in 1 .. Len(log) : log[e] \in Entry /\ Length(e) \in Nat
<1>1. /\ Len(log) \in Nat /\ Len(pcm) \in Nat
      /\ Len(sfx) \in Nat /\ Len(buf) \in Nat
      /\ Len(playing) \in Nat /\ Len(queued) \in Nat
    BY LenProperties DEF TypeOK, Holding
<1>2. /\ DOMAIN taken = 1 .. log_cursor /\ DOMAIN age = 1 .. log_cursor
      /\ DOMAIN missed = 1 .. log_cursor
    BY LenProperties DEF TypeOK
<1>3. \A e \in 1 .. log_cursor : taken[e] \in Nat /\ age[e] \in Nat /\ missed[e] \in Nat
    BY ElementOfSeq DEF TypeOK
<1>6. \A e \in 1 .. log_cursor : Late(e) \in Int
    BY <1>3 DEF Late
<1>4. \A e \in 1 .. Len(log) : log[e] \in Entry
    BY ElementOfSeq DEF TypeOK
<1>5. \A e \in 1 .. Len(log) : Length(e) \in Nat
    BY <1>4 DEF Length, Entry
<1> QED
    BY <1>1, <1>2, <1>3, <1>4, <1>5, <1>6 DEF TypeOK

\* The samples in the buffers, and what is known of their effects.
LEMMA ReadFacts ==
    ASSUME TypeOK, OnlyRead,
           NEW seq \in {sfx, buf, playing, queued},
           NEW k \in 1 .. Len(seq), NEW s \in seq[k]
    PROVE  /\ s[1] \in 1 .. log_cursor /\ s[1] \in 1 .. Len(log)
           /\ s[2] \in Nat \ {0} /\ s[2] <= Length(s[1]) /\ Length(s[1]) \in Nat
           /\ taken[s[1]] \in Nat /\ Late(s[1]) \in Int
<1>1. seq \in Seq(SUBSET Sample)
    BY DEF TypeOK, Holding
<1>2. seq[k] \in SUBSET Sample
    BY <1>1, ElementOfSeq
<1>3. s[1] \in 1 .. MaxLog /\ s[2] \in Nat \ {0}
    BY <1>2 DEF Sample
<1>4. s[1] <= log_cursor /\ s[2] <= Length(s[1])
    BY DEF OnlyRead, IsRead
<1>5. s[1] \in 1 .. log_cursor /\ s[1] \in 1 .. Len(log)
    BY <1>3, <1>4, TypeFacts, SinkAssumption
<1> QED
    BY <1>3, <1>4, <1>5, TypeFacts

-----------------------------------------------------------------------------
(* The device logs something.                                              *)

LEMMA LogGrows ==
    ASSUME TypeOK, NEW entry \in Entry, log' = Append(log, entry)
    PROVE  /\ log' \in Seq(Entry) /\ Len(log') = Len(log) + 1
           /\ log'[Len(log) + 1] = entry
           /\ \A e \in 1 .. Len(log) : log'[e] = log[e] /\ Length(e)' = Length(e)
<1>1. log \in Seq(Entry)
    BY DEF TypeOK
<1>2. /\ log' \in Seq(Entry) /\ Len(log') = Len(log) + 1
      /\ log'[Len(log) + 1] = entry
      /\ \A e \in 1 .. Len(log) : log'[e] = log[e]
    BY <1>1, AppendProperties
<1> QED
    BY <1>2 DEF Length, Started

\* The sink does not notice, and nothing it has read changes.
LEMMA SinkRests ==
    ASSUME IInv, NEW entry \in Entry, log' = Append(log, entry),
           UNCHANGED <<log_cursor, sfx, buf, playing, queued, started,
                       last_pump, pumping, taken, age, missed>>
    PROVE  OnlyRead' /\ Order' /\ EffectsIntact' /\ InTime'
<1> USE DEF IInv, Layout
<1>1. \A e \in 1 .. Len(log) : Length(e)' = Length(e)
    BY LogGrows
<1>2. Len(log) \in Nat /\ Len(log') = Len(log) + 1 /\ log_cursor \in 0 .. Len(log)
    BY LogGrows, TypeFacts
<1>3. \A e \in 1 .. log_cursor : Length(e)' = Length(e)
    BY <1>1, <1>2
<1>4. OnlyRead'
    <2>1. ASSUME NEW seq \in {sfx, buf, playing, queued},
                 NEW k \in 1 .. Len(seq), NEW s \in seq[k]
          PROVE  s[1] <= log_cursor /\ s[2] <= Length(s[1])'
        <3>1. s[1] \in 1 .. log_cursor /\ s[2] <= Length(s[1])
            BY <2>1, ReadFacts
        <3> QED
            BY <1>2, <1>3, <3>1
    <2> QED
        BY <2>1 DEF OnlyRead, IsRead
<1>5. Order'
    BY <1>3 DEF Order
<1>6. EffectsIntact'
    <2>1. SUFFICES ASSUME \A e \in 1 .. Len(log') : Length(e)' <= SFX_CAP
                   PROVE  /\ \A k \in 1 .. Len(sfx) :
                                sfx[k] = {<<e, taken[e] + k>> : e \in
                                    {d \in DOMAIN taken : taken[d] + k <= Length(d)'}}
                          /\ \A e \in DOMAIN taken : Len(sfx) >= Length(e)' - taken[e]
        BY DEF EffectsIntact
    <2>2. \A e \in 1 .. Len(log) : Length(e) <= SFX_CAP
        BY <1>1, <1>2, <2>1
    <2>3. DOMAIN taken = 1 .. log_cursor
        BY TypeFacts
    <2> QED
        BY <1>3, <2>2, <2>3 DEF EffectsIntact
<1>7. InTime'
    BY DEF InTime, SfxInTime, BufInTime, QueuedInTime, ChannelInTime, Late
<1> QED
    BY <1>4, <1>5, <1>6, <1>7

\* An effect of length len starts: its samples follow all others.
LEMMA FiresKeeps ==
    ASSUME IInv, NEW len \in Lengths, Fires(len)
    PROVE  IInv'
<1> USE DEF IInv, Layout
<1> DEFINE entry == [tag |-> "dma_start", len |-> len]
           block == [k \in 1 .. len |-> <<Len(log) + 1, k>>]
<1>1. len \in Nat /\ entry \in Entry
    BY SinkAssumption DEF Entry
<1>2. /\ log' = Append(log, entry) /\ pcm' = pcm \o block /\ Len(log) < MaxLog
      /\ UNCHANGED <<log_cursor, pcm_cursor, sfx, buf, playing, queued, started,
                     last_pump, pumping, taken, age, missed>>
    BY DEF Fires, channel
<1>3. OnlyRead' /\ Order' /\ EffectsIntact' /\ InTime'
    BY <1>1, <1>2, SinkRests
<1>4. Len(log) \in Nat /\ Len(pcm) \in Nat /\ log_cursor \in 0 .. Len(log)
      /\ pcm_cursor \in 0 .. Len(pcm)
    BY TypeFacts
<1>5. /\ log' \in Seq(Entry) /\ Len(log') = Len(log) + 1
      /\ \A e \in 1 .. Len(log) : Length(e)' = Length(e)
      /\ \A e \in {Len(log) + 1} : Length(e)' = len
    <2>1. /\ log' \in Seq(Entry) /\ Len(log') = Len(log) + 1
          /\ log'[Len(log) + 1] = entry
          /\ \A e \in 1 .. Len(log) : Length(e)' = Length(e)
        BY <1>1, <1>2, LogGrows
    <2> QED
        BY <2>1 DEF Length, Started
<1>6. block \in Seq(Sample) /\ Len(block) = len
    <2>1. block \in [1 .. len -> Sample]
        BY <1>1, <1>2, <1>4, SinkAssumption DEF Sample
    <2> QED
        BY <1>1, <2>1, FunctionIsSeq
<1>c. \A k \in 1 .. len : block[k] = <<Len(log) + 1, k>>
    OBVIOUS
<1> HIDE DEF block
<1>7. /\ pcm' \in Seq(Sample) /\ Len(pcm') = Len(pcm) + len
      /\ \A i \in 1 .. Len(pcm) + len :
            pcm'[i] = IF i <= Len(pcm) THEN pcm[i] ELSE block[i - Len(pcm)]
    <2>1. pcm \in Seq(Sample)
        BY DEF TypeOK
    <2> QED
        BY <1>2, <1>6, <2>1, ConcatProperties
<1>8. TypeOK'
    BY <1>1, <1>2, <1>4, <1>5, <1>7, SinkAssumption DEF TypeOK, Holding
<1>9. PcmLayout'
    <2>1. PICK at \in [1 .. Len(log) + 1 -> 0 .. Len(pcm)] :
            /\ \A e \in 1 .. Len(log) :
                /\ at[e + 1] = at[e] + Length(e)
                /\ \A k \in 1 .. Length(e) : pcm[at[e] + k] = <<e, k>>
            /\ at[Len(log) + 1] = Len(pcm)
            /\ at[log_cursor + 1] = pcm_cursor
        BY DEF PcmLayout
    <2> DEFINE next == [i \in 1 .. Len(log') + 1 |->
                            IF i <= Len(log) + 1 THEN at[i] ELSE Len(pcm')]
    <2>2. next \in [1 .. Len(log') + 1 -> 0 .. Len(pcm')]
        BY <1>1, <1>4, <1>5, <1>7
    <2>3. \A i \in 1 .. Len(log) + 1 : next[i] = at[i] /\ at[i] \in 0 .. Len(pcm)
        BY <1>4, <1>5
    <2>4. next[Len(log) + 2] = Len(pcm')
        BY <1>4, <1>5
    <2> HIDE DEF next
    <2>5. ASSUME NEW e \in 1 .. Len(log')
          PROVE  /\ next[e + 1] = next[e] + Length(e)'
                 /\ \A k \in 1 .. Length(e)' : pcm'[next[e] + k] = <<e, k>>
        <3>1. CASE e \in 1 .. Len(log)
            <4>1. /\ Length(e)' = Length(e) /\ Length(e) \in Nat
                  /\ next[e] = at[e] /\ next[e + 1] = at[e + 1]
                  /\ at[e] \in 0 .. Len(pcm) /\ at[e + 1] \in 0 .. Len(pcm)
                BY <1>4, <1>5, <2>3, <3>1, TypeFacts
            <4>2. at[e + 1] = at[e] + Length(e)
                BY <2>1, <3>1
            <4>3. ASSUME NEW k \in 1 .. Length(e)
                  PROVE  pcm'[at[e] + k] = <<e, k>>
                <5>1. at[e] + k \in 1 .. Len(pcm)
                    BY <1>4, <4>1, <4>2
                <5>2. pcm'[at[e] + k] = pcm[at[e] + k]
                    BY <1>1, <1>4, <1>7, <5>1
                <5> QED
                    BY <2>1, <3>1, <5>2
            <4> QED
                BY <4>1, <4>2, <4>3
        <3>2. CASE e = Len(log) + 1
            <4>1. /\ next[e] = Len(pcm) /\ next[e + 1] = Len(pcm) + len
                  /\ Length(e)' = len
                BY <1>4, <1>5, <1>7, <2>1, <2>3, <2>4, <3>2
            <4>2. \A k \in 1 .. len : pcm'[Len(pcm) + k] = block[k]
                BY <1>1, <1>4, <1>7
            <4> QED
                BY <1>c, <4>1, <4>2, <3>2
        <3>3. e \in 1 .. Len(log) \/ e = Len(log) + 1
            BY <1>4, <1>5
        <3> QED
            BY <3>1, <3>2, <3>3
    <2>6. next[Len(log') + 1] = Len(pcm')
        BY <1>4, <1>5, <2>4
    <2>7. next[log_cursor' + 1] = pcm_cursor'
        BY <1>2, <1>4, <2>1, <2>3
    <2> QED
        BY <2>2, <2>5, <2>6, <2>7 DEF PcmLayout
<1> QED
    BY <1>3, <1>8, <1>9

\* Another entry: there are no samples of it.
LEMMA LogsOtherKeeps ==
    ASSUME IInv, LogsOther
    PROVE  IInv'
<1> USE DEF IInv, Layout
<1> DEFINE entry == [tag |-> "other", len |-> 1]
<1>1. entry \in Entry
    BY DEF Entry
<1>2. /\ log' = Append(log, entry) /\ Len(log) < MaxLog
      /\ UNCHANGED <<pcm, log_cursor, pcm_cursor, sfx, buf, playing, queued,
                     started, last_pump, pumping, taken, age, missed>>
    BY DEF LogsOther, channel
<1>3. OnlyRead' /\ Order' /\ EffectsIntact' /\ InTime'
    BY <1>1, <1>2, SinkRests
<1>4. Len(log) \in Nat /\ Len(pcm) \in Nat /\ log_cursor \in 0 .. Len(log)
    BY TypeFacts
<1>5. /\ log' \in Seq(Entry) /\ Len(log') = Len(log) + 1
      /\ \A e \in 1 .. Len(log) : Length(e)' = Length(e)
      /\ \A e \in {Len(log) + 1} : Length(e)' = 0
    <2>1. /\ log' \in Seq(Entry) /\ Len(log') = Len(log) + 1
          /\ log'[Len(log) + 1] = entry
          /\ \A e \in 1 .. Len(log) : Length(e)' = Length(e)
        BY <1>1, <1>2, LogGrows
    <2> QED
        BY <2>1 DEF Length, Started
<1>6. TypeOK'
    BY <1>2, <1>4, <1>5, SinkAssumption DEF TypeOK, Holding
<1>7. PcmLayout'
    <2>1. PICK at \in [1 .. Len(log) + 1 -> 0 .. Len(pcm)] :
            /\ \A e \in 1 .. Len(log) :
                /\ at[e + 1] = at[e] + Length(e)
                /\ \A k \in 1 .. Length(e) : pcm[at[e] + k] = <<e, k>>
            /\ at[Len(log) + 1] = Len(pcm)
            /\ at[log_cursor + 1] = pcm_cursor
        BY DEF PcmLayout
    <2> DEFINE next == [i \in 1 .. Len(log') + 1 |->
                            IF i <= Len(log) + 1 THEN at[i] ELSE Len(pcm')]
    <2>2. next \in [1 .. Len(log') + 1 -> 0 .. Len(pcm')]
        BY <1>2, <1>4, <1>5
    <2>3. \A i \in 1 .. Len(log) + 1 : next[i] = at[i] /\ at[i] \in 0 .. Len(pcm)
        BY <1>4, <1>5
    <2>4. next[Len(log) + 2] = Len(pcm)
        BY <1>2, <1>4, <1>5
    <2> HIDE DEF next
    <2>5. ASSUME NEW e \in 1 .. Len(log')
          PROVE  /\ next[e + 1] = next[e] + Length(e)'
                 /\ \A k \in 1 .. Length(e)' : pcm'[next[e] + k] = <<e, k>>
        <3>1. CASE e \in 1 .. Len(log)
            <4>1. /\ Length(e)' = Length(e)
                  /\ next[e] = at[e] /\ next[e + 1] = at[e + 1]
                BY <1>4, <1>5, <2>3, <3>1
            <4> QED
                BY <1>2, <2>1, <3>1, <4>1
        <3>2. CASE e = Len(log) + 1
            BY <1>4, <1>5, <2>1, <2>3, <2>4, <3>2
        <3>3. e \in 1 .. Len(log) \/ e = Len(log) + 1
            BY <1>4, <1>5
        <3> QED
            BY <3>1, <3>2, <3>3
    <2>6. next[Len(log') + 1] = Len(pcm')
        BY <1>2, <1>4, <1>5, <2>4
    <2>7. next[log_cursor' + 1] = pcm_cursor'
        BY <1>2, <1>4, <2>1, <2>3
    <2> QED
        BY <2>2, <2>5, <2>6, <2>7 DEF PcmLayout
<1> QED
    BY <1>3, <1>6, <1>7

-----------------------------------------------------------------------------
(* A pump reads an entry of the log.                                       *)

\* What it slices out of the captured samples is the entry's effect.
LEMMA BlockIs ==
    ASSUME TypeOK, PcmLayout, NEW e \in 1 .. Len(log), e = log_cursor + 1,
           NEW next, next = pcm_cursor + Length(e),
           NEW block, block = Sliced(pcm, pcm_cursor, next)
    PROVE  /\ next \in 0 .. Len(pcm)
           /\ block \in Seq(Sample) /\ Len(block) = Length(e)
           /\ \A k \in 1 .. Length(e) : block[k] = <<e, k>>
<1>1. PICK at \in [1 .. Len(log) + 1 -> 0 .. Len(pcm)] :
        /\ \A d \in 1 .. Len(log) :
            /\ at[d + 1] = at[d] + Length(d)
            /\ \A k \in 1 .. Length(d) : pcm[at[d] + k] = <<d, k>>
        /\ at[Len(log) + 1] = Len(pcm)
        /\ at[log_cursor + 1] = pcm_cursor
    BY DEF PcmLayout
<1>2. /\ Len(log) \in Nat /\ Len(pcm) \in Nat /\ pcm_cursor \in 0 .. Len(pcm)
      /\ Length(e) \in Nat
    BY TypeFacts
<1>3. at[e + 1] = next /\ e + 1 \in 1 .. Len(log) + 1
    BY <1>1, <1>2
<1>4. next \in 0 .. Len(pcm)
    BY <1>1, <1>2, <1>3
<1>5. \A k \in 1 .. Length(e) : pcm[pcm_cursor + k] = <<e, k>>
    BY <1>1
<1>6. block = SubSeq(pcm, pcm_cursor + 1, next)
    BY <1>2, <1>4 DEF Sliced, Least
<1>7. \A i \in pcm_cursor + 1 .. next : pcm[i] \in Sample
    <2>1. pcm \in Seq(Sample)
        BY DEF TypeOK
    <2> QED
        BY <1>2, <1>4, <2>1, ElementOfSeq
<1>8. /\ block \in Seq(Sample) /\ Len(block) = Length(e)
      /\ \A k \in 1 .. Length(e) : block[k] = pcm[pcm_cursor + k]
    <2>1. /\ SubSeq(pcm, pcm_cursor + 1, next) \in Seq(Sample)
          /\ Len(SubSeq(pcm, pcm_cursor + 1, next)) = Length(e)
          /\ \A k \in 1 .. Length(e) :
                SubSeq(pcm, pcm_cursor + 1, next)[k] = pcm[pcm_cursor + k]
        BY <1>2, <1>4, <1>7, SubSeqProperties
    <2> QED
        BY <1>6, <2>1
<1> QED
    BY <1>4, <1>5, <1>8

\* Each pending sample was pending before, or is one of the effect's; while the
\* effects are no longer than the cap, none is moved or lost.
LEMMA DrainsMixes ==
    ASSUME TypeOK, PcmLayout, Drains, NEW e \in 1 .. Len(log), e = log_cursor + 1
    PROVE  /\ sfx' \in Seq(SUBSET Sample) /\ Len(sfx') <= SFX_CAP
           /\ \E gone \in Nat :
                \A k \in 1 .. Len(sfx') : \A s \in sfx'[k] :
                    \/ k + gone \in 1 .. Len(sfx) /\ s \in sfx[k + gone]
                    \/ k + gone \in 1 .. Length(e) /\ s = <<e, k + gone>>
           /\ Length(e) <= SFX_CAP =>
                /\ Len(sfx') = Most(Len(sfx), Length(e))
                /\ \A k \in 1 .. Len(sfx') :
                    sfx'[k] = (IF k <= Len(sfx) THEN sfx[k] ELSE {})
                                \cup (IF k <= Length(e) THEN {<<e, k>>} ELSE {})
<1>1. /\ sfx \in Seq(SUBSET Sample) /\ Len(sfx) \in Nat /\ Len(sfx) <= SFX_CAP
      /\ SFX_CAP \in Nat /\ Length(e) \in Nat
    BY TypeFacts, SinkAssumption DEF TypeOK, Holding
<1>2. CASE ~Started(log[e])
    <2>1. sfx' = sfx /\ Length(e) = 0
        BY <1>2 DEF Drains, Length
    <2>2. \A k \in 1 .. Len(sfx') : \A s \in sfx'[k] :
            \/ k + 0 \in 1 .. Len(sfx) /\ s \in sfx[k + 0]
            \/ k + 0 \in 1 .. Length(e) /\ s = <<e, k + 0>>
        BY <1>1, <2>1
    <2>3. Len(sfx') = Most(Len(sfx), Length(e))
        BY <1>1, <2>1 DEF Most
    <2>4. \A k \in 1 .. Len(sfx') :
            sfx'[k] = (IF k <= Len(sfx) THEN sfx[k] ELSE {})
                        \cup (IF k <= Length(e) THEN {<<e, k>>} ELSE {})
        BY <1>1, <2>1
    <2> QED
        BY <1>1, <2>1, <2>2, <2>3, <2>4
<1>3. CASE Started(log[e])
    <2> DEFINE next == pcm_cursor + Length(e)
               block == Sliced(pcm, pcm_cursor, next)
    <2>1. sfx' = Mixed(sfx, block)
        BY <1>3 DEF Drains, Length, PcmAdvance
    <2>2. /\ block \in Seq(Sample) /\ Len(block) = Length(e)
          /\ \A k \in 1 .. Length(e) : block[k] = <<e, k>>
        BY BlockIs
    <2> HIDE DEF block
    <2>3. Mixed(sfx, block) \in Seq(SUBSET Sample) /\ Len(Mixed(sfx, block)) <= SFX_CAP
        BY <1>1, <2>2, MixedIs
    <2>4. PICK long, gone \in Nat :
            /\ long = Most(Len(sfx), Len(block))
            /\ gone = Most(long - SFX_CAP, 0)
            /\ Len(Mixed(sfx, block)) = long - gone
            /\ \A k \in 1 .. long - gone :
                Mixed(sfx, block)[k] =
                    (IF k + gone <= Len(sfx) THEN sfx[k + gone] ELSE {})
                        \cup (IF k + gone <= Len(block) THEN {block[k + gone]} ELSE {})
        <3>1. sfx \in Seq(SUBSET Sample) /\ block \in Seq(Sample) /\ SFX_CAP \in Nat
            BY <1>1, <2>2
        <3> QED
            BY <3>1, MixedIs, Zenon
    <2>5. /\ long = Most(Len(sfx), Length(e))
          /\ Length(e) <= SFX_CAP => gone = 0
        BY <1>1, <2>2, <2>4 DEF Most
    <2>6. \A k \in 1 .. Len(sfx') :
            sfx'[k] = (IF k + gone <= Len(sfx) THEN sfx[k + gone] ELSE {})
                        \cup (IF k + gone <= Length(e) THEN {<<e, k + gone>>} ELSE {})
        <3> TAKE k \in 1 .. Len(sfx')
        <3>1. k \in 1 .. long - gone /\ k + gone \in Nat \ {0}
            BY <2>1, <2>4
        <3>2. k + gone <= Length(e) => block[k + gone] = <<e, k + gone>>
            BY <1>1, <2>2, <3>1
        <3>3. sfx'[k] = (IF k + gone <= Len(sfx) THEN sfx[k + gone] ELSE {})
                        \cup (IF k + gone <= Len(block) THEN {block[k + gone]} ELSE {})
            BY <2>1, <2>4, <3>1
        <3> QED
            BY <2>2, <3>2, <3>3
    <2>7. \A k \in 1 .. Len(sfx') : \A s \in sfx'[k] :
            \/ k + gone \in 1 .. Len(sfx) /\ s \in sfx[k + gone]
            \/ k + gone \in 1 .. Length(e) /\ s = <<e, k + gone>>
        <3> TAKE k \in 1 .. Len(sfx')
        <3>1. k \in Nat \ {0} /\ k + gone \in Nat \ {0}
            BY <2>1, <2>4
        <3> QED
            BY <1>1, <2>6, <3>1
    <2>8. Length(e) <= SFX_CAP =>
            /\ Len(sfx') = Most(Len(sfx), Length(e))
            /\ \A k \in 1 .. Len(sfx') :
                sfx'[k] = (IF k <= Len(sfx) THEN sfx[k] ELSE {})
                            \cup (IF k <= Length(e) THEN {<<e, k>>} ELSE {})
        <3>1. SUFFICES ASSUME Length(e) <= SFX_CAP
                       PROVE  /\ Len(sfx') = Most(Len(sfx), Length(e))
                              /\ \A k \in 1 .. Len(sfx') : k + gone = k
            BY <2>6
        <3> QED
            BY <2>1, <2>4, <2>5, <3>1
    <2> QED
        BY <2>1, <2>3, <2>7, <2>8
<1> QED
    BY <1>2, <1>3

\* The pump reads an entry.
LEMMA DrainsKeeps ==
    ASSUME IInv, Drains
    PROVE  IInv'
<1> USE DEF IInv, Layout
<1>1. PICK e \in 1 .. Len(log) : e = log_cursor + 1
    BY TypeFacts DEF Drains
<1>2. /\ UNCHANGED <<log, pcm, buf, playing, queued, started, last_pump>>
      /\ log_cursor' = e /\ pumping' = TRUE
      /\ taken' = Append(taken, 0) /\ age' = Append(age, 0)
      /\ missed' = Append(missed, 0)
    BY <1>1 DEF Drains, device, channel
<1>3. Len(log) \in Nat /\ log_cursor \in 0 .. Len(log) /\ Length(e) \in Nat
    BY TypeFacts
<1>4. \A d \in 1 .. Len(log) : Length(d)' = Length(d)
    BY <1>2 DEF Length, Started
<1>5. pcm_cursor' = pcm_cursor + Length(e)
    BY <1>1 DEF Drains, PcmAdvance, Length
<1>6. /\ taken' \in Seq(Nat) /\ Len(taken') = e /\ taken'[e] = 0
      /\ age' \in Seq(Nat) /\ Len(age') = e /\ age'[e] = 0
      /\ missed' \in Seq(Nat) /\ Len(missed') = e /\ missed'[e] = 0
      /\ \A d \in 1 .. log_cursor :
            taken'[d] = taken[d] /\ age'[d] = age[d] /\ missed'[d] = missed[d]
    BY <1>1, <1>2, <1>3, AppendProperties DEF TypeOK
<1>7. /\ sfx' \in Seq(SUBSET Sample) /\ Len(sfx') <= SFX_CAP
      /\ Length(e) <= SFX_CAP =>
            /\ Len(sfx') = Most(Len(sfx), Length(e))
            /\ \A k \in 1 .. Len(sfx') :
                sfx'[k] = (IF k <= Len(sfx) THEN sfx[k] ELSE {})
                            \cup (IF k <= Length(e) THEN {<<e, k>>} ELSE {})
    BY <1>1, DrainsMixes
<1>8. PICK gone \in Nat :
        \A k \in 1 .. Len(sfx') : \A s \in sfx'[k] :
            \/ k + gone \in 1 .. Len(sfx) /\ s \in sfx[k + gone]
            \/ k + gone \in 1 .. Length(e) /\ s = <<e, k + gone>>
    BY <1>1, DrainsMixes
<1>9. TypeOK'
    <2>1. pcm_cursor' \in 0 .. Len(pcm)
        BY <1>1, <1>5, BlockIs
    <2> QED
        BY <1>1, <1>2, <1>3, <1>6, <1>7, <2>1 DEF TypeOK, Holding
<1>10. PcmLayout'
    <2>1. PICK at \in [1 .. Len(log) + 1 -> 0 .. Len(pcm)] :
            /\ \A d \in 1 .. Len(log) :
                /\ at[d + 1] = at[d] + Length(d)
                /\ \A k \in 1 .. Length(d) : pcm[at[d] + k] = <<d, k>>
            /\ at[Len(log) + 1] = Len(pcm)
            /\ at[log_cursor + 1] = pcm_cursor
        BY DEF PcmLayout
    <2>2. at[log_cursor' + 1] = pcm_cursor'
        BY <1>1, <1>2, <1>5, <2>1
    <2>3. \A d \in 1 .. Len(log) :
            /\ at[d + 1] = at[d] + Length(d)'
            /\ \A k \in 1 .. Length(d)' : pcm[at[d] + k] = <<d, k>>
        BY <1>4, <2>1
    <2> QED
        BY <1>2, <2>1, <2>2, <2>3 DEF PcmLayout
<1>11. \A seq \in {sfx, buf, playing, queued} : \A k \in 1 .. Len(seq) : \A s \in seq[k] :
            /\ s[1] \in 1 .. log_cursor /\ s[1] <= e
            /\ s[2] \in Nat \ {0} /\ s[2] <= Length(s[1])'
            /\ taken'[s[1]] = taken[s[1]] /\ Late(s[1])' = Late(s[1])
            /\ taken[s[1]] \in Nat /\ Late(s[1]) \in Int
    <2> TAKE seq \in {sfx, buf, playing, queued}
    <2> TAKE k \in 1 .. Len(seq)
    <2> TAKE s \in seq[k]
    <2>1. /\ s[1] \in 1 .. log_cursor /\ s[1] \in 1 .. Len(log)
          /\ s[2] \in Nat \ {0} /\ s[2] <= Length(s[1])
          /\ taken[s[1]] \in Nat /\ Late(s[1]) \in Int
        BY ReadFacts
    <2>2. Length(s[1])' = Length(s[1])
        BY <1>4, <2>1
    <2>3. s[1] <= e /\ s[2] <= Length(s[1])'
        BY <1>1, <1>3, <2>1, <2>2
    <2>4. taken'[s[1]] = taken[s[1]] /\ Late(s[1])' = Late(s[1])
        BY <1>6, <2>1 DEF Late
    <2> QED
        BY <2>1, <2>3, <2>4
<1>12. OnlyRead'
    <2>1. IsRead(buf)' /\ IsRead(playing)' /\ IsRead(queued)'
        BY <1>2, <1>11 DEF IsRead
    <2>2. IsRead(sfx)'
        <3>1. SUFFICES ASSUME NEW k \in 1 .. Len(sfx'), NEW s \in sfx'[k]
                       PROVE  s[1] <= e /\ s[2] <= Length(s[1])'
            BY <1>2 DEF IsRead
        <3>2. CASE k + gone \in 1 .. Len(sfx) /\ s \in sfx[k + gone]
            BY <1>11, <3>2
        <3>3. CASE k + gone \in 1 .. Length(e) /\ s = <<e, k + gone>>
            <4>1. s[1] = e /\ s[2] = k + gone /\ Length(e)' = Length(e)
                BY <1>4, <3>3
            <4> QED
                BY <1>3, <3>3, <4>1
        <3> QED
            BY <1>8, <3>2, <3>3
    <2> QED
        BY <2>1, <2>2 DEF OnlyRead
<1>13. Order'
    BY <1>2 DEF Order
<1>14. SfxInTime'
    <2>1. SUFFICES ASSUME NEW k \in 1 .. Len(sfx'), NEW s \in sfx'[k]
                   PROVE  /\ taken'[s[1]] + k <= s[2]
                          /\ IF taken'[s[1]] = 0 THEN Late(s[1])' <= 0
                             ELSE Late(s[1])' - last_pump <= s[2] - k - 1
        BY <1>2 DEF SfxInTime
    <2>2. k \in Nat
        BY <1>7, LenProperties
    <2>3. CASE k + gone \in 1 .. Len(sfx) /\ s \in sfx[k + gone]
        <3>1. /\ taken[s[1]] + (k + gone) <= s[2]
              /\ IF taken[s[1]] = 0 THEN Late(s[1]) <= 0
                 ELSE Late(s[1]) - last_pump <= s[2] - (k + gone) - 1
            BY <2>3 DEF InTime, SfxInTime
        <3>2. /\ s[2] \in Nat /\ Late(s[1]) \in Int /\ taken[s[1]] \in Nat
              /\ taken'[s[1]] = taken[s[1]] /\ Late(s[1])' = Late(s[1])
            BY <1>11, <2>3
        <3>3. last_pump \in Int
            BY SinkAssumption DEF TypeOK
        <3> QED
            BY <2>2, <3>1, <3>2, <3>3
    <2>4. CASE k + gone \in 1 .. Length(e) /\ s = <<e, k + gone>>
        BY <1>6, <2>2, <2>4 DEF Late
    <2> QED
        BY <1>8, <2>3, <2>4
<1>15. BufInTime' /\ QueuedInTime' /\ ChannelInTime'
    <2>1. BufInTime'
        <3>1. ASSUME NEW k \in 1 .. Len(buf), NEW s \in buf[k]
              PROVE  Late(s[1])' - last_pump <= s[2] - 1 + Len(buf) - k
            <4>1. Late(s[1])' = Late(s[1])
                BY <1>11
            <4>2. Late(s[1]) - last_pump <= s[2] - 1 + Len(buf) - k
                BY DEF InTime, BufInTime
            <4> QED
                BY <4>1, <4>2
        <3> QED
            BY <1>2, <3>1 DEF BufInTime
    <2>2. QueuedInTime'
        BY <1>2, <1>11 DEF InTime, QueuedInTime
    <2>3. ChannelInTime'
        BY <1>2, <1>11 DEF InTime, ChannelInTime
    <2> QED
        BY <2>1, <2>2, <2>3
<1>16. EffectsIntact'
    <2>1. SUFFICES ASSUME \A d \in 1 .. Len(log) : Length(d) <= SFX_CAP
                   PROVE  /\ \A k \in 1 .. Len(sfx') :
                                sfx'[k] = {<<c, taken'[c] + k>> : c \in
                                    {d \in 1 .. e : taken'[d] + k <= Length(d)}}
                          /\ \A d \in 1 .. e : Len(sfx') >= Length(d) - taken'[d]
        <3>1. DOMAIN taken' = 1 .. e
            BY <1>6, LenProperties
        <3>2. \A d \in 1 .. e : Length(d)' = Length(d)
            BY <1>1, <1>3, <1>4
        <3> QED
            BY <1>2, <1>4, <3>1, <3>2 DEF EffectsIntact
    <2>2. /\ \A k \in 1 .. Len(sfx) :
                sfx[k] = {<<c, taken[c] + k>> : c \in
                    {d \in 1 .. log_cursor : taken[d] + k <= Length(d)}}
          /\ \A d \in 1 .. log_cursor : Len(sfx) >= Length(d) - taken[d]
        BY <2>1, TypeFacts DEF EffectsIntact
    <2>3. /\ Len(sfx') = Most(Len(sfx), Length(e))
          /\ \A k \in 1 .. Len(sfx') :
                sfx'[k] = (IF k <= Len(sfx) THEN sfx[k] ELSE {})
                            \cup (IF k <= Length(e) THEN {<<e, k>>} ELSE {})
        BY <1>1, <1>7, <2>1
    <2>4. /\ Len(sfx) \in Nat
          /\ \A d \in 1 .. log_cursor : taken[d] \in Nat /\ Length(d) \in Nat
        BY <1>1, <1>3, TypeFacts
    <2>5. \A d \in 1 .. e : Len(sfx') >= Length(d) - taken'[d]
        <3> TAKE d \in 1 .. e
        <3>1. CASE d \in 1 .. log_cursor
            <4>1. Len(sfx') \in Nat /\ Len(sfx') >= Len(sfx)
                BY <1>3, <2>3, <2>4 DEF Most
            <4>2. taken'[d] = taken[d] /\ taken[d] \in Nat /\ Length(d) \in Nat
                BY <1>6, <2>4, <3>1
            <4> QED
                BY <2>2, <2>4, <3>1, <4>1, <4>2
        <3>2. CASE d = e
            BY <1>3, <1>6, <2>3, <2>4, <3>2 DEF Most
        <3> QED
            BY <1>1, <1>3, <3>1, <3>2
    <2>6. ASSUME NEW k \in 1 .. Len(sfx')
          PROVE  sfx'[k] = {<<c, taken'[c] + k>> : c \in
                                    {d \in 1 .. e : taken'[d] + k <= Length(d)}}
        <3>1. k \in Nat \ {0}
            BY <1>7, LenProperties
        <3>2. (IF k <= Len(sfx) THEN sfx[k] ELSE {}) =
                {<<c, taken[c] + k>> : c \in
                    {d \in 1 .. log_cursor : taken[d] + k <= Length(d)}}
            <4>1. CASE k <= Len(sfx)
                BY <2>2, <2>4, <3>1, <4>1
            <4>2. CASE ~(k <= Len(sfx))
                <5>1. \A d \in 1 .. log_cursor : ~(taken[d] + k <= Length(d))
                    BY <2>2, <2>4, <3>1, <4>2
                <5> QED
                    BY <4>2, <5>1
            <4> QED
                BY <4>1, <4>2
        <3>3. (IF k <= Length(e) THEN {<<e, k>>} ELSE {}) =
                {<<c, taken'[c] + k>> : c \in {d \in {e} : taken'[d] + k <= Length(d)}}
            BY <1>3, <1>6, <3>1
        <3>4. 1 .. e = 1 .. log_cursor \cup {e}
            BY <1>1, <1>3
        <3>5. \A d \in 1 .. log_cursor : taken'[d] = taken[d]
            BY <1>6
        <3> QED
            BY <2>3, <3>2, <3>3, <3>4, <3>5
    <2> QED
        BY <2>5, <2>6
<1> QED
    BY <1>9, <1>10, <1>12, <1>13, <1>14, <1>15, <1>16 DEF InTime

-----------------------------------------------------------------------------
(* The rest of a pump.                                                     *)

\* A pump takes at least one sample, and as many as the time since the last one,
\* unless that is more than it makes up for: then it fills the buffer anew.
LEMMA SamplesIs ==
    ASSUME TypeOK
    PROVE  /\ Samples \in Nat \ {0}
           /\ last_pump - Most(last_pump - MAX_PUMP, 0) <= Samples
           /\ last_pump <= Samples \/ BUF_CAP <= Samples
<1>1. last_pump \in -1 .. MaxStall
    BY DEF TypeOK
<1> QED
    BY <1>1, SinkAssumption DEF Samples, Most, Least

\* What the histories say of an effect after the pump.
LEMMA NotesIs ==
    ASSUME TypeOK, Notes, age' = age
    PROVE  /\ taken' \in Seq(Nat) /\ Len(taken') = log_cursor
           /\ missed' \in Seq(Nat) /\ Len(missed') = log_cursor
           /\ \A e \in 1 .. log_cursor :
                /\ taken'[e] = Least(taken[e] + Samples, Length(e))
                /\ Late(e)' \in Int /\ Late(e)' <= Late(e)
                /\ UnderWay(e) => Late(e)' <= Late(e) - last_pump + Samples
<1>1. /\ DOMAIN taken = 1 .. log_cursor /\ DOMAIN missed = 1 .. log_cursor
      /\ log_cursor \in Nat
      /\ \A e \in 1 .. log_cursor :
            /\ taken[e] \in Nat /\ age[e] \in Nat /\ missed[e] \in Nat
            /\ Length(e) \in Nat
    BY TypeFacts
<1>2. last_pump \in Int /\ MAX_PUMP \in Int
    BY SinkAssumption DEF TypeOK
<1>3. PICK uncounted \in Nat : uncounted = Most(last_pump - MAX_PUMP, 0)
    BY <1>2 DEF Most
<1>4. Samples \in Nat /\ last_pump - uncounted <= Samples
    BY <1>3, SamplesIs
<1>5. /\ taken' = [e \in 1 .. log_cursor |-> Least(taken[e] + Samples, Length(e))]
      /\ missed' = [e \in 1 .. log_cursor |->
                        missed[e] + IF UnderWay(e) THEN uncounted ELSE 0]
    BY <1>1, <1>3 DEF Notes
<1>6. taken' \in [1 .. log_cursor -> Nat]
    BY <1>1, <1>4, <1>5 DEF Least
<1>7. missed' \in [1 .. log_cursor -> Nat]
    BY <1>1, <1>3, <1>5
<1>8. ASSUME NEW e \in 1 .. log_cursor
      PROVE  /\ taken'[e] = Least(taken[e] + Samples, Length(e))
             /\ Late(e)' \in Int /\ Late(e)' <= Late(e)
             /\ UnderWay(e) => Late(e)' <= Late(e) - last_pump + Samples
    <2>1. taken'[e] = Least(taken[e] + Samples, Length(e))
        BY <1>5
    <2>2. missed'[e] = missed[e] + IF UnderWay(e) THEN uncounted ELSE 0
        BY <1>5
    <2>3. Late(e)' = age[e] - missed'[e] /\ Late(e) = age[e] - missed[e]
        BY DEF Late
    <2>4. age[e] \in Nat /\ missed[e] \in Nat
        BY <1>1
    <2> QED
        BY <1>2, <1>3, <1>4, <2>1, <2>2, <2>3, <2>4
<1> QED
    BY <1>1, <1>5, <1>6, <1>7, <1>8, FunctionIsSeq

\* What lies in front of the mixer then: samples of effects that were read, each
\* late by no more than what lies behind it.
LEMMA FilledIs ==
    ASSUME Layout, InTime, Notes, age' = age,
           NEW filled, filled = Filled(Padded(sfx, Samples))
    PROVE  /\ Holding(filled, BUF_CAP) /\ Len(filled) \in Nat
           /\ \A k \in 1 .. Len(filled) : \A s \in filled[k] :
                /\ s[1] \in 1 .. log_cursor
                /\ s[2] \in Nat \ {0} /\ s[2] <= Length(s[1])
                /\ Late(s[1])' \in Int
                /\ Late(s[1])' <= s[2] - 1 + Len(filled) - k
<1> USE DEF Layout
<1>1. PICK n : n = Samples
    OBVIOUS
<1>2. n \in Nat \ {0}
    BY <1>1, SamplesIs
<1>3. PICK chunk : chunk = Padded(sfx, n)
    OBVIOUS
<1>4. /\ sfx \in Seq(SUBSET Sample) /\ buf \in Seq(SUBSET Sample)
      /\ Len(sfx) \in Nat /\ Len(buf) \in Nat /\ last_pump \in Int
      /\ BUF_CAP \in Nat
    BY TypeFacts, SinkAssumption DEF TypeOK, Holding
<1>5. /\ chunk \in Seq(SUBSET Sample) /\ Len(chunk) = n
      /\ \A k \in 1 .. n : chunk[k] = IF k <= Len(sfx) THEN sfx[k] ELSE {}
    BY <1>2, <1>3, <1>4, PaddedIs
<1>6. PICK all : all = buf \o chunk
    OBVIOUS
<1>7. /\ all \in Seq(SUBSET Sample) /\ Len(all) = Len(buf) + n
      /\ \A k \in 1 .. Len(buf) + n :
            all[k] = IF k <= Len(buf) THEN buf[k] ELSE chunk[k - Len(buf)]
    <2> DEFINE T == SUBSET Sample
    <2>1. buf \in Seq(T) /\ chunk \in Seq(T)
        BY <1>4, <1>5
    <2> HIDE DEF T
    <2>2. /\ all \in Seq(T) /\ Len(all) = Len(buf) + Len(chunk)
          /\ \A k \in 1 .. Len(buf) + Len(chunk) :
                all[k] = IF k <= Len(buf) THEN buf[k] ELSE chunk[k - Len(buf)]
        BY <1>6, <2>1, ConcatProperties
    <2>3. Len(chunk) = n
        BY <1>5
    <2> QED
        BY <2>2, <2>3 DEF T
<1>8. filled = Newest(all, BUF_CAP)
    BY <1>1, <1>3, <1>6 DEF Filled
<1>9. PICK gone : gone = Dropped(all, BUF_CAP)
    OBVIOUS
<1>10. /\ gone \in 0 .. Len(all)
       /\ filled \in Seq(SUBSET Sample) /\ Len(filled) <= BUF_CAP
       /\ Len(filled) = Len(all) - gone
       /\ \A k \in 1 .. Len(all) - gone : filled[k] = all[k + gone]
    BY <1>4, <1>7, <1>8, <1>9, NewestIs
<1>11. \A e \in 1 .. log_cursor :
            /\ Late(e)' \in Int /\ Late(e)' <= Late(e)
            /\ UnderWay(e) => Late(e)' <= Late(e) - last_pump + n
    BY <1>1, NotesIs
<1>13. n < last_pump => gone >= Len(buf)
    <2>1. n < last_pump => BUF_CAP <= n
        BY <1>1, <1>2, <1>4, SamplesIs
    <2>2. PICK long \in Nat : long = Len(all) /\ long = Len(buf) + n
        BY <1>2, <1>4, <1>7
    <2>3. gone = Most(long - BUF_CAP, 0)
        BY <1>9, <2>2 DEF Dropped
    <2>4. gone \in Int /\ gone >= long - BUF_CAP
        BY <1>4, <2>2, <2>3 DEF Most
    <2> QED
        BY <1>2, <1>4, <2>1, <2>2, <2>4
<1>12. ASSUME NEW k \in 1 .. Len(filled), NEW s \in filled[k]
       PROVE  /\ s[1] \in 1 .. log_cursor
              /\ s[2] \in Nat \ {0} /\ s[2] <= Length(s[1])
              /\ Late(s[1])' \in Int
              /\ Late(s[1])' <= s[2] - 1 + Len(filled) - k
    <2>1. /\ k \in Nat \ {0} /\ k <= Len(filled)
          /\ n \in Nat /\ gone \in Nat /\ Len(buf) \in Nat /\ Len(filled) \in Nat
          /\ last_pump \in Int
          /\ k + gone \in 1 .. Len(buf) + n
          /\ Len(filled) = Len(buf) + n - gone
          /\ s \in all[k + gone]
        BY <1>2, <1>4, <1>7, <1>10, <1>12
    <2>2. CASE k + gone <= Len(buf)
        <3>1. k + gone \in 1 .. Len(buf) /\ s \in buf[k + gone]
            BY <1>7, <2>1, <2>2
        <3>2. /\ s[1] \in 1 .. log_cursor
              /\ s[2] \in Nat \ {0} /\ s[2] <= Length(s[1])
              /\ Late(s[1]) \in Int
            BY <3>1, ReadFacts
        <3>3. Late(s[1]) - last_pump <= s[2] - 1 + Len(buf) - (k + gone)
            BY <3>1 DEF InTime, BufInTime
        <3>4. Late(s[1])' \in Int /\ Late(s[1])' <= Late(s[1]) /\ last_pump <= n
            BY <1>11, <1>13, <2>1, <2>2, <3>2
        <3>5. Late(s[1])' <= s[2] - 1 + Len(filled) - k
            <4>1. PICK was \in Int, is \in Int, place \in Nat \ {0} :
                    was = Late(s[1]) /\ is = Late(s[1])' /\ place = s[2]
                BY <3>2, <3>4
            <4>2. is <= was /\ last_pump <= n
                BY <3>4, <4>1
            <4>3. was - last_pump <= place - 1 + Len(buf) - (k + gone)
                BY <3>3, <4>1
            <4>4. is <= place - 1 + Len(filled) - k
                BY <2>1, <4>2, <4>3
            <4> QED
                BY <4>1, <4>4
        <3> QED
            BY <3>2, <3>4, <3>5
    <2>3. CASE ~(k + gone <= Len(buf))
        <3>1. PICK j : j = k + gone - Len(buf)
            OBVIOUS
        <3>2. j \in 1 .. n /\ s \in chunk[j]
            BY <1>7, <2>1, <2>3, <3>1
        <3>3. j \in 1 .. Len(sfx) /\ s \in sfx[j]
            BY <1>4, <1>5, <3>2
        <3>4. /\ s[1] \in 1 .. log_cursor
              /\ s[2] \in Nat \ {0} /\ s[2] <= Length(s[1]) /\ Length(s[1]) \in Nat
              /\ taken[s[1]] \in Nat /\ Late(s[1]) \in Int
            BY <3>3, ReadFacts
        <3>5. /\ taken[s[1]] + j <= s[2]
              /\ IF taken[s[1]] = 0 THEN Late(s[1]) <= 0
                 ELSE Late(s[1]) - last_pump <= s[2] - j - 1
            BY <3>3 DEF InTime, SfxInTime
        <3>6. /\ Late(s[1])' \in Int /\ Late(s[1])' <= Late(s[1])
              /\ taken[s[1]] # 0 => Late(s[1])' <= Late(s[1]) - last_pump + n
            <4>1. taken[s[1]] # 0 => UnderWay(s[1])
                BY <3>2, <3>4, <3>5 DEF UnderWay
            <4> QED
                BY <1>11, <3>4, <4>1
        <3>7. Late(s[1])' <= s[2] - 1 + Len(filled) - k
            <4>1. PICK was \in Int, is \in Int, place \in Nat \ {0} :
                    was = Late(s[1]) /\ is = Late(s[1])' /\ place = s[2]
                BY <3>4, <3>6
            <4>2. \/ is <= 0
                  \/ is <= was - last_pump + n /\ was - last_pump <= place - j - 1
                BY <3>4, <3>5, <3>6, <4>1
            <4>3. j \in Nat /\ j <= n /\ n \in Nat /\ last_pump \in Int
                BY <1>2, <1>4, <3>2
            <4>4. is <= place - 1 + (n - j)
                BY <4>2, <4>3
            <4>5. Len(filled) - k = n - j
                BY <2>1, <3>1
            <4>6. place - 1 + Len(filled) - k = place - 1 + (Len(filled) - k)
                BY <2>1
            <4>7. is <= place - 1 + Len(filled) - k
                BY <4>4, <4>5, <4>6
            <4> QED
                BY <4>1, <4>7
        <3> QED
            BY <3>4, <3>6, <3>7
    <2> QED
        BY <2>2, <2>3
<1> QED
    BY <1>4, <1>7, <1>10, <1>12 DEF Holding

\* The pump puts it into the idle channel or behind what plays, or it stays.
LEMMA FeedsKeeps ==
    ASSUME IInv, Feeds
    PROVE  IInv'
<1> USE DEF IInv, Layout
<1>1. PICK n : n = Samples
    OBVIOUS
<1>2. n \in Nat \ {0}
    BY <1>1, SamplesIs
<1>3. PICK filled : filled = Filled(Padded(sfx, Samples))
    OBVIOUS
<1>4. /\ UNCHANGED <<log, pcm, log_cursor, pcm_cursor, age>> /\ Notes
      /\ sfx' = Rest(sfx, n) /\ last_pump' = 0 /\ pumping' = FALSE
    BY <1>1 DEF Feeds, device
<1>5. /\ Holding(filled, BUF_CAP) /\ Len(filled) \in Nat
      /\ \A k \in 1 .. Len(filled) : \A s \in filled[k] :
            /\ s[1] \in 1 .. log_cursor
            /\ s[2] \in Nat \ {0} /\ s[2] <= Length(s[1])
            /\ Late(s[1])' \in Int
            /\ Late(s[1])' <= s[2] - 1 + Len(filled) - k
    BY <1>3, <1>4, FilledIs
<1>6. /\ taken' \in Seq(Nat) /\ Len(taken') = log_cursor
      /\ missed' \in Seq(Nat) /\ Len(missed') = log_cursor
      /\ \A e \in 1 .. log_cursor :
            /\ taken'[e] = Least(taken[e] + n, Length(e))
            /\ Late(e)' \in Int /\ Late(e)' <= Late(e)
            /\ UnderWay(e) => Late(e)' <= Late(e) - last_pump + n
    BY <1>1, <1>4, NotesIs
<1>7. /\ sfx' \in Seq(SUBSET Sample) /\ Len(sfx) \in Nat /\ Len(sfx) <= SFX_CAP
      /\ Len(sfx') = Most(Len(sfx) - n, 0)
      /\ \A k \in 1 .. Len(sfx) - n : sfx'[k] = sfx[k + n]
    BY <1>2, <1>4, TypeFacts, RestIs DEF TypeOK, Holding
<1>8. /\ Len(sfx') \in Nat /\ Len(sfx') <= SFX_CAP
      /\ \A k \in 1 .. Len(sfx') : k \in Nat \ {0} /\ k + n \in 1 .. Len(sfx)
                                    /\ sfx'[k] = sfx[k + n]
    BY <1>2, <1>7, SinkAssumption DEF Most
<1>9. \/ /\ playing' = filled /\ queued' = queued /\ buf' = <<>>
         /\ ~started /\ started' = TRUE /\ Len(filled) >= LEAD
      \/ /\ playing' = playing /\ queued' = queued /\ buf' = filled
         /\ started' = started \/ (playing = <<>> /\ started' = FALSE)
      \/ /\ playing' = playing /\ queued' = filled /\ buf' = <<>>
         /\ started' = started /\ playing # <<>>
    BY <1>3 DEF Feeds, Starts, Primes, Underruns, Queues, Holds, StartedAfterIdle, channel
<1>10. \A seq \in {playing', queued', buf'} : seq \in {filled, playing, queued, <<>>}
    BY <1>9
<1>11. /\ \A d \in 1 .. Len(log) : Length(d)' = Length(d) /\ Length(d) \in Nat
       /\ 1 .. log_cursor \subseteq 1 .. Len(log) /\ log_cursor \in Nat
       /\ \A d \in 1 .. log_cursor : taken[d] \in Nat
    BY <1>4, TypeFacts DEF Length, Started
<1>12. TypeOK'
    <2>1. Holding(<<>>, BUF_CAP)
        BY EmptySeq, SinkAssumption DEF Holding
    <2>2. Holding(playing', BUF_CAP) /\ Holding(queued', BUF_CAP) /\ Holding(buf', BUF_CAP)
        BY <1>5, <1>10, <2>1 DEF TypeOK
    <2>3. started' \in BOOLEAN
        BY <1>9 DEF TypeOK
    <2>4. Holding(sfx', SFX_CAP)
        BY <1>7, <1>8 DEF Holding
    <2>5. last_pump' \in -1 .. MaxStall
        BY <1>4, SinkAssumption
    <2>6. pumping' \in BOOLEAN
        BY <1>4
    <2> QED
        BY <1>4, <1>6, <2>2, <2>3, <2>4, <2>5, <2>6 DEF TypeOK, Holding
<1>13. PcmLayout'
    <2>1. \A e \in 1 .. Len(log) : Length(e)' = Length(e)
        BY <1>11
    <2> QED
        BY <1>4, <2>1 DEF PcmLayout
<1>14. OnlyRead'
    <2>1. ASSUME NEW seq \in {filled, playing, queued, sfx, <<>>},
                 NEW k \in 1 .. Len(seq), NEW s \in seq[k]
          PROVE  s[1] <= log_cursor /\ s[2] <= Length(s[1])'
        <3>1. s[1] \in 1 .. log_cursor /\ s[2] <= Length(s[1])
            <4>1. CASE seq = filled
                BY <1>5, <2>1, <4>1
            <4>2. CASE seq \in {playing, queued, sfx}
                BY <2>1, <4>2, ReadFacts
            <4>3. CASE seq = <<>>
                BY <2>1, <4>3
            <4> QED
                BY <2>1, <4>1, <4>2, <4>3
        <3> QED
            BY <1>11, <3>1
    <2>2. IsRead(playing)' /\ IsRead(queued)' /\ IsRead(buf)'
        BY <1>4, <1>9, <2>1 DEF IsRead
    <2>3. IsRead(sfx)'
        BY <1>4, <1>8, <2>1 DEF IsRead
    <2> QED
        BY <2>2, <2>3 DEF OnlyRead
<1>15. Order'
    <2>1. \A e \in 1 .. log_cursor : Length(e)' > 0 => taken'[e] > 0
        <3> TAKE e \in 1 .. log_cursor
        <3>1. /\ taken'[e] = Least(taken[e] + n, Length(e))
              /\ taken[e] \in Nat /\ Length(e)' = Length(e) /\ Length(e) \in Nat
            BY <1>6, <1>11
        <3> QED
            BY <1>2, <3>1 DEF Least
    <2>2. filled # <<>> \/ Len(filled) < LEAD
        BY SinkAssumption
    <2>3. /\ ~started' => playing' = <<>>
          /\ playing' = <<>> => queued' = <<>>
        BY <1>5, <1>9, <2>2, SinkAssumption DEF Order
    <2> QED
        BY <1>4, <2>1, <2>3 DEF Order
<1>16. SfxInTime'
    <2>1. SUFFICES ASSUME NEW k \in 1 .. Len(sfx'), NEW s \in sfx'[k]
                   PROVE  /\ taken'[s[1]] + k <= s[2]
                          /\ taken'[s[1]] # 0
                          /\ Late(s[1])' <= s[2] - k - 1
        <3>1. \A k \in 1 .. Len(sfx') : \A s \in sfx'[k] :
                    /\ s[1] \in 1 .. log_cursor /\ s[2] \in Nat \ {0}
            BY <1>8, ReadFacts
        <3> QED
            BY <1>4, <1>6, <1>8, <3>1 DEF SfxInTime
    <2>2. k \in Nat \ {0} /\ k + n \in 1 .. Len(sfx) /\ s \in sfx[k + n]
        BY <1>8
    <2>3. /\ s[1] \in 1 .. log_cursor /\ s[2] \in Nat \ {0}
          /\ s[2] <= Length(s[1]) /\ Length(s[1]) \in Nat
          /\ taken[s[1]] \in Nat /\ Late(s[1]) \in Int
        BY <2>2, ReadFacts
    <2>4. /\ taken[s[1]] + (k + n) <= s[2]
          /\ IF taken[s[1]] = 0 THEN Late(s[1]) <= 0
             ELSE Late(s[1]) - last_pump <= s[2] - (k + n) - 1
        BY <2>2, <2>3 DEF InTime, SfxInTime
    <2>5. taken'[s[1]] = taken[s[1]] + n
        <3>1. taken'[s[1]] = Least(taken[s[1]] + n, Length(s[1]))
            BY <1>6, <2>3
        <3>2. taken[s[1]] + n <= Length(s[1])
            BY <1>2, <2>2, <2>3, <2>4
        <3> QED
            BY <1>2, <2>3, <3>1, <3>2 DEF Least
    <2>6. /\ Late(s[1])' \in Int /\ Late(s[1])' <= Late(s[1])
          /\ taken[s[1]] # 0 => Late(s[1])' <= Late(s[1]) - last_pump + n
        <3>1. PICK had \in Nat, place \in Nat, long \in Nat :
                had = taken[s[1]] /\ place = s[2] /\ long = Length(s[1])
            BY <2>3
        <3>2. had + (k + n) <= place /\ place <= long
            BY <2>3, <2>4, <3>1
        <3>3. had < long
            BY <1>2, <2>2, <3>2
        <3>4. had # 0 => UnderWay(s[1])
            BY <3>1, <3>3 DEF UnderWay
        <3> QED
            BY <1>6, <2>3, <3>1, <3>4
    <2>7. last_pump \in Int
        BY SinkAssumption DEF TypeOK
    <2>8. Late(s[1])' <= s[2] - k - 1
        <3>1. PICK was \in Int, is \in Int, place \in Nat :
                was = Late(s[1]) /\ is = Late(s[1])' /\ place = s[2]
            BY <2>3, <2>6
        <3>2. k + n <= place
            BY <1>2, <2>2, <2>3, <2>4, <3>1
        <3>3. \/ is <= 0
              \/ is <= was - last_pump + n /\ was - last_pump <= place - (k + n) - 1
            BY <2>3, <2>4, <2>6, <3>1
        <3>4. is <= place - k - 1
            BY <1>2, <2>2, <2>7, <3>2, <3>3
        <3> QED
            BY <3>1, <3>4
    <2> QED
        BY <1>2, <2>2, <2>3, <2>4, <2>5, <2>8
<1>17. BufInTime'
    <2>1. \A k \in 1 .. Len(filled) : \A s \in filled[k] :
            Late(s[1])' - 0 <= s[2] - 1 + Len(filled) - k
        BY <1>5
    <2>2. CASE buf' = filled
        BY <1>4, <2>1, <2>2 DEF BufInTime
    <2>3. CASE buf' = <<>>
        BY <2>3 DEF BufInTime
    <2> QED
        BY <1>9, <2>2, <2>3
<1>18. ChannelInTime' /\ QueuedInTime'
    <2>1. /\ Len(filled) <= BUF_CAP /\ BUF_CAP \in Nat
          /\ Len(playing) \in Nat /\ Len(playing) <= BUF_CAP
        BY <1>5, TypeFacts, SinkAssumption DEF Holding, TypeOK
    <2>2. ASSUME NEW k \in 1 .. Len(filled), NEW s \in filled[k]
          PROVE  /\ Late(s[1])' + k - s[2] < 2 * BUF_CAP
                 /\ Late(s[1])' + Len(playing) + k - s[2] < 2 * BUF_CAP
        <3>1. PICK is \in Int, place \in Nat :
                /\ is = Late(s[1])' /\ place = s[2]
                /\ is <= place - 1 + Len(filled) - k
            BY <1>5, <2>2
        <3>a. PICK new \in Nat, old \in Nat, cap \in Nat :
                /\ new = Len(filled) /\ old = Len(playing) /\ cap = BUF_CAP
                /\ new <= cap /\ old <= cap
            BY <1>5, <2>1
        <3>b. k \in Int /\ is <= place - 1 + new - k
            BY <3>1, <3>a
        <3>2. is + old + k - place < 2 * cap
            BY <3>a, <3>b
        <3>3. is + k - place < 2 * cap
            BY <3>a, <3>b
        <3> QED
            BY <3>1, <3>a, <3>2, <3>3
    <2>3. ASSUME NEW k \in 1 .. Len(playing), NEW s \in playing[k]
          PROVE  Late(s[1])' + k - s[2] < 2 * BUF_CAP
        <3>1. /\ s[1] \in 1 .. log_cursor /\ s[2] \in Nat /\ Late(s[1]) \in Int
            BY <2>3, ReadFacts
        <3>2. PICK was \in Int, is \in Int, place \in Nat :
                /\ was = Late(s[1]) /\ is = Late(s[1])' /\ place = s[2] /\ is <= was
            BY <1>6, <3>1
        <3>3. was + k - place < 2 * BUF_CAP
            BY <2>3, <3>2 DEF InTime, ChannelInTime
        <3>4. is + k - place < 2 * BUF_CAP
            BY <2>1, <3>2, <3>3
        <3> QED
            BY <3>2, <3>4
    <2>4. ASSUME NEW k \in 1 .. Len(queued), NEW s \in queued[k]
          PROVE  Late(s[1])' + Len(playing) + k - s[2] < 2 * BUF_CAP
        <3>1. /\ s[1] \in 1 .. log_cursor /\ s[2] \in Nat /\ Late(s[1]) \in Int
            BY <2>4, ReadFacts
        <3>2. PICK was \in Int, is \in Int, place \in Nat :
                /\ was = Late(s[1]) /\ is = Late(s[1])' /\ place = s[2] /\ is <= was
            BY <1>6, <3>1
        <3>3. was + Len(playing) + k - place < 2 * BUF_CAP
            BY <2>4, <3>2 DEF InTime, QueuedInTime
        <3>4. PICK before \in Int : before = Len(playing) + k
            BY <2>1, TypeFacts
        <3>5. was + Len(playing) + k - place = was + before - place
            BY <2>1, <3>4, TypeFacts
        <3>6. is + Len(playing) + k - place = is + before - place
            BY <2>1, <3>4, TypeFacts
        <3>7. is + before - place < 2 * BUF_CAP
            <4>1. is <= was /\ was + before - place < 2 * BUF_CAP
                BY <3>2, <3>3, <3>5
            <4> QED
                BY <2>1, <3>4, <4>1
        <3> QED
            BY <3>2, <3>6, <3>7
    <2>5. CASE playing' = filled /\ queued' = queued /\ ~started
        <3>1. queued' = <<>>
            BY <2>5 DEF Order
        <3> QED
            BY <2>2, <2>5, <3>1 DEF ChannelInTime, QueuedInTime
    <2>6. CASE playing' = playing /\ queued' = queued
        BY <2>3, <2>4, <2>6 DEF ChannelInTime, QueuedInTime
    <2>7. CASE playing' = playing /\ queued' = filled
        BY <2>2, <2>3, <2>7 DEF ChannelInTime, QueuedInTime
    <2> QED
        BY <1>9, <2>5, <2>6, <2>7
<1>19. EffectsIntact'
    <2>1. SUFFICES ASSUME \A d \in 1 .. Len(log) : Length(d) <= SFX_CAP
                   PROVE  /\ \A k \in 1 .. Len(sfx') :
                                sfx'[k] = {<<c, taken'[c] + k>> : c \in
                                    {d \in 1 .. log_cursor : taken'[d] + k <= Length(d)}}
                          /\ \A d \in 1 .. log_cursor : Len(sfx') >= Length(d) - taken'[d]
        <3>1. DOMAIN taken' = 1 .. log_cursor
            BY <1>6, LenProperties
        <3>2. \A d \in 1 .. log_cursor : Length(d)' = Length(d)
            BY <1>11
        <3> QED
            BY <1>4, <1>11, <3>1, <3>2 DEF EffectsIntact
    <2>2. /\ \A k \in 1 .. Len(sfx) :
                sfx[k] = {<<c, taken[c] + k>> : c \in
                    {d \in 1 .. log_cursor : taken[d] + k <= Length(d)}}
          /\ \A d \in 1 .. log_cursor : Len(sfx) >= Length(d) - taken[d]
        BY <2>1, TypeFacts DEF EffectsIntact
    <2>3. \A d \in 1 .. log_cursor :
            /\ taken'[d] = Least(taken[d] + n, Length(d))
            /\ taken[d] \in Nat /\ Length(d) \in Nat
        BY <1>6, <1>11
    <2>4. \A d \in 1 .. log_cursor : Len(sfx') >= Length(d) - taken'[d]
        <3> TAKE d \in 1 .. log_cursor
        <3>1. PICK was \in Nat, is \in Nat, long \in Nat :
                /\ was = taken[d] /\ is = taken'[d] /\ long = Length(d)
                /\ is = Least(was + n, long) /\ Len(sfx) >= long - was
            BY <1>2, <2>2, <2>3 DEF Least
        <3>2. Len(sfx') >= long - is
            BY <1>2, <1>7, <1>8, <3>1 DEF Least, Most
        <3> QED
            BY <3>1, <3>2
    <2>5. ASSUME NEW k \in 1 .. Len(sfx')
          PROVE  sfx'[k] = {<<c, taken'[c] + k>> : c \in
                                    {d \in 1 .. log_cursor : taken'[d] + k <= Length(d)}}
        <3>1. k \in Nat \ {0} /\ k + n \in 1 .. Len(sfx) /\ sfx'[k] = sfx[k + n]
            BY <1>8
        <3>2. sfx'[k] = {<<c, taken[c] + (k + n)>> : c \in
                    {d \in 1 .. log_cursor : taken[d] + (k + n) <= Length(d)}}
            BY <2>2, <3>1
        <3>3. \A d \in 1 .. log_cursor :
                /\ taken[d] + (k + n) <= Length(d) <=> taken'[d] + k <= Length(d)
                /\ taken'[d] + k <= Length(d) => taken[d] + (k + n) = taken'[d] + k
            BY <1>2, <2>3, <3>1 DEF Least
        <3> QED
            BY <3>2, <3>3
    <2> QED
        BY <2>4, <2>5
<1> QED
    BY <1>12, <1>13, <1>14, <1>15, <1>16, <1>17, <1>18, <1>19 DEF InTime

-----------------------------------------------------------------------------
(* The mixer plays a sample.                                               *)

LEMMA PlaysKeeps ==
    ASSUME IInv, Plays
    PROVE  IInv'
<1> USE DEF IInv, Layout
<1>1. /\ UNCHANGED <<log, pcm, log_cursor, pcm_cursor, sfx, buf, started, pumping, taken, missed>>
      /\ ~pumping /\ last_pump < MaxStall
      /\ last_pump' = IF last_pump = -1 THEN -1 ELSE last_pump + 1
      /\ \/ Len(playing) > 1 /\ playing' = Tail(playing) /\ queued' = queued
         \/ ~(Len(playing) > 1) /\ playing' = queued /\ queued' = <<>>
    BY DEF Plays, device
<1>2. /\ DOMAIN age = 1 .. log_cursor /\ log_cursor \in Nat
      /\ Len(playing) \in Nat /\ Len(queued) \in Nat
      /\ \A e \in 1 .. log_cursor : age[e] \in Nat
      /\ last_pump \in -1 .. MaxStall /\ BUF_CAP \in Nat
    <2>1. last_pump \in -1 .. MaxStall /\ BUF_CAP \in Nat
        BY SinkAssumption DEF TypeOK
    <2>2. log_cursor \in Nat
        BY TypeFacts
    <2> QED
        BY <2>1, <2>2, TypeFacts
<1>3. \A d \in 1 .. Len(log) : Length(d)' = Length(d)
    BY <1>1 DEF Length, Started
<1>4. \A e \in 1 .. log_cursor : age'[e] = age[e] + 1 \/ age'[e] = 0
    BY <1>2 DEF Plays
<1>5. age' \in Seq(Nat) /\ Len(age') = log_cursor
    <2>1. age' = [e \in 1 .. log_cursor |-> age'[e]]
        BY <1>2 DEF Plays
    <2>2. \A e \in 1 .. log_cursor : age'[e] \in Nat
        BY <1>2, <1>4
    <2>3. age' \in [1 .. log_cursor -> Nat]
        BY <2>1, <2>2
    <2> QED
        BY <1>2, <2>3, FunctionIsSeq
<1>6. \A e \in 1 .. log_cursor : Late(e)' \in Int /\ Late(e)' <= Late(e) + 1
    <2> TAKE e \in 1 .. log_cursor
    <2>1. age[e] \in Nat /\ missed[e] \in Nat /\ missed'[e] = missed[e]
        BY <1>1, TypeFacts
    <2> QED
        BY <1>4, <2>1 DEF Late
<1>e. Len(<<>>) = 0
    BY EmptySeq
<1> DEFINE Kept ==
        /\ Holding(playing', BUF_CAP) /\ Holding(queued', BUF_CAP)
        /\ IsRead(playing)' /\ IsRead(queued)'
        /\ ChannelInTime' /\ QueuedInTime'
        /\ playing' = <<>> => queued' = <<>>
        /\ ~started => playing' = <<>>
        /\ last_pump = -1 => playing' = <<>> /\ queued' = <<>>
<1>7. ASSUME Len(playing) > 1, playing' = Tail(playing), queued' = queued
      PROVE  Kept
    <2>1. /\ Holding(playing', BUF_CAP) /\ Len(playing') = Len(playing) - 1
          /\ \A k \in 1 .. Len(playing') : /\ k \in Nat /\ k + 1 \in 1 .. Len(playing)
                                           /\ playing'[k] = playing[k + 1]
        <3>1. playing \in Seq(SUBSET Sample) /\ Len(playing) <= BUF_CAP
            BY DEF TypeOK, Holding
        <3>2. playing # <<>>
            BY <1>7, EmptySeq
        <3>3. /\ Tail(playing) \in Seq(SUBSET Sample)
              /\ Len(Tail(playing)) = Len(playing) - 1
              /\ \A k \in 1 .. Len(Tail(playing)) : Tail(playing)[k] = playing[k + 1]
            BY <3>1, <3>2, HeadTailProperties
        <3> QED
            BY <1>2, <1>7, <3>1, <3>3 DEF Holding
    <2>2. playing' # <<>> /\ playing # <<>>
        <3>1. Len(playing') # 0 /\ Len(playing) # 0
            <4>1. Len(playing') = Len(playing) - 1 /\ Len(playing) > 1
                BY <1>7, <2>1
            <4>2. Len(playing) \in Nat
                BY <1>2
            <4> QED
                BY <4>1, <4>2
        <3> QED
            BY <1>e, <3>1
    <2>3. IsRead(playing)'
        <3>1. SUFFICES ASSUME NEW k \in 1 .. Len(playing'), NEW s \in playing'[k]
                       PROVE  s[1] <= log_cursor /\ s[2] <= Length(s[1])'
            BY <1>1 DEF IsRead
        <3>2. k + 1 \in 1 .. Len(playing) /\ s \in playing[k + 1]
            BY <2>1
        <3>3. s[1] \in 1 .. log_cursor /\ s[1] \in 1 .. Len(log) /\ s[2] <= Length(s[1])
            BY <3>2, ReadFacts
        <3> QED
            BY <1>2, <1>3, <3>3
    <2>4. ChannelInTime'
        <3>1. SUFFICES ASSUME NEW k \in 1 .. Len(playing'), NEW s \in playing'[k]
                       PROVE  Late(s[1])' + k - s[2] < 2 * BUF_CAP
            BY DEF ChannelInTime
        <3>2. k \in Nat /\ k + 1 \in 1 .. Len(playing) /\ s \in playing[k + 1]
            BY <2>1
        <3>3. s[1] \in 1 .. log_cursor /\ s[2] \in Nat /\ Late(s[1]) \in Int
            BY <3>2, ReadFacts
        <3>4. PICK was \in Int, is \in Int, place \in Nat :
                was = Late(s[1]) /\ is = Late(s[1])' /\ place = s[2] /\ is <= was + 1
            BY <1>6, <3>3
        <3>5. was + (k + 1) - place < 2 * BUF_CAP
            BY <3>2, <3>4 DEF InTime, ChannelInTime
        <3>6. is <= was + 1
            BY <3>4
        <3>7. is + k - place < 2 * BUF_CAP
            BY <1>2, <3>2, <3>5, <3>6
        <3> QED
            BY <3>4, <3>7
    <2>5. QueuedInTime'
        <3>1. SUFFICES ASSUME NEW k \in 1 .. Len(queued), NEW s \in queued[k]
                       PROVE  Late(s[1])' + (Len(playing) - 1) + k - s[2] < 2 * BUF_CAP
            BY <1>7, <2>1 DEF QueuedInTime
        <3>2. k \in Nat
            BY <1>2
        <3>3. s[1] \in 1 .. log_cursor /\ s[2] \in Nat /\ Late(s[1]) \in Int
            BY ReadFacts
        <3>4. PICK was \in Int, is \in Int, place \in Nat :
                was = Late(s[1]) /\ is = Late(s[1])' /\ place = s[2] /\ is <= was + 1
            BY <1>6, <3>3
        <3>5. was + Len(playing) + k - place < 2 * BUF_CAP
            BY <3>2, <3>4 DEF InTime, QueuedInTime
        <3>6. is <= was + 1 /\ Len(playing) \in Nat
            BY <1>2, <3>4
        <3>7. is + (Len(playing) - 1) + k - place < 2 * BUF_CAP
            BY <1>2, <3>2, <3>5, <3>6
        <3> QED
            BY <3>4, <3>7
    <2>6. IsRead(queued)'
        <3>1. ASSUME NEW k \in 1 .. Len(queued), NEW s \in queued[k]
              PROVE  s[1] <= log_cursor /\ s[2] <= Length(s[1])'
            <4>1. s[1] \in 1 .. log_cursor /\ s[1] \in 1 .. Len(log) /\ s[2] <= Length(s[1])
                BY <3>1, ReadFacts
            <4> QED
                BY <1>2, <1>3, <4>1
        <3> QED
            BY <1>1, <1>7, <3>1 DEF IsRead
    <2>7. Holding(queued', BUF_CAP)
        BY <1>7 DEF TypeOK
    <2>8. started /\ last_pump # -1
        BY <2>2 DEF Order
    <2> QED
        BY <2>1, <2>2, <2>3, <2>4, <2>5, <2>6, <2>7, <2>8
<1>8. ASSUME ~(Len(playing) > 1), playing' = queued, queued' = <<>>
      PROVE  Kept
    <2>1. Holding(<<>>, BUF_CAP) /\ Holding(queued, BUF_CAP)
        BY <1>2, EmptySeq DEF Holding, TypeOK
    <2>2. IsRead(queued)' /\ IsRead(playing)'
        <3>1. ASSUME NEW k \in 1 .. Len(queued), NEW s \in queued[k]
              PROVE  s[1] <= log_cursor /\ s[2] <= Length(s[1])'
            <4>1. s[1] \in 1 .. log_cursor /\ s[1] \in 1 .. Len(log) /\ s[2] <= Length(s[1])
                BY <3>1, ReadFacts
            <4> QED
                BY <1>2, <1>3, <4>1
        <3>2. IsRead(playing)'
            BY <1>1, <1>8, <3>1 DEF IsRead
        <3>3. IsRead(queued)'
            BY <1>8 DEF IsRead
        <3> QED
            BY <3>2, <3>3
    <2>3. ChannelInTime'
        <3>1. SUFFICES ASSUME NEW k \in 1 .. Len(queued), NEW s \in queued[k]
                       PROVE  Late(s[1])' + k - s[2] < 2 * BUF_CAP
            BY <1>8 DEF ChannelInTime
        <3>2. k \in Nat /\ queued # <<>>
            BY <1>2, EmptySeq
        <3>3. s[1] \in 1 .. log_cursor /\ s[2] \in Nat /\ Late(s[1]) \in Int
            BY ReadFacts
        <3>4. PICK was \in Int, is \in Int, place \in Nat :
                was = Late(s[1]) /\ is = Late(s[1])' /\ place = s[2] /\ is <= was + 1
            BY <1>6, <3>3
        <3>5. was + Len(playing) + k - place < 2 * BUF_CAP
            BY <3>2, <3>4 DEF InTime, QueuedInTime
        <3>6. is <= was + 1
            BY <3>4
        <3>7. Len(playing) = 1
            <4>1. playing # <<>> /\ playing \in Seq(SUBSET Sample)
                BY <3>2 DEF Order, TypeOK, Holding
            <4>2. Len(playing) \in Nat \ {0}
                BY <4>1, EmptySeq
            <4>3. PICK long \in Nat \ {0} : long = Len(playing)
                BY <4>2
            <4>4. ~(long > 1)
                BY <1>8, <4>3
            <4>5. long = 1
                BY <4>4
            <4> QED
                BY <4>3, <4>5
        <3>8. is + k - place < 2 * BUF_CAP
            BY <1>2, <3>2, <3>5, <3>6, <3>7
        <3> QED
            BY <3>4, <3>8
    <2>4. QueuedInTime'
        BY <1>8 DEF QueuedInTime
    <2>5. /\ ~started => playing' = <<>>
          /\ last_pump = -1 => playing' = <<>> /\ queued' = <<>>
        BY <1>8 DEF Order
    <2> QED
        BY <1>8, <2>1, <2>2, <2>3, <2>4, <2>5
<1>9. /\ Holding(playing', BUF_CAP) /\ Holding(queued', BUF_CAP)
      /\ IsRead(playing)' /\ IsRead(queued)'
      /\ ChannelInTime' /\ QueuedInTime'
      /\ playing' = <<>> => queued' = <<>>
      /\ ~started => playing' = <<>>
      /\ last_pump = -1 => playing' = <<>> /\ queued' = <<>>
    BY <1>1, <1>7, <1>8
<1>10. TypeOK'
    <2>1. last_pump' \in -1 .. MaxStall
        BY <1>1, <1>2, SinkAssumption
    <2> QED
        BY <1>1, <1>5, <1>9, <2>1 DEF TypeOK, Holding
<1>11. PcmLayout'
    BY <1>1, <1>3 DEF PcmLayout
<1>12. OnlyRead'
    <2>1. ASSUME NEW seq \in {sfx, buf}, NEW k \in 1 .. Len(seq), NEW s \in seq[k]
          PROVE  s[1] <= log_cursor /\ s[2] <= Length(s[1])'
        <3>1. s[1] \in 1 .. log_cursor /\ s[1] \in 1 .. Len(log) /\ s[2] <= Length(s[1])
            BY <2>1, ReadFacts
        <3> QED
            BY <1>2, <1>3, <3>1
    <2>2. IsRead(sfx)' /\ IsRead(buf)'
        BY <1>1, <2>1 DEF IsRead
    <2> QED
        BY <1>9, <2>2 DEF OnlyRead
<1>13. Order'
    <2>1. \A e \in 1 .. log_cursor : Length(e)' > 0 => taken[e] > 0
        BY <1>1, <1>3, TypeFacts DEF Order
    <2>2. last_pump' = -1 => last_pump = -1
        BY <1>1, <1>2
    <2> QED
        BY <1>1, <1>9, <2>1, <2>2 DEF Order
<1>14. SfxInTime'
    <2>1. SUFFICES ASSUME NEW k \in 1 .. Len(sfx), NEW s \in sfx[k]
                   PROVE  /\ taken[s[1]] + k <= s[2]
                          /\ IF taken[s[1]] = 0 THEN Late(s[1])' <= 0
                             ELSE Late(s[1])' - last_pump' <= s[2] - k - 1
        BY <1>1 DEF SfxInTime
    <2>2. /\ s[1] \in 1 .. log_cursor /\ s[1] \in 1 .. Len(log)
          /\ s[2] \in Nat \ {0} /\ s[2] <= Length(s[1]) /\ Length(s[1]) \in Nat
          /\ taken[s[1]] \in Nat /\ Late(s[1]) \in Int
        BY ReadFacts
    <2>3. taken[s[1]] # 0
        <3>1. Length(s[1]) > 0
            BY <2>2
        <3>2. taken[s[1]] > 0
            BY <1>1, <2>2, <3>1 DEF Order
        <3> QED
            BY <2>2, <3>2
    <2>4. k \in Nat /\ last_pump # -1
        <3>1. sfx # <<>> /\ k \in Nat
            BY TypeFacts, EmptySeq
        <3> QED
            BY <1>1, <3>1 DEF Order
    <2>5. taken[s[1]] + k <= s[2] /\ Late(s[1]) - last_pump <= s[2] - k - 1
        BY <2>3 DEF InTime, SfxInTime
    <2>6. PICK was \in Int, is \in Int, place \in Nat :
            was = Late(s[1]) /\ is = Late(s[1])' /\ place = s[2] /\ is <= was + 1
        BY <1>6, <2>2
    <2>7. was - last_pump <= place - k - 1 /\ is <= was + 1
        BY <2>5, <2>6
    <2>8. last_pump' = last_pump + 1 /\ last_pump \in Int
        BY <1>1, <1>2, <2>4
    <2>9. is - last_pump' <= place - k - 1
        BY <2>4, <2>7, <2>8
    <2> QED
        BY <2>3, <2>5, <2>6, <2>9
<1>15. BufInTime'
    <2>1. SUFFICES ASSUME NEW k \in 1 .. Len(buf), NEW s \in buf[k]
                   PROVE  Late(s[1])' - last_pump' <= s[2] - 1 + Len(buf) - k
        BY <1>1 DEF BufInTime
    <2>2. s[1] \in 1 .. log_cursor /\ s[2] \in Nat /\ Late(s[1]) \in Int
        BY ReadFacts
    <2>3. k \in Nat /\ Len(buf) \in Nat /\ last_pump # -1
        <3>1. buf # <<>> /\ k \in Nat /\ Len(buf) \in Nat
            BY TypeFacts, EmptySeq
        <3> QED
            BY <3>1 DEF Order
    <2>4. Late(s[1]) - last_pump <= s[2] - 1 + Len(buf) - k
        BY DEF InTime, BufInTime
    <2>5. PICK was \in Int, is \in Int, place \in Nat :
            was = Late(s[1]) /\ is = Late(s[1])' /\ place = s[2] /\ is <= was + 1
        BY <1>6, <2>2
    <2>6. was - last_pump <= place - 1 + Len(buf) - k /\ is <= was + 1
        BY <2>4, <2>5
    <2>7. last_pump' = last_pump + 1 /\ last_pump \in Int
        BY <1>1, <1>2, <2>3
    <2>8. is - last_pump' <= place - 1 + Len(buf) - k
        BY <2>3, <2>6, <2>7
    <2> QED
        BY <2>5, <2>8
<1>16. EffectsIntact'
    <2>1. \A d \in 1 .. log_cursor : Length(d)' = Length(d)
        BY <1>3, TypeFacts
    <2>2. DOMAIN taken = 1 .. log_cursor
        BY TypeFacts
    <2> QED
        BY <1>1, <1>3, <2>1, <2>2 DEF EffectsIntact
<1> QED
    BY <1>9, <1>10, <1>11, <1>12, <1>13, <1>14, <1>15, <1>16 DEF InTime

-----------------------------------------------------------------------------
(* The invariant.                                                          *)

LEMMA InitIInv ==
    ASSUME Init
    PROVE  IInv
<1> USE DEF Init
<1>1. \A S : <<>> \in Seq(S) /\ Len(<<>>) = 0
    BY EmptySeq
<1>2. TypeOK
    <2>1. Holding(<<>>, BUF_CAP) /\ Holding(<<>>, SFX_CAP)
        BY <1>1, SinkAssumption DEF Holding
    <2>2. started \in BOOLEAN /\ pumping \in BOOLEAN
        OBVIOUS
    <2> QED
        BY <1>1, <2>1, <2>2, SinkAssumption DEF TypeOK
<1>3. PcmLayout
    <2>1. [i \in 1 .. 1 |-> 0] \in [1 .. Len(log) + 1 -> 0 .. Len(pcm)]
        BY <1>1
    <2>2. /\ [i \in 1 .. 1 |-> 0][Len(log) + 1] = Len(pcm)
          /\ [i \in 1 .. 1 |-> 0][log_cursor + 1] = pcm_cursor
          /\ 1 .. Len(log) = {}
        BY <1>1
    <2> QED
        BY <2>1, <2>2 DEF PcmLayout
<1>4. OnlyRead /\ Order
    BY <1>1 DEF OnlyRead, IsRead, Order
<1>5. EffectsIntact
    BY <1>1 DEF EffectsIntact
<1>6. InTime
    BY <1>1 DEF InTime, SfxInTime, BufInTime, QueuedInTime, ChannelInTime
<1> QED
    BY <1>2, <1>3, <1>4, <1>5, <1>6 DEF IInv, Layout

LEMMA StutterKeeps ==
    ASSUME IInv, UNCHANGED vars
    PROVE  IInv'
<1>1. UNCHANGED <<log, pcm, log_cursor, pcm_cursor, sfx, buf, playing, queued,
                  started, last_pump, pumping, taken, age, missed>>
    BY DEF vars
<1>2. \A e : Length(e)' = Length(e)
    BY <1>1 DEF Length, Started
<1>3. TypeOK' /\ InTime'
    BY <1>1 DEF IInv, Layout, TypeOK, Holding, InTime, SfxInTime, BufInTime,
                QueuedInTime, ChannelInTime, Late
<1>4. PcmLayout' /\ OnlyRead' /\ Order' /\ EffectsIntact'
    BY <1>1, <1>2 DEF IInv, Layout, PcmLayout, OnlyRead, IsRead, Order, EffectsIntact
<1> QED
    BY <1>3, <1>4 DEF IInv, Layout

LEMMA NextKeeps == IInv /\ [Next]_vars => IInv'
<1> SUFFICES ASSUME IInv, [Next]_vars
             PROVE  IInv'
    OBVIOUS
<1>1. CASE \E len \in Lengths : Fires(len)
    BY <1>1, FiresKeeps
<1>2. CASE LogsOther
    BY <1>2, LogsOtherKeeps
<1>3. CASE Drains
    BY <1>3, DrainsKeeps
<1>4. CASE Feeds
    BY <1>4, FeedsKeeps
<1>5. CASE Plays
    BY <1>5, PlaysKeeps
<1>6. CASE UNCHANGED vars
    BY <1>6, StutterKeeps
<1> QED
    BY <1>1, <1>2, <1>3, <1>4, <1>5, <1>6 DEF Next, Pump

\* The buffers keep their caps and every effect its place, and each sample is in
\* time on its way to the channel: the invariant the others follow from.
THEOREM Invariant == Spec => []IInv
BY InitIInv, NextKeeps, PTL DEF Spec

\* The buffers of sink.py never pass their caps, whatever the pumps' times and
\* however many effects pile up.
THEOREM BuffersCapped == Spec => []TypeOK
<1>1. IInv => TypeOK
    BY DEF IInv, Layout
<1> QED
    BY <1>1, Invariant, PTL

\* _enqueue_sfx and _take_sfx keep every effect whole and in its place while no
\* effect is longer than the cap.
THEOREM MixingIsLossless == Spec => []EffectsIntact
<1>1. IInv => EffectsIntact
    BY DEF IInv
<1> QED
    BY <1>1, Invariant, PTL

\* A sample is played less than two buffers after its time, counted from the pump
\* that read its effect, but for the time of stalls within the effect that sink.py
\* drops (_last_pump = now); nothing else adds to the delay.
THEOREM LagIsTheStalls == Spec => []HeardSoon
<1>1. IInv => HeardSoon
    <2>1. SUFFICES ASSUME IInv, NEW k \in 1 .. Len(playing), NEW s \in playing[k]
                   PROVE  age[s[1]] + k - s[2] < 2 * BUF_CAP + missed[s[1]]
        BY DEF HeardSoon
    <2>2. Late(s[1]) + k - s[2] < 2 * BUF_CAP
        BY <2>1 DEF IInv, InTime, ChannelInTime
    <2>3. s[1] \in 1 .. log_cursor /\ s[2] \in Nat
        BY <2>1, ReadFacts DEF IInv, Layout
    <2>4. age[s[1]] \in Nat /\ missed[s[1]] \in Nat /\ k \in Nat /\ BUF_CAP \in Nat
        BY <2>1, <2>3, TypeFacts, SinkAssumption DEF IInv, Layout
    <2> QED
        BY <2>2, <2>3, <2>4 DEF Late
<1> QED
    BY <1>1, Invariant, PTL
=============================================================================
