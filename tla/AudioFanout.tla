---------------------------- MODULE AudioFanout ----------------------------
(***************************************************************************)
(* From demodulated sound to its listeners (audio.rs, AudioSink).          *)
(*                                                                         *)
(* The audio worker pushes mono sound, or interleaved stereo.  A push      *)
(* first makes the channel count its own, dropping what was pending of     *)
(* another count, then adds its samples to what is pending and cuts that   *)
(* into frames of equal duration; each frame goes into the ring the        *)
(* transcriber reads and to the browsers.  Then the push goes, as mono, to *)
(* the queue the sound card empties.  A change of the receivers clears     *)
(* what is queued and what is pending, under one lock after the other and  *)
(* at any time.                                                            *)
(*                                                                         *)
(* A sample is the instant it is of and the channel it is for.             *)
(***************************************************************************)
EXTENDS Integers, Sequences

CONSTANTS
    FrameInstants,  \* instants in a frame
    MaxPush,        \* instants in a push
    QueueSize, RingSize,
    MaxInstants,    \* pushed in all
    MaxOutput       \* samples of a callback of the sound card

VARIABLES
    headless,       \* PULSESCOPE_AUDIO_OUTPUT=0
    channels,       \* of the last push
    pending,        \* remote_accumulator
    frames,         \* those sent by the last push
    ring, queue,
    pushing,        \* the push under way
    clearing,       \* clear_queue is between its two locks
    instant

audioVars == <<headless, channels, pending, frames, ring, queue, pushing, clearing, instant>>

Stereo(n) == IF n = 2 THEN <<"left", "right">> ELSE <<"mono">>
NoPush == [at |-> "none", samples |-> <<>>, channels |-> 1]

AudioInit ==
    /\ headless \in BOOLEAN
    /\ channels = 1 /\ pending = <<>> /\ frames = <<>> /\ ring = <<>> /\ queue = <<>>
    /\ pushing = NoPush /\ clearing = FALSE /\ instant = 0

\* Bounded: the newest n.
Newest(s, n) == IF Len(s) > n THEN SubSeq(s, Len(s) - n + 1, Len(s)) ELSE s

\* The mean over the channels, known by the instants it was taken of.
Mixed(samples, n) ==
    [k \in 1 .. Len(samples) \div n |->
        {samples[i][1] : i \in n * (k - 1) + 1 .. n * k}]

Push(n, count) ==
    /\ pushing.at = "none" /\ instant + count <= MaxInstants
    /\ pushing' = [at |-> "check", channels |-> n,
                   samples |-> [i \in 1 .. n * count |->
                                  <<instant + 1 + (i - 1) \div n, Stereo(n)[1 + ((i - 1) % n)]>>]]
    /\ instant' = instant + count
    /\ frames' = <<>>
    /\ UNCHANGED <<headless, channels, pending, ring, queue, clearing>>

\* Faulty variant: what is pending of another channel count stays.
CheckChannelsOnly ==
    /\ pushing.at = "check"
    /\ channels' = pushing.channels
    /\ pushing' = [pushing EXCEPT !.at = "cut"]
    /\ UNCHANGED <<headless, pending, frames, ring, queue, clearing, instant>>

CheckChannels ==
    /\ pushing.at = "check"
    /\ pending' = IF channels = pushing.channels THEN pending ELSE <<>>
    /\ channels' = pushing.channels
    /\ pushing' = [pushing EXCEPT !.at = "cut"]
    /\ UNCHANGED <<headless, frames, ring, queue, clearing, instant>>

CutFrames ==
    /\ pushing.at = "cut"
    /\ LET n == pushing.channels
           size == FrameInstants * n
           all == pending \o pushing.samples
           whole == Len(all) \div size
       IN  /\ frames' = [k \in 1 .. whole |->
                           [channels |-> n, samples |-> SubSeq(all, size * (k - 1) + 1, size * k)]]
           /\ pending' = SubSeq(all, size * whole + 1, Len(all))
           /\ ring' = Newest(ring \o Mixed(SubSeq(all, 1, size * whole), n), RingSize)
    /\ pushing' = IF headless THEN NoPush ELSE [pushing EXCEPT !.at = "queue"]
    /\ UNCHANGED <<headless, channels, queue, clearing, instant>>

QueueMono ==
    /\ pushing.at = "queue"
    /\ queue' = Newest(queue \o Mixed(pushing.samples, pushing.channels), QueueSize)
    /\ pushing' = NoPush
    /\ UNCHANGED <<headless, channels, pending, frames, ring, clearing, instant>>

\* The sound card's callback; where the queue is short it gets silence.
Output(count) ==
    /\ queue # <<>>
    /\ queue' = SubSeq(queue, count + 1, Len(queue))
    /\ UNCHANGED <<headless, channels, pending, frames, ring, pushing, clearing, instant>>

ClearQueue ==
    /\ ~clearing /\ (queue # <<>> \/ pending # <<>>)
    /\ queue' = <<>> /\ clearing' = TRUE
    /\ UNCHANGED <<headless, channels, pending, frames, ring, pushing, instant>>

ClearPending ==
    /\ clearing
    /\ pending' = <<>> /\ clearing' = FALSE
    /\ UNCHANGED <<headless, channels, frames, ring, queue, pushing, instant>>

AudioNext ==
    \/ \E n \in 1 .. 2, count \in 1 .. MaxPush : Push(n, count)
    \/ CheckChannels \/ CutFrames \/ QueueMono
    \/ \E count \in 1 .. MaxOutput : Output(count)
    \/ ClearQueue \/ ClearPending

(***************************************************************************)
(* Properties                                                              *)
(***************************************************************************)

OneInstantEach(mono) ==
    /\ \A k \in DOMAIN mono : \E t \in 1 .. MaxInstants : mono[k] = {t}
    /\ \A k, l \in DOMAIN mono : k < l => \A t \in mono[k], u \in mono[l] : t < u

\* Whatever alternates between mono and stereo and whenever it is cleared, a
\* frame a browser gets has one channel count, begins with the left channel and
\* runs over consecutive instants without a gap (audio.rs:267); what the
\* transcriber and the sound card get is in order, and no value of theirs is
\* mixed from two instants.
FramesAligned ==
    /\ \A k \in DOMAIN frames :
          LET frame == frames[k]
          IN  /\ Len(frame.samples) = FrameInstants * frame.channels
              /\ \A i \in DOMAIN frame.samples :
                    frame.samples[i] = <<frame.samples[1][1] + (i - 1) \div frame.channels,
                                         Stereo(frame.channels)[1 + ((i - 1) % frame.channels)]>>
    /\ OneInstantEach(ring) /\ OneInstantEach(queue)
=============================================================================
