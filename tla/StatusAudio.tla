---------------------------- MODULE StatusAudio ----------------------------
(***************************************************************************)
(* The scores of the status takeovers: the main task asks for the score of *)
(* the event that is due next, the worker on the second core renders it    *)
(* into one of two buffers and publishes it, and the main task arms it     *)
(* with the takeover and hands it to the speaker once the colour surface   *)
(* has been drawn.                                                         *)
(*                                                                         *)
(* The two cores share atomics and the buffers.  A step of the worker, and *)
(* a store of the main task, touches one of them; status_ready(), which    *)
(* loads the token first and the worker stores it last, is one step.       *)
(***************************************************************************)
EXTENDS Integers, Sequences, SequencesExt

CONSTANTS
  Chats,      \* the slots of the deck whose status may claim the panel
  Cues,       \* the cues of the statuses
  MaxEvents,  \* bound: events of one behaviour
  Switches    \* of "mute", "reset", "chime_lab": what may happen

ASSUME AudioConstants ==
  /\ "none" \notin Chats
  /\ Cues \cap {"none", "torn", "chime"} = {}
  /\ MaxEvents \in Nat
  /\ Switches \subseteq {"mute", "reset", "chime_lab"}

VARIABLES
  backlog,    \* announcements: what the slots have to tell, oldest first
  count,      \* history: the events so far, whose number is the token
  page,       \* "deck", or a surface that does not let a takeover start
  muted,      \* sound_volume = 0
  panel,      \* the takeover: announce_slot_index, its event, announcing(), and
              \* whether its colour surface was drawn
  pending,    \* announce_audio_armed
  at,         \* the step the main task is at
  requested,  \* requested_token, requested_cue
  notified,   \* the notification of synth_task
  prepared,   \* prepared_token, prepared_cue, prepared_buffer
  armed,      \* armed_buffer
  playing,    \* playing_buffer
  worker,     \* the step of synth_task, and what it renders where
  pcm,        \* status_pcm: the score each buffer holds
  speaker,    \* the buffer the DMA reads, and the score it was started for
  overtaken,  \* history: a score was asked for, or rendered again, since the last was armed
  rehearsed,  \* history: the chime lab wrote a buffer since a score was asked for
  skipped     \* history: a takeover started with the sound off while another event waited

events == <<backlog, count>>
shown == <<page, muted, panel>>
sound == <<armed, playing, speaker>>
synth == <<notified, prepared, worker, pcm>>
taint == <<overtaken, rehearsed, skipped>>
audio == <<backlog, count, page, muted, panel, pending, at, requested, notified, prepared,
           armed, playing, worker, pcm, speaker, overtaken, rehearsed, skipped>>

Score(token, cue) == [token |-> token, cue |-> cue]
Silence == Score(0, "none")
Torn == Score(0, "torn")     \* written in part, or by both cores
Chime == Score(0, "chime")
Of(event) == Score(event.token, event.cue)

\* The buffer a new score is rendered into: the one that does not play.
SameBuffer(active) == IF active = 1 THEN 1 ELSE 0
Target(active) == IF active = 0 THEN 1 ELSE 0

\* The worker has nothing to do.
Resting == worker.at = "wait" /\ ~notified

-----------------------------------------------------------------------------
(* Between two frames: what the rest of the main loop does.                *)

\* queue_announcement(): in the place of the older event of the slot, or last.
Announce(slot, cue) ==
  LET event == [slot |-> slot, token |-> count + 1, cue |-> cue, ripe |-> FALSE]
      old == {i \in DOMAIN backlog : backlog[i].slot = slot}
  IN /\ at = "idle" /\ count < MaxEvents
     /\ count' = count + 1
     /\ backlog' = IF old = {} THEN Append(backlog, event)
                 ELSE [i \in DOMAIN backlog |-> IF i \in old THEN event ELSE backlog[i]]
     /\ UNCHANGED <<shown, pending, at, requested, synth, sound, taint>>

\* The debounce of an event runs out; a frame reads it once, when it takes an event.
DebounceEnds(i) ==
  /\ at = "idle" /\ ~backlog[i].ripe
  /\ backlog' = [backlog EXCEPT ![i].ripe = TRUE]
  /\ UNCHANGED <<count, shown, pending, at, requested, synth, sound, taint>>

Turn(p) ==
  /\ at = "idle"
  /\ page' = p
  /\ UNCHANGED <<events, muted, panel, pending, at, requested, synth, sound, taint>>

\* toggle_sound(), adjust_volume()
Mute ==
  /\ at = "idle" /\ "mute" \in Switches
  /\ muted' = ~muted
  /\ UNCHANGED <<events, page, panel, pending, at, requested, synth, sound, taint>>

\* reset_presentation_sync(): cancel_status_announcements()
Reset ==
  /\ at = "idle" /\ "reset" \in Switches
  /\ backlog' = <<>>
  /\ panel' = [panel EXCEPT !.on = FALSE, !.slot = "none"]
  /\ pending' = FALSE
  /\ skipped' = FALSE
  /\ UNCHANGED <<count, page, muted, at, requested, synth, sound, overtaken, rehearsed>>

\* boot_music(), from the chime lab: the main task renders into buffer 0,
ChimeRender ==
  /\ at = "idle" /\ "chime_lab" \in Switches
  /\ page = "other" /\ ~muted
  /\ pcm' = [pcm EXCEPT ![0] = Torn]
  /\ speaker' = [buffer |-> -1, score |-> Silence, overtaken |-> FALSE]
  /\ worker' = [worker EXCEPT !.clash = @ \/ (worker.at = "render" /\ worker.target = 0)]
  /\ at' = "chime_reserve"
  /\ overtaken' = TRUE /\ rehearsed' = TRUE
  /\ UNCHANGED <<events, shown, pending, requested, notified, prepared, armed, playing,
                 skipped>>

\* reserves it,
ChimeReserve ==
  /\ at = "chime_reserve"
  /\ pcm' = [pcm EXCEPT ![0] =
       IF worker.clash /\ worker.target = 0 THEN Torn ELSE Chime]
  /\ playing' = 0
  /\ at' = "chime_play"
  /\ UNCHANGED <<events, shown, pending, requested, notified, prepared, worker,
                 armed, speaker, taint>>

\* and plays it.
ChimePlay ==
  /\ at = "chime_play"
  /\ speaker' = [buffer |-> 0, score |-> Chime, overtaken |-> TRUE]
  /\ at' = "idle"
  /\ UNCHANGED <<events, shown, pending, requested, synth, armed, playing, taint>>

\* The DMA has read its buffer to the end, long after play_prepared_status().  Nothing
\* waits for it.
SpeakerEnds ==
  /\ speaker.buffer >= 0 /\ at = "idle"
  /\ speaker' = [buffer |-> -1, score |-> Silence, overtaken |-> FALSE]
  /\ UNCHANGED <<events, shown, pending, at, requested, synth, armed, playing, taint>>

-----------------------------------------------------------------------------
(* A frame: ui::service() and render().                                    *)

\* The event that may take the panel next: of the slot on the panel while there is
\* one, else the oldest.
Candidates ==
  IF page # "deck" THEN {}
  ELSE {i \in DOMAIN backlog : IF panel.on THEN backlog[i].slot = panel.slot ELSE i = 1}

Frame ==
  /\ at = "idle"
  /\ at' = "request"
  /\ UNCHANGED <<events, shown, pending, requested, synth, sound, taint>>

\* request_status() of a score that is not the one asked for already ...
Wanted(i) == ~muted /\ requested # Of(backlog[i])

RequestCue ==
  /\ at = "request"
  /\ \E i \in Candidates :
       /\ Wanted(i)
       /\ requested' = [requested EXCEPT !.cue = backlog[i].cue]
  /\ at' = "request_token"
  /\ UNCHANGED <<events, shown, pending, synth, sound, taint>>

\* ... and the notification that follows.
RequestToken ==
  /\ at = "request_token"
  /\ \E i \in Candidates : requested' = [requested EXCEPT !.token = backlog[i].token]
  /\ overtaken' = TRUE
  /\ rehearsed' = (rehearsed /\ ~Resting)
  /\ at' = "notify"
  /\ UNCHANGED <<events, shown, pending, synth, sound, skipped>>

NotifyWaiting == notified' = (notified \/ worker.at = "wait")
Notify == notified' = TRUE

RequestNotify ==
  /\ at = "notify"
  /\ Notify
  /\ at' = "take"
  /\ UNCHANGED <<events, shown, pending, requested, prepared, worker, pcm, sound, taint>>

NoRequest ==
  /\ at = "request"
  /\ \A i \in Candidates : ~Wanted(i)
  /\ at' = "take"
  /\ UNCHANGED <<events, shown, pending, requested, synth, sound, taint>>

\* status_ready()
Prepared(event) == prepared.token = event.token /\ prepared.cue = event.cue /\ prepared.buffer >= 0
Startable(i) == backlog[i].ripe /\ (muted \/ Prepared(backlog[i]))

\* take_announcement_for_slot(), take_next_announcement(), start_announcement()
Take ==
  /\ at = "take"
  /\ \E i \in Candidates :
       /\ Startable(i)
       /\ panel' = [slot |-> backlog[i].slot, token |-> backlog[i].token, cue |-> backlog[i].cue,
                    on |-> TRUE, drawn |-> FALSE]
       /\ backlog' = RemoveAt(backlog, i)
  /\ skipped' = (skipped \/ muted)
  /\ at' = "arm"
  /\ UNCHANGED <<count, page, muted, pending, requested, synth, sound, overtaken, rehearsed>>

\* What was published is armed, wherever the worker is now.
IdleBuffer == Target(playing)
PreparedBuffer == prepared.buffer

\* arm_status(); the animation starts with the next frame.
Arm ==
  /\ at = "arm"
  /\ pending' = (~muted /\ Prepared(panel))
  /\ armed' = IF pending' THEN PreparedBuffer ELSE armed
  /\ overtaken' = (rehearsed \/ ~Resting)
  /\ skipped' = (skipped /\ backlog # <<>>)
  /\ at' = "play"
  /\ UNCHANGED <<events, shown, requested, synth, playing, speaker, rehearsed>>

\* No event starts: the animation on the panel goes on, to its colour surface and
\* to its end.
Age ==
  /\ at = "take"
  /\ \A i \in Candidates : ~Startable(i)
  /\ \/ UNCHANGED panel
     \/ panel.on /\ ~panel.drawn /\ panel' = [panel EXCEPT !.drawn = TRUE]
     \/ panel.on /\ panel.drawn /\ panel' = [panel EXCEPT !.on = FALSE]
  /\ at' = "play"
  /\ UNCHANGED <<events, page, muted, pending, requested, synth, sound, taint>>

\* play_prepared_status(), once the colour surface is on the LCD.
Due == at = "play" /\ pending /\ panel.drawn

NothingToPlay ==
  /\ at = "play"
  /\ ~(pending /\ panel.drawn)
  /\ at' = "idle"
  /\ UNCHANGED <<events, shown, pending, requested, synth, sound, taint>>

PlayMuted ==
  /\ Due /\ muted
  /\ armed' = -1
  /\ pending' = FALSE
  /\ at' = "idle"
  /\ UNCHANGED <<events, shown, requested, synth, playing, speaker, taint>>

\* The speaker, or its channel, does not take the score now.
Played == pending' = FALSE
Kept == UNCHANGED pending

PlayRefused ==
  /\ Due /\ ~muted
  /\ Kept
  /\ at' = "idle"
  /\ UNCHANGED <<events, shown, requested, synth, sound, taint>>

Play ==
  /\ Due /\ ~muted
  /\ speaker' = [buffer |-> armed, score |-> Of(panel), overtaken |-> overtaken]
  /\ at' = "disarm"
  /\ UNCHANGED <<events, shown, pending, requested, synth, armed, playing, taint>>

Disarm ==
  /\ at = "disarm"
  /\ armed' = -1
  /\ at' = "mark"
  /\ UNCHANGED <<events, shown, pending, requested, synth, playing, speaker, taint>>

\* The buffer that plays is the one the worker leaves alone.
MarkPlaying ==
  /\ at = "mark"
  /\ playing' = speaker.buffer
  /\ pending' = FALSE
  /\ at' = "idle"
  /\ UNCHANGED <<events, shown, requested, synth, armed, speaker, taint>>

-----------------------------------------------------------------------------
(* The worker: synth_task().                                               *)

Waiting == [at |-> "wait", score |-> Silence, target |-> 0, clash |-> FALSE]

WorkerAt(step) == worker' = IF step = "wait" THEN Waiting ELSE [worker EXCEPT !.at = step]

WakeUp ==
  /\ worker.at = "wait" /\ notified
  /\ notified' = FALSE
  /\ WorkerAt("token")
  /\ UNCHANGED <<events, shown, pending, at, requested, prepared, pcm, sound, taint>>

LoadToken ==
  /\ worker.at = "token"
  /\ worker' = IF requested.token = 0 THEN Waiting
               ELSE [worker EXCEPT !.at = "cue", !.score = [@ EXCEPT !.token = requested.token]]
  /\ UNCHANGED <<events, shown, pending, at, requested, notified, prepared, pcm, sound, taint>>

LoadCue ==
  /\ worker.at = "cue"
  /\ worker' = [worker EXCEPT !.at = "target", !.score = [@ EXCEPT !.cue = requested.cue]]
  /\ UNCHANGED <<events, shown, pending, at, requested, notified, prepared, pcm, sound, taint>>

\* build_status_gesture() takes hundreds of milliseconds, in which the other core
\* may write the buffer too.
BeginRender ==
  LET target == Target(playing)
  IN /\ worker.at = "target"
     /\ worker' = [worker EXCEPT !.at = "render", !.target = target,
                               !.clash = at = "chime_reserve" /\ target = 0]
     /\ pcm' = [pcm EXCEPT ![target] = Torn]
     /\ UNCHANGED <<events, shown, pending, at, requested, notified, prepared, sound, taint>>

EndRender ==
  /\ worker.at = "render"
  /\ pcm' = [pcm EXCEPT ![worker.target] = IF worker.clash THEN Torn ELSE worker.score]
  /\ WorkerAt("check")
  /\ UNCHANGED <<events, shown, pending, at, requested, notified, prepared, sound, taint>>

\* A request that was replaced meanwhile is not published.
StillWanted ==
  /\ worker.at = "check"
  /\ WorkerAt(IF requested = worker.score THEN "publish_cue" ELSE "wait")
  /\ UNCHANGED <<events, shown, pending, at, requested, notified, prepared, pcm, sound, taint>>

PublishCue ==
  /\ worker.at = "publish_cue"
  /\ prepared' = [prepared EXCEPT !.cue = worker.score.cue]
  /\ WorkerAt("publish_buffer")
  /\ UNCHANGED <<events, shown, pending, at, requested, notified, pcm, sound, taint>>

PublishBuffer ==
  /\ worker.at = "publish_buffer"
  /\ prepared' = [prepared EXCEPT !.buffer = worker.target]
  /\ WorkerAt("publish_token")
  /\ UNCHANGED <<events, shown, pending, at, requested, notified, pcm, sound, taint>>

PublishToken ==
  /\ worker.at = "publish_token"
  /\ prepared' = [prepared EXCEPT !.token = worker.score.token]
  /\ WorkerAt("wait")
  /\ UNCHANGED <<events, shown, pending, at, requested, notified, pcm, sound, taint>>

-----------------------------------------------------------------------------

\* With or without the startup chime, which plays before the main loop begins.
AudioInit ==
  /\ backlog = <<>> /\ count = 0
  /\ page \in {"deck", "other"} /\ muted = FALSE
  /\ panel = [slot |-> "none", token |-> 0, cue |-> "none", on |-> FALSE, drawn |-> FALSE]
  /\ pending = FALSE /\ at = "idle"
  /\ requested = Silence /\ notified = FALSE
  /\ prepared = [token |-> 0, cue |-> "none", buffer |-> -1]
  /\ armed = -1
  /\ worker = Waiting
  /\ overtaken = FALSE /\ rehearsed = FALSE /\ skipped = FALSE
  /\ \/ /\ playing = -1
        /\ pcm = [b \in 0..1 |-> Silence]
        /\ speaker = [buffer |-> -1, score |-> Silence, overtaken |-> FALSE]
     \/ /\ playing = 0
        /\ pcm = [b \in 0..1 |-> IF b = 0 THEN Chime ELSE Silence]
        /\ speaker = [buffer |-> 0, score |-> Chime, overtaken |-> FALSE]

MainLoop ==
  \/ \E slot \in Chats, cue \in Cues : Announce(slot, cue)
  \/ Mute \/ Reset \/ ChimeRender
  \/ \E p \in {"deck", "other"} : Turn(p)

FrameStep ==
  \/ Frame \/ RequestCue \/ RequestToken \/ RequestNotify \/ NoRequest
  \/ Take \/ Arm \/ Age
  \/ NothingToPlay \/ PlayMuted \/ PlayRefused \/ Play \/ Disarm \/ MarkPlaying
  \/ ChimeReserve \/ ChimePlay

WorkerStep ==
  \/ WakeUp \/ LoadToken \/ LoadCue \/ BeginRender \/ EndRender
  \/ StillWanted \/ PublishCue \/ PublishBuffer \/ PublishToken

Time == SpeakerEnds \/ \E i \in DOMAIN backlog : DebounceEnds(i)

AudioNext == MainLoop \/ FrameStep \/ WorkerStep \/ Time

AudioSpec == AudioInit /\ [][AudioNext]_audio

\* Both tasks run: a frame that began goes on, and so does the worker.
FairAudioSpec == AudioSpec /\ WF_audio(FrameStep) /\ WF_audio(WorkerStep)

-----------------------------------------------------------------------------
(* Properties.                                                             *)

Intact == speaker.buffer >= 0 => pcm[speaker.buffer] = speaker.score

\* "The DMA reads one while the worker prepares the next" (INTERACTION.md:151-152):
\* as long as a score, or the startup chime, plays, its buffer holds exactly
\* that, if the worker was at rest when the score was armed, no other one was asked
\* for before it was played, and the chime lab, which renders into buffer 0 whatever
\* is prepared there, was not used since the score was asked for.
HeardWhole == speaker.overtaken \/ Intact

\* "A replacement cannot reuse stale PCM" (audio.h:32): the buffer a takeover arms
\* holds the score of its own event, if the worker is at rest and the chime lab has
\* not written over what was prepared.
ArmsOwnScore ==
  [][Arm /\ pending' /\ Resting /\ ~rehearsed => pcm[armed'] = Of(panel)]_audio

\* The takeover and its sound go together ("instead of a silent animation",
\* SCENARIOS.ru.md:248-249): unless the sound is off, a takeover that starts has
\* a score, and keeps it until the speaker has taken it, or a newer takeover or
\* a new session took the panel.  A takeover that did not wait for its score, because
\* the sound was off, leaves the worker behind the queue: it may then publish that
\* score after the next event was found ready and before it is armed.
NoSilentTakeover ==
  [][/\ Arm /\ ~muted /\ ~skipped => pending'
     /\ pending /\ ~pending' => \/ at \in {"arm", "mark"}
                                \/ muted
                                \/ panel'.slot = "none"]_audio

\* No request gets lost between the cores, whatever the worker was doing when it was
\* made: what was published is the score asked for in the end.
RequestIsServed ==
  (at = "take" /\ prepared.token # requested.token) ~> prepared.token = requested.token

=============================================================================
