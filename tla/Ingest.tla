------------------------------- MODULE Ingest -------------------------------
(***************************************************************************)
(* The ingestion of videos and their transcripts (ingest/run.py and        *)
(* sources/*.py): runs of `tsr ingest`, one of them the daily job, over    *)
(* the creators in the order of the configuration.  Between the listing of *)
(* a channel, the look-up of a video, the fetch and the insertion another  *)
(* run may go on and creators post; whatever the network does badly is a   *)
(* fault.                                                                  *)
(***************************************************************************)
EXTENDS Naturals, Sequences, FiniteSets

CONSTANTS
  Runs,
  Cron,         \* the run of scripts/daily_run.sh
  Creators,     \* the number of active creators
  MaxVideos,    \* bound on the videos of a creator
  Limit,        \* recent videos per creator that a run considers
  Captioned,    \* the videos that have captions
  Large,        \* the videos whose audio is more than OpenAI takes
  Backend,      \* settings.transcript.whisper_backend
  Installed,    \* its library, its key and ffmpeg are there
  ApiKey,       \* YOUTUBE_API_KEY is set
  Attempts,     \* stop_after_attempt of fetch_document
  MaxFaults     \* bound on what goes wrong

Creator == 1..Creators
Video == Creator \X (1..MaxVideos)

ASSUME RunsAssumption == Cron \in Runs
ASSUME VideosAssumption == Captioned \subseteq Video /\ Large \subseteq Video
ASSUME SettingsAssumption ==
  /\ Backend \in {"none", "faster_whisper", "openai_api"}
  /\ Installed \in BOOLEAN /\ ApiKey \in BOOLEAN
ASSUME NumbersAssumption ==
  /\ Creators \in Nat /\ MaxVideos \in Nat /\ MaxFaults \in Nat
  /\ Limit \in Nat \ {0} /\ Attempts \in Nat \ {0}

VARIABLES
  posted,      \* how many videos each creator has posted
  channels,    \* the creators with a Creator and a SourceChannel row
  documents,   \* the Document rows of each video
  run,         \* the local state of each run
  faults

vars == <<posted, channels, documents, run, faults>>

\* Where the segments of a document come from: captions, Whisper, Whisper that
\* heard nothing, or nobody who could be asked.  The last two have no segments.
Contents == {"captions", "whisper", "silent", "nothing"}

NoVideo == <<0, 0>>

\* A run and the adapter it shares among its creators.
Idle == [
  pc        |-> "idle",
  creator   |-> 1,
  todo      |-> {},         \* external_ids that the loop has not come to
  vid       |-> NoVideo,
  attempt   |-> 1,
  ipBlocked |-> FALSE,      \* YouTubeAdapter._ip_blocked
  raw       |-> "nothing" ]

Posted(v) == v[2] <= posted[v[1]]
Stored(v) == documents[v] # << >>

\* The video has dropped out of the recent ones of its creator.
Outside(v) == posted[v[1]] >= v[2] + Limit

Recent(c) == {v \in Video : v[1] = c /\ Posted(v) /\ ~ Outside(v)}

Newest(V) == {v \in V : \A w \in V : w[2] <= v[2]}
-----------------------------------------------------------------------------
At(r, pc) == run[r].pc = pc
Becomes(r, state) == run' = [run EXCEPT ![r] = state]

\* Something goes wrong.
Fault == faults < MaxFaults /\ faults' = faults + 1

Init ==
  /\ posted = [c \in Creator |-> 0]
  /\ channels = {}
  /\ documents = [v \in Video |-> << >>]
  /\ run = [r \in Runs |-> Idle]
  /\ faults = 0

Post(c) ==
  /\ posted[c] < MaxVideos
  /\ posted' = [posted EXCEPT ![c] = @ + 1]
  /\ UNCHANGED <<channels, documents, run, faults>>

\* ingest_all, with an adapter of its own.
Start(r) ==
  /\ At(r, "idle")
  /\ Becomes(r, [Idle EXCEPT !.pc = "creator"])
  /\ UNCHANGED <<posted, channels, documents, faults>>

\* The rows of the creator are looked up ...
Enter(r) ==
  /\ At(r, "creator")
  /\ run[r].creator <= Creators
  /\ Becomes(r, [run[r] EXCEPT !.pc = IF run[r].creator \in channels THEN "list" ELSE "register"])
  /\ UNCHANGED <<posted, channels, documents, faults>>

\* ... and inserted; if another run was faster the constraint ends this one.
Register(r) ==
  /\ At(r, "register")
  /\ channels' = channels \cup {run[r].creator}
  /\ Becomes(r, IF run[r].creator \in channels THEN Idle ELSE [run[r] EXCEPT !.pc = "list"])
  /\ UNCHANGED <<posted, documents, faults>>

\* All creators are done.
Return(r) ==
  /\ At(r, "creator")
  /\ run[r].creator > Creators
  /\ Becomes(r, Idle)
  /\ UNCHANGED <<posted, channels, documents, faults>>
-----------------------------------------------------------------------------
(* list_recent_documents *)

Lists(r, found) ==
  /\ At(r, "list")
  /\ Becomes(r, [run[r] EXCEPT !.pc = "next", !.todo = found])
  /\ UNCHANGED <<posted, channels, documents>>

\* The Data API, or yt-dlp when there is no key or the API refuses.
List(r) == Lists(r, Recent(run[r].creator)) /\ UNCHANGED faults

\* yt-dlp ignores errors: a listing that fails is an empty one.
ListNothing(r) == Lists(r, {}) /\ Fault

\* A transport error of the Data API is nobody's: it ends the run.
ListRaises(r) ==
  /\ At(r, "list") /\ ApiKey
  /\ Becomes(r, Idle)
  /\ Fault
  /\ UNCHANGED <<posted, channels, documents>>
-----------------------------------------------------------------------------
(* fetch_document *)

\* The next video is known already ...
Skip(r, v) ==
  /\ At(r, "next") /\ Stored(v)
  /\ Becomes(r, [run[r] EXCEPT !.todo = @ \ {v}])
  /\ UNCHANGED <<posted, channels, documents, faults>>

\* ... or it is fetched.
Take(r, v) ==
  /\ At(r, "next") /\ ~ Stored(v)
  /\ Becomes(r, [run[r] EXCEPT !.pc = "fetch", !.todo = @ \ {v}, !.vid = v, !.attempt = 1])
  /\ UNCHANGED <<posted, channels, documents, faults>>

\* The creator has no more videos.
EndCreator(r) ==
  /\ At(r, "next") /\ run[r].todo = {}
  /\ Becomes(r, [run[r] EXCEPT !.pc = "creator", !.creator = @ + 1])
  /\ UNCHANGED <<posted, channels, documents, faults>>

\* What the native endpoint answers when nothing goes wrong.
Native(v) == IF v \in Captioned THEN "captions" ELSE "missing"

\* What the Whisper backend answers when nothing goes wrong.
Whisper(v) ==
  IF Backend = "none" \/ ~ Installed \/ (Backend = "openai_api" /\ v \in Large)
    THEN {"unavailable"}
    ELSE {"whisper", "silent"}

\* Mutant: only a block of this very video counts.
TranscriptOfNow(r, native, whisper) ==
  IF native = "captions" THEN "captions"
  ELSE IF whisper # "unavailable" THEN whisper
  ELSE IF native = "blocked" THEN "blocked"
  ELSE "nothing"

\* _fetch_transcript_with_fallback: Whisper is asked if there are no captions,
\* for whatever reason, and must not fail once the IP is blocked.
Transcript(r, native, whisper) ==
  IF native = "captions" THEN "captions"
  ELSE IF whisper # "unavailable" THEN whisper
  ELSE IF run[r].ipBlocked \/ native = "blocked" THEN "blocked"
  ELSE "nothing"

\* Mutant: the attempts are counted, and never end.
AttemptAgain(r, blocked, transcript) ==
  /\ At(r, "fetch")
  /\ Becomes(r,
       IF transcript \in Contents THEN [run[r] EXCEPT !.pc = "persist", !.raw = transcript]
       ELSE [run[r] EXCEPT !.attempt = @ + 1])
  /\ UNCHANGED <<posted, channels, documents>>

\* Mutant: a run that is blocked tries again until it is not.
AttemptUntilServed(r, blocked, transcript) ==
  LET now == [run[r] EXCEPT !.ipBlocked = @ \/ blocked] IN
  /\ At(r, "fetch")
  /\ Becomes(r,
       IF transcript \in Contents THEN [now EXCEPT !.pc = "persist", !.raw = transcript]
       ELSE IF run[r].attempt < Attempts THEN [now EXCEPT !.attempt = @ + 1]
       ELSE IF transcript = "blocked" THEN now
       ELSE [now EXCEPT !.pc = "next", !.vid = NoVideo])
  /\ UNCHANGED <<posted, channels, documents>>

\* What an attempt leads to: the content of a document, another attempt, or, at
\* the last one, the next video or the end of the run.
Attempt(r, blocked, transcript) ==
  LET now == [run[r] EXCEPT !.ipBlocked = @ \/ blocked] IN
  /\ At(r, "fetch")
  /\ Becomes(r,
       IF transcript \in Contents THEN [now EXCEPT !.pc = "persist", !.raw = transcript]
       ELSE IF run[r].attempt < Attempts THEN [now EXCEPT !.attempt = @ + 1]
       ELSE IF transcript = "blocked" THEN Idle
       ELSE [now EXCEPT !.pc = "next", !.vid = NoVideo])
  /\ UNCHANGED <<posted, channels, documents>>

\* Once the IP is blocked the native endpoint is left alone.
Transcribe(r, native, whisper) ==
  /\ native = "skipped" <=> run[r].ipBlocked
  /\ Attempt(r, native = "blocked", Transcript(r, native, whisper))

Fetch(r) ==
  /\ \E native \in {"skipped", Native(run[r].vid)}, whisper \in Whisper(run[r].vid) :
       Transcribe(r, native, whisper)
  /\ UNCHANGED faults

\* The endpoint blocks the address, or fails in another way.
FetchBadly(r) ==
  /\ \E native \in {"blocked", "error"}, whisper \in Whisper(run[r].vid) :
       Transcribe(r, native, whisper)
  /\ Fault

\* The look-up of the metadata fails, before anyone is asked ...
MetadataRaises(r) == Attempt(r, FALSE, "error") /\ Fault

\* ... or the download of the audio or its transcription.
WhisperRaises(r) ==
  /\ \E native \in {"skipped", Native(run[r].vid)}, whisper \in {"error", "unavailable"} :
       native # "captions" /\ Transcribe(r, native, whisper)
  /\ Fault
-----------------------------------------------------------------------------
(* _persist_document *)

\* Mutant: nothing keeps a video from being stored twice.
PersistTwice(r) ==
  /\ At(r, "persist")
  /\ documents' = [documents EXCEPT ![run[r].vid] = Append(@, run[r].raw)]
  /\ Becomes(r, [run[r] EXCEPT !.pc = "next", !.vid = NoVideo, !.raw = "nothing"])
  /\ UNCHANGED <<posted, channels, faults>>

\* The document and its segments are inserted in one transaction; if another
\* run was faster the constraint ends this one.
Persist(r) ==
  LET v == run[r].vid IN
  /\ At(r, "persist")
  /\ IF Stored(v)
       THEN Becomes(r, Idle) /\ UNCHANGED documents
       ELSE /\ documents' = [documents EXCEPT ![v] = <<run[r].raw>>]
            /\ Becomes(r, [run[r] EXCEPT !.pc = "next", !.vid = NoVideo, !.raw = "nothing"])
  /\ UNCHANGED <<posted, channels, faults>>

Crash(r) ==
  /\ ~ At(r, "idle")
  /\ Fault
  /\ Becomes(r, Idle)
  /\ UNCHANGED <<posted, channels, documents>>
-----------------------------------------------------------------------------
Step(r) ==
  \/ Enter(r) \/ Register(r) \/ Return(r)
  \/ List(r) \/ ListNothing(r) \/ ListRaises(r)
  \/ \E v \in Newest(run[r].todo) : Skip(r, v) \/ Take(r, v)
  \/ EndCreator(r)
  \/ Fetch(r) \/ FetchBadly(r) \/ MetadataRaises(r) \/ WhisperRaises(r)
  \/ Persist(r)

Next ==
  \/ \E c \in Creator : Post(c)
  \/ \E r \in Runs : Start(r) \/ Step(r) \/ Crash(r)

\* launchd starts the daily job again and again, and a process that lives goes
\* on; nothing makes a creator post or anyone start a run by hand.
Fairness == WF_vars(Start(Cron)) /\ \A r \in Runs : WF_vars(Step(r))

Spec == Init /\ [][Next]_vars /\ Fairness
-----------------------------------------------------------------------------
(* Properties *)

Local == [
  pc : {"idle", "creator", "register", "list", "next", "fetch", "persist"},
  creator : 1..(Creators + 1), todo : SUBSET Video, vid : Video \cup {NoVideo},
  attempt : 1..Attempts, ipBlocked : BOOLEAN, raw : Contents ]

\* The rows, the local state of a run, and the video it has in hand.
TypeOK ==
  /\ posted \in [Creator -> 0..MaxVideos]
  /\ channels \subseteq Creator
  /\ documents \in [Video -> Seq(Contents)]
  /\ run \in [Runs -> Local]
  /\ faults \in 0..MaxFaults
  /\ \A r \in Runs : run[r].pc \in {"fetch", "persist"} => run[r].vid \in Video

\* "A blocked IP looks identical to a missing transcript" (ADR 0004): a run that
\* has been blocked, on whichever video and creator, stores no document for
\* want of anyone to ask.
BlockedIsNeverEmpty ==
  \A r \in Runs : At(r, "persist") /\ run[r].raw = "nothing" => ~ run[r].ipBlocked

\* Whoever overlaps and whatever fails, the documents are an archive: one for a
\* video, once it is posted, and for ever.
Archived == INSTANCE Archive WITH posted <- posted, documents <- documents
ImplementsArchive == Archived!Spec

\* Every video gets its document, unless its creator posts so many more before
\* a run comes to it that it drops out of the recent ones.
EveryVideoIsSettled == \A v \in Video : Posted(v) ~> Stored(v) \/ Outside(v)
=============================================================================
