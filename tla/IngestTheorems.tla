---------------------------- MODULE IngestTheorems ----------------------------
(***************************************************************************)
(* Proofs about Ingest: for any number of runs, creators and faults, the   *)
(* documents are an archive, and a blocked run stores no empty document.   *)
(***************************************************************************)
EXTENDS Ingest, TLAPS

(***************************************************************************)
(* What holds of the local state of a run: the videos it has listed and    *)
(* the one in hand are posted, it is inside the list of creators unless it *)
(* has finished it, and a document without anyone to ask was not blocked.  *)
(***************************************************************************)
Busy == {"register", "list", "next", "fetch", "persist"}

Good(s) ==
  /\ s \in Local
  /\ \A v \in s.todo : Posted(v)
  /\ s.pc \in Busy => s.creator \in Creator
  /\ s.pc \in {"fetch", "persist"} => s.vid \in Video /\ Posted(s.vid)
  /\ s.pc = "persist" /\ s.raw = "nothing" => ~ s.ipBlocked

Inv ==
  /\ posted \in [Creator -> 0..MaxVideos]
  /\ channels \subseteq Creator
  /\ documents \in [Video -> Seq(Contents)]
  /\ run \in [Runs -> Local]
  /\ faults \in 0..MaxFaults
  /\ \A r \in Runs : Good(run[r])

LEMMA InvImplies == Inv => TypeOK /\ BlockedIsNeverEmpty
BY DEF Inv, Good, TypeOK, BlockedIsNeverEmpty, At

LEMMA IdleIsGood == Good(Idle)
<1>1. Idle \in Local
  <2>1. 1 \in 1..(Creators + 1) /\ 1 \in 1..Attempts
    BY NumbersAssumption
  <2> QED
    BY <2>1 DEF Idle, Local, Contents
<1> QED
  BY <1>1 DEF Good, Idle, Busy

LEMMA InitInv == Init => Inv
<1> SUFFICES ASSUME Init PROVE Inv
  OBVIOUS
<1>1. posted \in [Creator -> 0..MaxVideos] /\ faults \in 0..MaxFaults
  BY NumbersAssumption DEF Init
<1>2. documents \in [Video -> Seq(Contents)]
  BY DEF Init
<1>3. run \in [Runs -> Local] /\ \A r \in Runs : Good(run[r])
  BY IdleIsGood DEF Init, Good
<1> QED
  BY <1>1, <1>2, <1>3 DEF Inv, Init
-----------------------------------------------------------------------------
(***************************************************************************)
(* The actions, one by one: each gives the run a good state.               *)
(***************************************************************************)
Moves(r) == \E s : Good(s) /\ Becomes(r, s)

LEMMA RecentIsPosted ==
  ASSUME NEW c
  PROVE  Recent(c) \in SUBSET Video /\ \A v \in Recent(c) : Posted(v)
BY DEF Recent

LEMMA EnterMoves ==
  ASSUME Inv, NEW r \in Runs, Enter(r)
  PROVE  Moves(r)
<1> DEFINE s == [run[r] EXCEPT !.pc = IF run[r].creator \in channels THEN "list" ELSE "register"]
<1>1. Good(run[r]) /\ run[r].creator <= Creators /\ Becomes(r, s)
  BY DEF Inv, Enter
<1>2. run[r].creator \in Creator
  BY <1>1, NumbersAssumption DEF Good, Local, Creator
<1>3. Good(s)
  BY <1>1, <1>2 DEF Good, Local
<1> QED
  BY <1>1, <1>3 DEF Moves

LEMMA RegisterMoves ==
  ASSUME Inv, NEW r \in Runs, Register(r)
  PROVE  Moves(r) /\ channels' \subseteq Creator
<1> DEFINE s == [run[r] EXCEPT !.pc = "list"]
<1>1. Good(run[r]) /\ run[r].pc = "register" /\ run[r].creator \in Creator
  BY DEF Inv, Register, At, Good, Busy
<1>2. Good(s)
  BY <1>1 DEF Good, Local
<1>3. Becomes(r, Idle) \/ Becomes(r, s)
  BY DEF Register
<1>4. channels' \subseteq Creator
  BY <1>1 DEF Register, Inv
<1> QED
  BY <1>2, <1>3, <1>4, IdleIsGood DEF Moves

LEMMA ListsMoves ==
  ASSUME Inv, NEW r \in Runs, NEW found \in SUBSET Video, \A v \in found : Posted(v),
         Lists(r, found)
  PROVE  Moves(r)
<1> DEFINE s == [run[r] EXCEPT !.pc = "next", !.todo = found]
<1>1. Good(run[r]) /\ run[r].pc = "list" /\ Becomes(r, s)
  BY DEF Inv, Lists, At
<1>2. Good(s)
  BY <1>1 DEF Good, Local, Busy
<1> QED
  BY <1>1, <1>2 DEF Moves

LEMMA SkipMoves ==
  ASSUME Inv, NEW r \in Runs, NEW v, Skip(r, v)
  PROVE  Moves(r)
<1> DEFINE s == [run[r] EXCEPT !.todo = @ \ {v}]
<1>1. Good(run[r]) /\ Becomes(r, s)
  BY DEF Inv, Skip
<1>2. Good(s)
  <2>1. run[r].todo \ {v} \in SUBSET Video
    BY <1>1 DEF Good, Local
  <2> QED
    BY <1>1, <2>1 DEF Good, Local
<1> QED
  BY <1>1, <1>2 DEF Moves

LEMMA TakeMoves ==
  ASSUME Inv, NEW r \in Runs, NEW v \in run[r].todo, Take(r, v)
  PROVE  Moves(r)
<1> DEFINE s == [run[r] EXCEPT !.pc = "fetch", !.todo = @ \ {v}, !.vid = v, !.attempt = 1]
<1>1. Good(run[r]) /\ run[r].pc = "next" /\ Becomes(r, s)
  BY DEF Inv, Take, At
<1>2. Good(s)
  <2>1. run[r].todo \ {v} \in SUBSET Video /\ v \in Video /\ Posted(v)
    BY <1>1 DEF Good, Local
  <2>2. 1 \in 1..Attempts
    BY NumbersAssumption
  <2> QED
    BY <1>1, <2>1, <2>2 DEF Good, Local, Busy
<1> QED
  BY <1>1, <1>2 DEF Moves

LEMMA EndCreatorMoves ==
  ASSUME Inv, NEW r \in Runs, EndCreator(r)
  PROVE  Moves(r)
<1> DEFINE s == [run[r] EXCEPT !.pc = "creator", !.creator = @ + 1]
<1>1. Good(run[r]) /\ run[r].pc = "next" /\ Becomes(r, s)
  BY DEF Inv, EndCreator, At
<1>2. run[r].creator + 1 \in 1..(Creators + 1)
  BY <1>1, NumbersAssumption DEF Good, Busy, Creator
<1>3. Good(s)
  BY <1>1, <1>2 DEF Good, Local, Busy
<1> QED
  BY <1>1, <1>3 DEF Moves

(***************************************************************************)
(* An attempt that ends with nothing was not blocked, now or before.       *)
(***************************************************************************)
LEMMA AttemptMoves ==
  ASSUME Inv, NEW r \in Runs, NEW blocked \in BOOLEAN, NEW transcript,
         Attempt(r, blocked, transcript),
         transcript = "nothing" => ~ run[r].ipBlocked /\ ~ blocked
  PROVE  Moves(r) /\ UNCHANGED <<posted, channels, documents>>
<1> DEFINE flag == run[r].ipBlocked \/ blocked
           now == [run[r] EXCEPT !.ipBlocked = @ \/ blocked]
           persist == [now EXCEPT !.pc = "persist", !.raw = transcript]
           again == [now EXCEPT !.attempt = @ + 1]
           skip == [now EXCEPT !.pc = "next", !.vid = NoVideo]
<1>1. Good(run[r]) /\ run[r].pc = "fetch"
  BY DEF Inv, Attempt, At
<1>2. flag \in BOOLEAN /\ now = [run[r] EXCEPT !.ipBlocked = flag]
  OBVIOUS
<1>3. Good(now) /\ now.pc = "fetch" /\ now.ipBlocked = flag /\ now.attempt = run[r].attempt
  BY <1>1 DEF Good, Local
<1>4. /\ transcript \in Contents => Becomes(r, persist)
      /\ transcript \notin Contents =>
           \/ run[r].attempt < Attempts /\ Becomes(r, again)
           \/ Becomes(r, Idle)
           \/ Becomes(r, skip)
  BY DEF Attempt
<1>5. ASSUME transcript \in Contents PROVE Good(persist)
  <2>1. now \in Local
    BY <1>3 DEF Good
  <2>2. persist \in Local
    BY <1>5, <2>1 DEF Local
  <2>3. persist.raw = "nothing" => ~ flag
    BY <2>1 DEF Local
  <2> HIDE DEF flag
  <2> QED
    BY <1>3, <2>1, <2>2, <2>3 DEF Good, Local, Busy
<1>6. ASSUME run[r].attempt < Attempts PROVE Good(again)
  <2>1. now.attempt + 1 \in 1..Attempts
    BY <1>3, <1>6, NumbersAssumption DEF Good, Local
  <2>2. now \in Local
    BY <1>3 DEF Good
  <2> HIDE DEF now
  <2>3. again \in Local
    BY <2>1, <2>2 DEF Local
  <2> QED
    BY <1>3, <2>2, <2>3 DEF Good, Local
<1>7. Good(skip)
  <2> HIDE DEF now
  <2> QED
    BY <1>3 DEF Good, Local, Busy
<1> QED
  BY <1>4, <1>5, <1>6, <1>7, IdleIsGood DEF Moves, Attempt

LEMMA TranscribeMoves ==
  ASSUME Inv, NEW r \in Runs, NEW native, NEW whisper, Transcribe(r, native, whisper),
         whisper # "nothing"
  PROVE  Moves(r) /\ UNCHANGED <<posted, channels, documents>>
<1>1. Transcript(r, native, whisper) = "nothing" => ~ run[r].ipBlocked /\ native # "blocked"
  BY DEF Transcript
<1>2. Attempt(r, native = "blocked", Transcript(r, native, whisper))
  BY DEF Transcribe
<1>3. (native = "blocked") \in BOOLEAN
  OBVIOUS
<1> QED
  BY <1>1, <1>2, <1>3, AttemptMoves

LEMMA PersistMoves ==
  ASSUME Inv, NEW r \in Runs, Persist(r)
  PROVE  /\ Moves(r)
         /\ \/ UNCHANGED documents
            \/ Archived!Store(run[r].vid, run[r].raw)
         /\ run[r].vid \in Video /\ run[r].raw \in Contents
<1> DEFINE s == [run[r] EXCEPT !.pc = "next", !.vid = NoVideo, !.raw = "nothing"]
           v == run[r].vid
<1>1. Good(run[r]) /\ run[r].pc = "persist"
  BY DEF Inv, Persist, At
<1>2. v \in Video /\ Posted(v) /\ run[r].raw \in Contents
  BY <1>1 DEF Good, Local
<1>3. Good(s)
  BY <1>1 DEF Good, Local, Contents, Busy
<1>4. CASE Stored(v)
  BY <1>2, <1>4, IdleIsGood DEF Persist, Moves
<1>5. CASE ~ Stored(v)
  BY <1>2, <1>3, <1>5 DEF Persist, Moves, Stored, Archived!Store, Archived!Posted, Posted
<1> QED
  BY <1>4, <1>5
-----------------------------------------------------------------------------
(***************************************************************************)
(* What a step of a run does: it moves the run and counts its fault, and   *)
(* to the documents it does nothing or what the archive allows.            *)
(***************************************************************************)
Archives ==
  \/ UNCHANGED documents
  \/ \E v \in Video, content \in Contents : Archived!Store(v, content)

Effect(r) ==
  /\ Moves(r)
  /\ UNCHANGED posted /\ channels' \subseteq Creator
  /\ UNCHANGED faults \/ Fault
  /\ Archives

LEMMA FetchEffect ==
  ASSUME Inv, NEW r \in Runs,
         Fetch(r) \/ FetchBadly(r) \/ MetadataRaises(r) \/ WhisperRaises(r)
  PROVE  Effect(r)
<1>1. \A v : "nothing" \notin Whisper(v)
  BY DEF Whisper
<1>2. channels \subseteq Creator
  BY DEF Inv
<1>3. CASE Fetch(r)
  <2>1. PICK native \in {"skipped", Native(run[r].vid)}, whisper \in Whisper(run[r].vid) :
          Transcribe(r, native, whisper)
    BY <1>3, Zenon DEF Fetch
  <2>2. whisper # "nothing"
    BY <1>1
  <2> QED
    BY <1>2, <1>3, <2>1, <2>2, TranscribeMoves DEF Effect, Archives, Fetch
<1>4. CASE FetchBadly(r)
  <2>1. PICK native \in {"blocked", "error"}, whisper \in Whisper(run[r].vid) :
          Transcribe(r, native, whisper)
    BY <1>4, Zenon DEF FetchBadly
  <2>2. whisper # "nothing"
    BY <1>1
  <2> QED
    BY <1>2, <1>4, <2>1, <2>2, TranscribeMoves DEF Effect, Archives, FetchBadly
<1>5. CASE MetadataRaises(r)
  <2>1. Moves(r) /\ UNCHANGED <<posted, channels, documents>>
    BY <1>5, AttemptMoves DEF MetadataRaises
  <2> QED
    BY <1>2, <1>5, <2>1 DEF Effect, Archives, MetadataRaises
<1>6. CASE WhisperRaises(r)
  <2>1. PICK native \in {"skipped", Native(run[r].vid)}, whisper \in {"error", "unavailable"} :
          native # "captions" /\ Transcribe(r, native, whisper)
    BY <1>6, Zenon DEF WhisperRaises
  <2>2. whisper # "nothing"
    OBVIOUS
  <2> QED
    BY <1>2, <1>6, <2>1, <2>2, TranscribeMoves DEF Effect, Archives, WhisperRaises
<1> QED
  BY <1>3, <1>4, <1>5, <1>6

LEMMA StepEffect ==
  ASSUME Inv, NEW r \in Runs, Start(r) \/ Step(r) \/ Crash(r)
  PROVE  Effect(r)
<1>1. channels \subseteq Creator /\ Good(run[r])
  BY DEF Inv
<1>2. CASE Start(r)
  <2> DEFINE s == [Idle EXCEPT !.pc = "creator"]
  <2>1. Good(s)
    <3>1. Idle \in Local
      BY IdleIsGood DEF Good
    <3> QED
      BY <3>1 DEF Good, Local, Idle, Busy
  <2> QED
    BY <1>1, <1>2, <2>1 DEF Start, Effect, Moves, Archives
<1>3. CASE Enter(r)
  BY <1>1, <1>3, EnterMoves DEF Enter, Effect, Archives
<1>4. CASE Register(r)
  BY <1>4, RegisterMoves DEF Register, Effect, Archives
<1>5. CASE Return(r)
  BY <1>1, <1>5, IdleIsGood DEF Return, Effect, Archives, Moves
<1>6. CASE List(r)
  BY <1>1, <1>6, RecentIsPosted, ListsMoves DEF List, Lists, Effect, Archives
<1>7. CASE ListNothing(r)
  <2>1. Lists(r, {}) /\ {} \in SUBSET Video /\ \A v \in {} : Posted(v)
    BY <1>7 DEF ListNothing
  <2>2. Moves(r)
    BY <2>1, ListsMoves
  <2> QED
    BY <1>1, <1>7, <2>2 DEF ListNothing, Lists, Effect, Archives
<1>8. CASE ListRaises(r)
  BY <1>1, <1>8, IdleIsGood DEF ListRaises, Effect, Archives, Moves
<1>9. ASSUME NEW v \in Newest(run[r].todo), Skip(r, v) PROVE Effect(r)
  BY <1>1, <1>9, SkipMoves DEF Skip, Effect, Archives
<1>10. ASSUME NEW v \in Newest(run[r].todo), Take(r, v) PROVE Effect(r)
  <2>1. v \in run[r].todo
    BY DEF Newest
  <2> QED
    BY <1>1, <1>10, <2>1, TakeMoves DEF Take, Effect, Archives
<1>11. CASE EndCreator(r)
  BY <1>1, <1>11, EndCreatorMoves DEF EndCreator, Effect, Archives
<1>12. CASE Persist(r)
  BY <1>1, <1>12, PersistMoves DEF Persist, Effect, Archives
<1>13. CASE Crash(r)
  BY <1>1, <1>13, IdleIsGood DEF Crash, Effect, Archives, Moves
<1> QED
  BY <1>2, <1>3, <1>4, <1>5, <1>6, <1>7, <1>8, <1>9, <1>10, <1>11, <1>12, <1>13, FetchEffect
  DEF Step
-----------------------------------------------------------------------------
LEMMA NextInv == Inv /\ [Next]_vars => Inv'
<1> SUFFICES ASSUME Inv, [Next]_vars PROVE Inv'
  OBVIOUS
<1>1. CASE UNCHANGED vars
  BY <1>1 DEF vars, Inv, Good, Posted
<1>2. ASSUME NEW c \in Creator, Post(c) PROVE Inv'
  <2>1. posted \in [Creator -> 0..MaxVideos] /\ posted[c] < MaxVideos
    BY <1>2 DEF Inv, Post
  <2>2. posted' = [posted EXCEPT ![c] = posted[c] + 1]
    BY <1>2 DEF Post
  <2>3. posted[c] + 1 \in 0..MaxVideos
    BY <2>1, NumbersAssumption
  <2>4. posted' \in [Creator -> 0..MaxVideos]
    BY <2>1, <2>2, <2>3
  <2>5. \A v \in Video : Posted(v) => Posted(v)'
    <3>1. ASSUME NEW v \in Video, Posted(v) PROVE v[2] <= posted'[v[1]]
      <4>1. v[1] \in Creator /\ v[2] \in Nat
        BY DEF Video
      <4>2. v[2] <= posted[v[1]]
        BY <3>1 DEF Posted
      <4>3. posted[v[1]] \in Nat /\ posted[c] \in Nat
        BY <2>1, <4>1
      <4>4. CASE v[1] = c
        BY <2>1, <2>2, <4>1, <4>2, <4>3, <4>4
      <4>5. CASE v[1] # c
        BY <2>1, <2>2, <4>1, <4>2, <4>5
      <4> QED
        BY <4>4, <4>5
    <3> QED
      BY <3>1 DEF Posted
  <2>6. ASSUME NEW r \in Runs PROVE Good(run[r])'
    <3>1. Good(run[r]) /\ run[r].todo \in SUBSET Video
      BY DEF Inv, Local
    <3>2. run'[r] = run[r]
      BY <1>2 DEF Post
    <3> QED
      BY <2>5, <3>1, <3>2 DEF Good
  <2>7. UNCHANGED <<channels, documents, run, faults>>
    BY <1>2 DEF Post
  <2> QED
    BY <2>4, <2>6, <2>7 DEF Inv
<1>3. ASSUME NEW r \in Runs, Start(r) \/ Step(r) \/ Crash(r) PROVE Inv'
  <2>1. Effect(r)
    BY <1>3, StepEffect
  <2>2. PICK s : Good(s) /\ Becomes(r, s)
    BY <2>1 DEF Effect, Moves
  <2>3. run \in [Runs -> Local] /\ s \in Local /\ run' = [run EXCEPT ![r] = s]
    BY <2>2 DEF Inv, Good, Becomes
  <2>4. run' \in [Runs -> Local]
    BY <2>3
  <2>5. posted' = posted /\ channels' \subseteq Creator
    BY <2>1 DEF Effect
  <2>6. ASSUME NEW q \in Runs PROVE Good(run[q])'
    <3>1. Good(run[q])
      BY DEF Inv
    <3>2. run'[q] = run[q] \/ run'[q] = s
      BY <2>3
    <3> QED
      BY <2>2, <2>5, <3>1, <3>2 DEF Good, Posted
  <2>7. faults' \in 0..MaxFaults
    BY <2>1, NumbersAssumption DEF Effect, Fault, Inv
  <2>8. documents' \in [Video -> Seq(Contents)]
    <3>1. documents \in [Video -> Seq(Contents)]
      BY DEF Inv
    <3>2. CASE UNCHANGED documents
      BY <3>1, <3>2
    <3>3. ASSUME NEW v \in Video, NEW content \in Contents, Archived!Store(v, content)
          PROVE  documents' \in [Video -> Seq(Contents)]
      <4>1. <<content>> \in Seq(Contents)
        OBVIOUS
      <4> QED
        BY <3>1, <3>3, <4>1 DEF Archived!Store
    <3> QED
      BY <2>1, <3>2, <3>3 DEF Effect, Archives
  <2> QED
    BY <2>4, <2>5, <2>6, <2>7, <2>8 DEF Inv
<1> QED
  BY <1>1, <1>2, <1>3 DEF Next

(***************************************************************************)
(* Type correctness, for any runs, creators, videos and settings.          *)
(***************************************************************************)
THEOREM IngestTypeCorrect == Spec => []TypeOK
BY InitInv, NextInv, InvImplies, PTL DEF Spec

(***************************************************************************)
(* "A blocked IP looks identical to a missing transcript": whatever fails, *)
(* a run that was blocked, on this video or another, stores no document    *)
(* only because nobody could be asked.                                     *)
(***************************************************************************)
THEOREM BlockedRunsStoreNothing == Spec => []BlockedIsNeverEmpty
BY InitInv, NextInv, InvImplies, PTL DEF Spec

(***************************************************************************)
(* The runs together implement the archive: a document comes once, whole,  *)
(* for a video that was posted, and stays as it is, for any number of runs *)
(* that overlap, fail and are killed.                                      *)
(***************************************************************************)
THEOREM IngestImplementsArchive == Spec => ImplementsArchive
<1>1. Init => Archived!Init
  BY DEF Init, Archived!Init
<1>2. Inv /\ [Next]_vars => [Archived!Next]_(Archived!vars)
  <2> SUFFICES ASSUME Inv, [Next]_vars PROVE [Archived!Next]_(Archived!vars)
    OBVIOUS
  <2>1. CASE UNCHANGED vars
    BY <2>1 DEF vars, Archived!vars
  <2>2. ASSUME NEW c \in Creator, Post(c) PROVE Archived!Next
    BY <2>2 DEF Post, Archived!Next, Archived!Post
  <2>3. ASSUME NEW r \in Runs, Start(r) \/ Step(r) \/ Crash(r)
        PROVE  [Archived!Next]_(Archived!vars)
    <3>1. Effect(r)
      BY <2>3, StepEffect
    <3> QED
      BY <3>1 DEF Effect, Archives, Archived!Next, Archived!vars
  <2> QED
    BY <2>1, <2>2, <2>3 DEF Next
<1> QED
  BY <1>1, <1>2, InitInv, NextInv, PTL DEF Spec, ImplementsArchive, Archived!Spec
=============================================================================
