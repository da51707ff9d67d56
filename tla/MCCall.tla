------------------------------- MODULE MCCall -------------------------------
(***************************************************************************)
(* What a session says, spends, tells and writes down, for model checking: *)
(* a behaviour is one of a single part, the others stay as they began.     *)
(***************************************************************************)
EXTENDS Replies, Tools, Labels, Metering, Events, Wording, Scribe, AfterCall,
        Plan, Spoken, Evals, Streams, Notes, TLC

CONSTANTS p1, q1, x, y, z
VARIABLE part

Parts == {"replies", "tools", "labels", "metering", "events", "wording", "scribe",
          "afterCall", "plan", "spoken", "wer", "overlaps",
          "streams", "notes"}

MCNames == {<<"asha">>, <<"dr", "asha">>, <<"asha", "is">>}
MCStopLines == {<<"stop">>}
MCPhrases == {<<"ok">>, <<"ach">>, <<"ach", "ok">>, <<"ach", "so">>}
MCLabelFor == [n \in {"a", "a2"} \X (1 .. 4) |->
                 IF n[2] = 1 THEN n[1] ELSE IF n = <<"a", 2>> THEN "a2" ELSE n[1] \o ToString(n[2])]
MCBegan == <<1, 0, 1>>
MCSaid0 == {<<>>, <<0>>, <<0, 1>>}

MCAmounts ==
  {[whole |-> w, fraction |-> f] :
     w \in {0, 1, 2, 3, 11, 20, 50, 99, 100, 101, 105, 150},
     f \in {<<>>, <<5>>, <<0>>, <<5, 0>>, <<0, 5>>, <<2, 5>>}}
  \cup {[whole |-> w, fraction |-> <<>>] :
          w \in {999, 1000, 1001, 1100, 1999, 50000, 99999, 100000, 150000, 1000000,
                 9999999, 10000000}}
  \cup {[whole |-> w, fraction |-> f] :
          w \in {0, 1, 2, 150}, f \in {<<1, 2, 5>>, <<5, 0, 1>>, <<0, 0, 1>>, <<1, 2, 0>>, <<1, 2>>}}
MCPhoneNumbers ==
  [country : {<<>>, <<9, 1>>, <<9>>},
   groups : {<< <<9, 8, 7, 6, 5, 4, 3, 2, 1, 0>> >>,
             << <<9, 8, 7, 6, 5>>, <<4, 3, 2, 1, 0>> >>,
             << <<1, 9>>, <<8, 7, 6, 5, 4, 3>> >>,
             << <<0, 1, 1>>, <<2, 3>>, <<4, 5, 6, 7>> >>,
             << <<1, 2, 3>> >>}]

(***************************************************************************)
(* The documents: the fields tried, the drafts, and one field changed.     *)
(***************************************************************************)
MCKnown ==
  (HashField :> {}) @@ (<<"", "privacyMode">> :> {"open", "sealed", "trusted_agent"})
  @@ (<<"", "language">> :> {"hi-IN", "en-IN", "kn-IN", "ta-IN"})
  @@ (<<"", "channel">> :> {"webrtc", "telephony"})
  @@ (<<"agent", "enabled">> :> BOOLEAN) @@ (<<"agent", "pool">> :> {"dafter-py", "dafter-scribe"})
  @@ (<<"agent", "name">> :> {"Asha"}) @@ (<<"agent", "mode">> :> {"cascaded", "speech_to_speech"})
  @@ (<<"addressing", "mode">> :> {"always", "transcript", "wake_word"})
  @@ (<<"addressing", "aliases">> :> {<<"Asha in Hindi">>})
  @@ (<<"addressing", "nearMisses">> :> {{"Asha in Hindi"}})
  @@ (<<"languageSwitching", "enabled">> :> BOOLEAN)
  @@ (<<"languageSwitching", "languages">> :> {<<"hi-IN", "en-IN">>, <<"hi", "hi-IN", "kn-IN">>, <<"kn-IN", "ta-IN">>})
  @@ (<<"speech", "normalization">> :> {"platform", "provider"})
  @@ (<<"vad", "provider">> :> {"silero"})
  @@ (<<"stt", "provider">> :> {"sarvam", "groq"}) @@ (<<"stt", "model">> :> {"saaras:v3-realtime", "saaras:v2"})
  @@ (<<"stt", "credentialRef">> :> {"SARVAM_API_KEY"})
  @@ (<<"llm", "provider">> :> {"sarvam", "groq", "acme"}) @@ (<<"llm", "model">> :> {"sarvam-105b"})
  @@ (<<"llm", "credentialRef">> :> {"SARVAM_API_KEY", "GROQ_API_KEY"}) @@ (<<"llm", "region">> :> {"ap-south-1", "us"})
  @@ (<<"tts", "provider">> :> {"sarvam"}) @@ (<<"tts", "model">> :> {"bulbul:v3"})
  @@ (<<"tts", "credentialRef">> :> {"SARVAM_API_KEY"}) @@ (<<"tts", "options">> :> {"unknown"})
  @@ (<<"turn", "strategy">> :> {"auto", "manual", "semantic", "provider_endpointing"})
  @@ (<<"turn", "localVadEnabled">> :> BOOLEAN) @@ (<<"interruption", "localVadEnabled">> :> BOOLEAN)
  @@ (<<"recording", "enabled">> :> BOOLEAN) @@ (<<"recording", "consentArtifactId">> :> {"consent"})
  @@ (<<"recording", "layout">> :> {"track", "room_composite"}) @@ (<<"recording", "startAt">> :> {"session_create"})
  @@ (<<"video", "enabled">> :> BOOLEAN) @@ (<<"video", "scalabilityMode">> :> {"L3T3"})
  @@ (<<"egress", "preset">> :> {"hd"}) @@ (<<"egress", "audioBitrate">> :> {64})
  @@ (<<"encryption", "mode">> :> {"transport", "e2ee"}) @@ (<<"encryption", "keyModel">> :> {"server_shared", "consumer"})
  @@ (<<"transcription", "mode">> :> {"off", "live", "after_call", "both"})
  @@ (<<"transcription", "consentArtifactId">> :> {"consent"}) @@ (<<"batch", "provider">> :> {"sarvam"})
  @@ (<<"scribe", "enabled">> :> BOOLEAN) @@ (<<"scribe", "pool">> :> {"dafter-py"})
  @@ (<<"scribe", "consentArtifactId">> :> {"consent"})
  @@ (<<"scribeLlm", "provider">> :> {"sarvam", "groq"}) @@ (<<"scribeLlm", "model">> :> {"sarvam-105b"})
  @@ (<<"scribeLlm", "credentialRef">> :> {"SARVAM_API_KEY"})
  @@ (<<"telephony", "trunk">> :> {"vobiz"}) @@ (<<"telephony", "phoneGuests">> :> {"off", "dial_out", "dial_in", "both"})
  @@ (<<"telephony", "recordingNotice">> :> {"always", "when_recorded"}) @@ (<<"dialIn", "callerCheck">> :> {"number"})
MCRequired == {<<"", "privacyMode">>, <<"", "language">>, <<"", "channel">>, <<"agent", "enabled">>,
             <<"agent", "pool">>, <<"turn", "strategy">>, <<"recording", "enabled">>}
Plain ==
  (<<"", "privacyMode">> :> "open") @@ (<<"", "language">> :> "hi-IN") @@ (<<"", "channel">> :> "webrtc")
  @@ (<<"agent", "enabled">> :> TRUE) @@ (<<"agent", "pool">> :> "dafter-py")
  @@ (<<"stt", "provider">> :> "sarvam") @@ (<<"stt", "model">> :> "saaras:v3-realtime") @@ (<<"stt", "credentialRef">> :> "SARVAM_API_KEY")
  @@ (<<"llm", "provider">> :> "sarvam") @@ (<<"llm", "model">> :> "sarvam-105b") @@ (<<"llm", "credentialRef">> :> "SARVAM_API_KEY")
  @@ (<<"tts", "provider">> :> "sarvam") @@ (<<"tts", "model">> :> "bulbul:v3") @@ (<<"tts", "credentialRef">> :> "SARVAM_API_KEY")
  @@ (<<"turn", "strategy">> :> "auto") @@ (<<"turn", "localVadEnabled">> :> FALSE) @@ (<<"recording", "enabled">> :> FALSE)
  @@ (<<"languageSwitching", "languages">> :> <<"hi-IN", "en-IN">>)
Scribed == (<<"transcription", "mode">> :> "both") @@ (<<"transcription", "consentArtifactId">> :> "consent")
  @@ (<<"scribe", "enabled">> :> TRUE) @@ (<<"scribe", "consentArtifactId">> :> "consent") @@ (<<"batch", "provider">> :> "sarvam")
  @@ (<<"scribeLlm", "provider">> :> "sarvam") @@ (<<"scribeLlm", "model">> :> "sarvam-105b") @@ (<<"scribeLlm", "credentialRef">> :> "SARVAM_API_KEY")
Recorded == (<<"recording", "enabled">> :> TRUE) @@ (<<"recording", "consentArtifactId">> :> "consent")
Secret == (<<"", "privacyMode">> :> "trusted_agent") @@ (<<"encryption", "mode">> :> "e2ee") @@ (<<"encryption", "keyModel">> :> "server_shared")
OnThePhone == (<<"", "channel">> :> "telephony") @@ (<<"video", "enabled">> :> FALSE)
Guests == (<<"telephony", "trunk">> :> "vobiz") @@ (<<"telephony", "phoneGuests">> :> "both")
MCDrafts == {Plain, Secret @@ Plain, Recorded @@ Guests @@ Plain, Recorded @@ OnThePhone @@ Plain, Recorded @@ Scribed @@ Plain}
MCEdits == UNION {{<<f, v>> : v \in MCKnown[f]} : f \in DOMAIN MCKnown} \cup {<< <<"agent", "greets">>, TRUE>>}
MCBase == [hi |-> "hi"] @@ ("hi-IN" :> "hi") @@ ("en-IN" :> "en") @@ ("kn-IN" :> "kn") @@ ("ta-IN" :> "ta")
MCWritten == ("Asha" :> {"en"}) @@ ("Asha in Hindi" :> {"hi", "mr"})
MCPool == [agent |-> "dafter-py", scribe |-> "dafter-scribe"]

CallInit ==
  /\ part \in Parts
  /\ RepliesInit /\ (part # "replies" => ~switching)
  /\ ToolsInit /\ MeteringInit /\ EventsInit /\ ScribeInit /\ NotesInit
  /\ IF part = "labels" THEN LabelsInit ELSE
       /\ text = <<>> /\ came = 0 /\ heldText = <<>> /\ lineStart = TRUE /\ saidOut = <<>>
       /\ calledTool = FALSE /\ over = FALSE
  /\ IF part = "wording" THEN WordingInit ELSE case = <<>> /\ done = FALSE /\ reading = {}
  /\ AfterCallInit /\ (part # "afterCall" => file = [r \in Recordings |-> "skipped"])
  /\ IF part = "plan" THEN PlanInit ELSE
       /\ document = <<>> /\ sealings = {} /\ changes = 0 /\ fetchesKeys = FALSE
       /\ jobIs = [w \in DOMAIN Pool |-> "none"] /\ reason = [w \in DOMAIN Pool |-> ""]
       /\ speaks = "" /\ normalizer = ""
  /\ IF part = "spoken" THEN SpokenInit ELSE written = <<>> /\ readAs = <<>>
  /\ IF part = "wer" THEN WerInit ELSE texts = <<>> /\ measured = <<>>
  /\ IF part = "overlaps" THEN OverlapsInit ELSE trials = <<>> /\ outcomes = <<>>
  /\ StreamsInit

Others ==
  /\ IF part = "replies" THEN TRUE ELSE UNCHANGED repliesVars
  /\ IF part = "tools" THEN TRUE ELSE UNCHANGED toolsVars
  /\ IF part = "labels" THEN TRUE ELSE UNCHANGED labelsVars
  /\ IF part = "metering" THEN TRUE ELSE UNCHANGED meteringVars
  /\ IF part = "events" THEN TRUE ELSE UNCHANGED eventsVars
  /\ IF part = "wording" THEN TRUE ELSE UNCHANGED wordingVars
  /\ IF part = "scribe" THEN TRUE ELSE UNCHANGED scribeVars
  /\ IF part = "afterCall" THEN TRUE ELSE UNCHANGED afterCallVars
  /\ IF part = "plan" THEN TRUE ELSE UNCHANGED planVars
  /\ IF part = "spoken" THEN TRUE ELSE UNCHANGED spokenVars
  /\ IF part = "wer" THEN TRUE ELSE UNCHANGED werVars
  /\ IF part = "overlaps" THEN TRUE ELSE UNCHANGED overlapsVars
  /\ IF part = "streams" THEN TRUE ELSE UNCHANGED streamsVars
  /\ IF part = "notes" THEN TRUE ELSE UNCHANGED notesVars

CallNext ==
  /\ UNCHANGED part
  /\ \/ part = "replies" /\ RepliesNext
     \/ part = "tools" /\ ToolsNext
     \/ part = "labels" /\ LabelsNext
     \/ part = "metering" /\ MeteringNext
     \/ part = "events" /\ EventsNext
     \/ part = "wording" /\ WordingNext
     \/ part = "scribe" /\ ScribeNext
     \/ part = "afterCall" /\ AfterCallNext
     \/ part = "plan" /\ PlanNext
     \/ part = "spoken" /\ readsOut
     \/ part = "wer" /\ measures
     \/ part = "overlaps" /\ overlapMeasured
     \/ part = "streams" /\ StreamsNext
     \/ part = "notes" /\ NotesNext
  /\ Others

CallSpec ==
  CallInit /\ [][CallNext]_<<part, repliesVars, toolsVars, labelsVars, meteringVars, eventsVars,
                             wordingVars, scribeVars, afterCallVars, planVars, spokenVars,
                             werVars, overlapsVars, streamsVars, notesVars>>
=============================================================================
