--------------------------------- MODULE Plan ---------------------------------
(***************************************************************************)
(* From a sealed document to a session that runs.  A document is edited,   *)
(* stamped with its hash and dispatched; the agent's worker and the        *)
(* scribe's each plan what it asks for when they are offered the job, and  *)
(* again when the job starts, and then build its stages (dafter_runtime    *)
(* plan, personas, stages, worker; dafter_scribe plan; dafter_providers).  *)
(* A refusal is the code it is reported with.  A running agent may change  *)
(* its language, and its persona and its normalizer change with it.        *)
(***************************************************************************)
EXTENDS Config, FiniteSets, SequencesExt

CONSTANTS Base,          \* Base[t]: the language of the tag t
          Written,       \* Written[s]: the languages whose letters s is written in
          LocalLanguages,\* the languages of the framework's turn detector
          Pool,          \* per worker: the pool it serves
          Environment,   \* credentials the workers have
          Drafts, Edits, \* the documents and fields to start and to change with
          MaxChanges     \* bound: fields changed

ASSUME PlanAssumption ==
  /\ LocalLanguages \subseteq {Base[t] : t \in DOMAIN Base}
  /\ DOMAIN Pool = {"agent", "scribe"} /\ MaxChanges \in Nat
  /\ Known[<<"", "language">>] \subseteq DOMAIN Base
  /\ <<"languageSwitching", "languages">> \in DOMAIN Known
  /\ Known[<<"languageSwitching", "languages">>] \subseteq Seq(DOMAIN Base)
  /\ \A d \in Drafts : d = [f \in DOMAIN d |-> d[f]] /\ HashField \notin DOMAIN d
  /\ \A e \in Edits : e[1] # HashField

VARIABLES document,    \* the document that is written, then dispatched
          sealings,    \* the documents somebody put the seal on
          changes,
          fetchesKeys, \* the workers have a control plane credential
          jobIs,       \* per worker: how far its job is
          reason,      \* per worker: the code of its refusal
          speaks,      \* Switching.language: the tag the agent speaks in
          normalizer   \* SpeechPlan._normalize: of a language, or "" for none

planVars == <<document, sealings, changes, fetchesKeys, jobIs, reason, speaks, normalizer>>

PlanInit ==
  /\ document \in Drafts /\ sealings = {} /\ changes = 0
  /\ fetchesKeys \in BOOLEAN
  /\ jobIs = [w \in DOMAIN Pool |-> "none"] /\ reason = [w \in DOMAIN Pool |-> ""]
  /\ speaks = "" /\ normalizer = ""

(***************************************************************************)
(* Vendors, and the stages they build.                                     *)
(***************************************************************************)
Indian == {"hi", "hi-IN", "en-IN", "kn-IN", "mr-IN", "te-IN"}
LANGUAGES == Indian \cup {"bn-IN", "ml-IN", "ta-IN", "gu-IN", "pa-IN", "or-IN"}

\* groq stands for every endpoint that speaks OpenAI's protocol.
VENDORS ==
  [sarvam |-> [languages |-> LANGUAGES, native_endpointing |-> TRUE, detects_language |-> TRUE,
               stages |-> {"stt", "llm", "tts", "batch"}, credential |-> "SARVAM_API_KEY"],
   silero |-> [languages |-> {}, native_endpointing |-> FALSE, detects_language |-> FALSE,
               stages |-> {"vad"}, credential |-> ""],
   groq |-> [languages |-> Indian, native_endpointing |-> FALSE, detects_language |-> FALSE,
             stages |-> {"llm"}, credential |-> "GROQ_API_KEY"]]

check(ok, code) == IF ok THEN "" ELSE code

vendor_for(r, stage) ==
  IF r = NoRef THEN "invalid_config"
    ELSE check(r.provider \in DOMAIN VENDORS /\ stage \in VENDORS[r.provider].stages,
               "unsupported_capability")

_vendor(r, stage, language) ==
  IF vendor_for(r, stage) # "" THEN vendor_for(r, stage)
    ELSE check(language \in VENDORS[r.provider].languages, "unsupported_capability")

resolve(r) ==
  IF r.credential = "" THEN "authentication_failed"
    ELSE IF r.credential # VENDORS[r.provider].credential THEN "invalid_config"
    ELSE check(r.credential \in Environment, "authentication_failed")

Options(r) == check(r.options = "known", "invalid_config")

_checked(r, models) ==
  firstOf(<< check(r.model \in models, "unsupported_capability"),
             check(r.region \in {"", "ap-south-1"}, "residency_violation") >>)

build_stt(r) == firstOf(<<_checked(r, {"saaras:v3-realtime"}), Options(r), resolve(r)>>)
build_tts(r) == firstOf(<<_checked(r, {"bulbul:v3"}), Options(r), resolve(r)>>)
build_vad(r) ==
  firstOf(<<check(r.model \in {"", "silero"}, "unsupported_capability"), Options(r)>>)

_model(r) == firstOf(<< check(r.model # "", "invalid_config"),
                        check(r.region = "", "residency_violation") >>)
build_llm(r) ==
  firstOf(<< IF r.provider = "sarvam"
               THEN _checked(r, {"sarvam-105b", "sarvam-105b-conversations"}) ELSE _model(r),
             Options(r), resolve(r) >>)

(***************************************************************************)
(* The plan.  Each step is the code it refuses the session with, or "".    *)
(***************************************************************************)
check_encryption(c) ==
  IF stated_mode(c.media.encryption) # "e2ee" THEN ""
    ELSE check(mints_shared_key(c.media.encryption) /\ fetchesKeys, "unsupported_capability")

_check_session(c) ==
  firstOf(<< check(c.agent.enabled, "invalid_config"),
             check(c.agent.pool = Pool["agent"], "invalid_config"),
             check(c.agent.mode = "cascaded", "unsupported_capability"),
             check_encryption(c),
             check(c.agent.addressing.mode \in {"always", "transcript"}, "unsupported_capability"),
             check(~noPipeline(c.agent.pipeline), "invalid_config") >>)

native_endpointing(c) == VENDORS[c.agent.pipeline.stt.provider].native_endpointing

\* Semantic detection without a model for the language is the recognizer's.
turn_detection(c) ==
  LET semantic == c.turn.strategy = "semantic" /\ Base[c.language] \in LocalLanguages
  IN  CASE c.turn.strategy = "manual" -> "manual"
        [] semantic -> "semantic"
        [] /\ ~semantic /\ native_endpointing(c)
           /\ c.turn.strategy \in {"semantic", "auto", "provider_endpointing"} -> "stt"
        [] OTHER -> ""

detectionRefused(c) ==
  LET detection == turn_detection(c)
  IN  firstOf(<< check(detection # "semantic" \/ c.turn.local_vad_enabled, "invalid_config"),
                 check(\/ detection # "stt" \/ c.turn.strategy = "semantic"
                       \/ ~c.turn.local_vad_enabled, "invalid_config"),
                 check(detection # "", "unsupported_capability") >>)

needsVad(c) == turn_detection(c) = "semantic" \/ c.turn.interruption.local_vad_enabled
local_vad(c) == IF needsVad(c) THEN vendor_for(c.agent.pipeline.vad, "vad") ELSE ""

\* The languages there are scripts and recording notices in.
SCRIPTS == {"persona://default", "persona://support/v3"} \X {"hi", "en", "kn", "mr", "te"}
RECORDING_NOTICES == {"hi", "en", "kn", "mr", "te"}
persona_for(a, tag) == check(<<a.persona_ref, Base[tag]>> \in SCRIPTS, "unsupported_capability")

spelled_for(base, spellings) ==
  LET written == SelectSeq(spellings, LAMBDA s : base \in Written[s])
  IN  IF written = <<>> THEN Head(spellings) ELSE Head(written)

\* A persona: its script, its name as it is spelled, and when it speaks.
spoken_by(a, tag) ==
  [script |-> <<a.persona_ref, Base[tag]>>, called |-> FALSE, stays |-> FALSE,
   name |-> IF a.name = "" THEN ""
              ELSE spelled_for(Base[tag], <<a.name>> \o a.addressing.aliases)]
called_by_name(persona, stays) == [persona EXCEPT !.called = TRUE, !.stays = stays]
voiced(a, tag) ==
  LET persona == spoken_by(a, tag)
  IN  IF waits_to_be_called(a.addressing)
        THEN called_by_name(persona, a.addressing.stays_awake) ELSE persona

_switchable(c) ==
  LET tags == c.agent.language_switching.languages
      among == {c.agent.pipeline[s].provider : s \in {"stt", "llm", "tts"}}
      added(i) == firstOf(<<
        check(\A j \in 1..(i - 1) : Base[tags[j]] # Base[tags[i]], "invalid_config"),
        check(\A v \in among : tags[i] \in VENDORS[v].languages, "unsupported_capability"),
        persona_for(c.agent, tags[i]) >>)
  IN  IF ~c.agent.language_switching.enabled THEN ""
        ELSE firstOf(<< check(VENDORS[c.agent.pipeline.stt.provider].detects_language,
                              "unsupported_capability"),
                        firstOf([i \in DOMAIN tags |-> added(i)]) >>)

takes_phone_calls(c) == c.channel = "telephony" \/ phone_guests(c)

disclosureRefused(c) ==
  check(~takes_phone_calls(c) \/ Base[c.language] \in RECORDING_NOTICES, "unsupported_capability")

disclosure(c) ==
  IF ~takes_phone_calls(c) THEN "none"
    ELSE IF c.recording.enabled THEN "recorded"
    ELSE IF c.telephony.recording_notice = "always" THEN "not recorded" ELSE "none"

planRefused(c) ==
  LET p == c.agent.pipeline
      staged == firstOf(<< _check_session(c), _vendor(p.stt, "stt", c.language),
                           _vendor(p.llm, "llm", c.language), _vendor(p.tts, "tts", c.language) >>)
  IN  IF staged # "" THEN staged
        ELSE firstOf(<< detectionRefused(c), persona_for(c.agent, c.language), _switchable(c),
                        local_vad(c), disclosureRefused(c) >>)

buildRefused(c) ==
  LET p == c.agent.pipeline
  IN  firstOf(<< build_stt(p.stt), build_llm(p.llm), build_tts(p.tts),
                 IF needsVad(c) THEN build_vad(p.vad) ELSE "" >>)

personas(c) ==
  LET tags == c.agent.language_switching.languages
      ready == IF c.agent.language_switching.enabled THEN ToSet(tags) ELSE {c.language}
  IN  [t \in ready |-> voiced(c.agent, t)]

\* The scribe's plan.
scribeRefused(c) ==
  firstOf(<< check(c.scribe.enabled, "invalid_config"),
             check(c.scribe.pool = Pool["scribe"], "invalid_config"), check_encryption(c),
             _vendor(c.scribe.llm, "llm", c.language),
             IF c.scribe.judge = NoRef THEN "" ELSE _vendor(c.scribe.judge, "llm", c.language) >>)

scribeBuildRefused(c) ==
  firstOf(<< build_llm(c.scribe.llm), IF c.scribe.judge = NoRef THEN "" ELSE build_llm(c.scribe.judge) >>)

(***************************************************************************)
(* The document on its way.                                                *)
(***************************************************************************)
config == ResolvedSessionConfig(document)

load == IF parse(document) # "" THEN parse(document)
          ELSE check(/\ HashField \in DOMAIN document
                     /\ document[HashField] = hash_document(document), "invalid_config")

edited(f, v) ==
  /\ jobIs["agent"] = "none" /\ jobIs["scribe"] = "none"
  /\ changes < MaxChanges /\ changes' = changes + 1
  /\ document' = [g \in DOMAIN document \cup {f} |-> IF g = f THEN v ELSE document[g]]
  /\ UNCHANGED <<sealings, fetchesKeys, jobIs, reason, speaks, normalizer>>

seal ==
  /\ HashField \notin DOMAIN document
  /\ document' = sealed(document) /\ sealings' = {document'}
  /\ UNCHANGED <<changes, fetchesKeys, jobIs, reason, speaks, normalizer>>

(***************************************************************************)
(* The workers.                                                            *)
(***************************************************************************)
planned(w) ==
  LET read == load
  IN  IF read # "" THEN read ELSE IF w = "agent" THEN planRefused(config) ELSE scribeRefused(config)

settle(w, how, code) ==
  /\ jobIs' = [jobIs EXCEPT ![w] = how] /\ reason' = [reason EXCEPT ![w] = code]

on_request(w) ==
  /\ jobIs[w] = "none"
  /\ LET code == planned(w)
     IN  settle(w, IF code = "" THEN "accepted" ELSE "rejected", code)
  /\ UNCHANGED <<document, sealings, changes, fetchesKeys, speaks, normalizer>>

normalizerOf(c, tag) ==
  IF Base[tag] = "hi" /\ c.agent.speech.normalization = "platform" THEN "hi" ELSE ""

\* The session key of an encrypted session is asked for, and may be withheld.
withheld(w) ==
  /\ stated_mode(config.media.encryption) = "e2ee"
  /\ settle(w, "failed", "withheld") /\ UNCHANGED <<speaks, normalizer>>

entrypoint(w) ==
  LET code == IF w = "agent" THEN buildRefused(config) ELSE scribeBuildRefused(config)
  IN  /\ jobIs[w] = "accepted"
      /\ IF code # "" THEN settle(w, "failed", code) /\ UNCHANGED <<speaks, normalizer>>
           ELSE \/ withheld(w)
                \/ /\ settle(w, "running", "")
                   /\ IF w = "agent"
                        THEN /\ speaks' = config.language
                             /\ normalizer' = normalizerOf(config, config.language)
                        ELSE UNCHANGED <<speaks, normalizer>>
      /\ UNCHANGED <<document, sealings, changes, fetchesKeys>>

\* The languages a running agent may turn to, with what follows them.
speak_in(tag) ==
  /\ jobIs["agent"] = "running" /\ tag # speaks
  /\ config.agent.language_switching.enabled /\ tag \in DOMAIN personas(config)
  /\ speaks' = tag /\ normalizer' = normalizerOf(config, tag)
  /\ UNCHANGED <<document, sealings, changes, fetchesKeys, jobIs, reason>>

PlanNext ==
  \/ \E e \in Edits : edited(e[1], e[2])
  \/ seal
  \/ \E w \in DOMAIN Pool : on_request(w) \/ entrypoint(w)
  \/ \E tag \in DOMAIN Base : speak_in(tag)

PlanSpec == PlanInit /\ [][PlanNext]_planVars

(***************************************************************************)
(* Properties.                                                             *)
(***************************************************************************)
\* Every variable keeps its type, and a job has a reason exactly when it is refused.
PlanTypeOK ==
  /\ HashField \in DOMAIN document \/ sealings = {}
  /\ jobIs \in [DOMAIN Pool -> {"none", "accepted", "rejected", "failed", "running"}]
  /\ \A w \in DOMAIN Pool : jobIs[w] \in {"rejected", "failed"} <=> reason[w] # ""
  /\ speaks \in DOMAIN Base \cup {""} /\ normalizer \in {"", "hi"}

taken(w) == jobIs[w] \in {"accepted", "failed", "running"}

\* However a phone gets into a recorded call, a document that keeps the rules
\* has the agent in it, and the agent that takes it has the notice to say.
RecordedCallersAreTold ==
  parse(document) = "" =>
    LET c == config
    IN  c.recording.enabled /\ takes_phone_calls(c)
          => c.agent.enabled /\ (taken("agent") => disclosure(c) = "recorded")

\* A session that is not open, once a worker took it: encrypted end to end,
\* under a key the worker can fetch; nothing of it is recorded by the server,
\* no phone bridge decodes it, and nobody joins a sealed one.
EncryptedStaysEncrypted ==
  \A w \in DOMAIN Pool : taken(w) =>
    LET c == config
    IN  c.privacy_mode # "open" =>
          /\ stated_mode(c.media.encryption) = "e2ee" /\ fetchesKeys
          /\ ~c.recording.enabled /\ ~takes_phone_calls(c)
          /\ c.privacy_mode = "trusted_agent" /\ c.agent.enabled

\* No worker takes a document that is not the one the seal was put on.
TakenAsSealed == \A w \in DOMAIN Pool : taken(w) => document \in sealings

\* An agent that may change its language has what it takes to speak each one,
\* can always go back to the first, and reads out the digits it is told to write.
SpeaksAsPlanned ==
  jobIs["agent"] = "running" =>
    LET c == config
        ready == personas(c)
    IN  /\ {c.language, speaks} \subseteq DOMAIN ready
        /\ \A t \in DOMAIN ready : ready[t].script \in SCRIPTS
        /\ \A t, u \in DOMAIN ready : t # u => Base[t] # Base[u]
        /\ normalizer = "hi" <=> /\ ready[speaks].script[2] = "hi"
                                 /\ c.agent.speech.normalization = "platform"

\* What was sealed is what runs: callers told, encryption kept, languages
\* that can be spoken.
PlanInv ==
  /\ PlanTypeOK
  /\ RecordedCallersAreTold
  /\ EncryptedStaysEncrypted
  /\ TakenAsSealed
  /\ SpeaksAsPlanned
================================================================================
