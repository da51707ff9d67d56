-------------------------------- MODULE Config --------------------------------
(***************************************************************************)
(* The resolved session document (dafter_core.config): how each part of it *)
(* is read, with the defaults of the parts it leaves out, and the rules    *)
(* across parts that a readable document still has to keep (rules.py).  A  *)
(* document is a function: the fields that are there, each named by its    *)
(* object and its key, to their values.  Kept of each part are the fields  *)
(* a rule or a plan depends on.                                            *)
(***************************************************************************)
EXTENDS Integers, Sequences

CONSTANTS Known,      \* the schema: the fields there may be, and their values
          Required    \* the schema: the fields there must be

ASSUME ConfigAssumption ==
  /\ Required \subseteq DOMAIN Known
  /\ {<<"", "privacyMode">>, <<"", "language">>} \subseteq Required
  /\ Known[<<"", "privacyMode">>] \subseteq {"open", "sealed", "trusted_agent"}

HashField == <<"", "configHash">>

stated(d, at) == \E f \in DOMAIN d : f[1] = at
field(d, at, key, default) == IF <<at, key>> \in DOMAIN d THEN d[<<at, key>>] ELSE default
flag(d, at, key) == field(d, at, key, FALSE)

(***************************************************************************)
(* The parts.                                                              *)
(***************************************************************************)
NoRef == [provider |-> "", model |-> "", region |-> "", credential |-> "", options |-> "known"]

ProviderRef(d, at) ==
  [provider |-> field(d, at, "provider", ""), model |-> field(d, at, "model", ""),
   region |-> field(d, at, "region", ""), credential |-> field(d, at, "credentialRef", ""),
   options |-> field(d, at, "options", "known")]
ref(d, at) == IF stated(d, at) THEN ProviderRef(d, at) ELSE NoRef

Pipeline(d) == [s \in {"vad", "stt", "llm", "tts"} |-> ref(d, s)]
noPipeline(p) == \A s \in DOMAIN p : p[s] = NoRef

Backchannel(d) == [enabled |-> field(d, "backchannel", "enabled", TRUE),
                   max_words |-> field(d, "backchannel", "maxWords", 3)]

Interruption(d) ==
  [enabled |-> field(d, "interruption", "enabled", TRUE),
   local_vad_enabled |-> flag(d, "interruption", "localVadEnabled"),
   false_interruption_timeout_ms |-> field(d, "interruption", "falseInterruptionTimeoutMs", 0),
   resume_false_interruption |-> field(d, "interruption", "resumeFalseInterruption", TRUE),
   backchannel |-> Backchannel(d)]

Turn(d) ==
  [strategy |-> d[<<"turn", "strategy">>],
   local_vad_enabled |-> field(d, "turn", "localVadEnabled", TRUE),
   interruption |-> Interruption(d)]

Addressing(d) ==
  [mode |-> field(d, "addressing", "mode", "always"),
   aliases |-> field(d, "addressing", "aliases", <<>>),
   near_misses |-> field(d, "addressing", "nearMisses", {}),
   stays_awake |-> flag(d, "addressing", "staysAwake")]
waits_to_be_called(a) == a.mode # "always"

LanguageSwitching(d) ==
  [enabled |-> flag(d, "languageSwitching", "enabled"),
   languages |-> field(d, "languageSwitching", "languages", <<>>)]
leaves_out(switch, language) ==
  switch.enabled /\ \A i \in DOMAIN switch.languages : switch.languages[i] # language

Speech(d) == [normalization |-> field(d, "speech", "normalization", "platform"),
              fillers |-> field(d, "fillers", "enabled", TRUE),
              situations |-> field(d, "situations", "enabled", TRUE)]

AgentOf(d) ==
  [enabled |-> d[<<"agent", "enabled">>], pool |-> d[<<"agent", "pool">>],
   name |-> field(d, "agent", "name", ""), greets |-> flag(d, "agent", "greets"),
   mode |-> field(d, "agent", "mode", "cascaded"),
   persona_ref |-> field(d, "agent", "personaRef", "persona://default"),
   pipeline |-> Pipeline(d), addressing |-> Addressing(d), speech |-> Speech(d),
   language_switching |-> LanguageSwitching(d)]
near_miss_is_its_name(a) ==
  LET spellings == <<a.name>> \o a.addressing.aliases
  IN  \E i \in DOMAIN spellings : spellings[i] \in a.addressing.near_misses

VideoProfile(d) == [enabled |-> field(d, "video", "enabled", TRUE),
                    codec |-> field(d, "video", "codec", ""),
                    scalability_mode |-> field(d, "video", "scalabilityMode", "")]
layered(v) == v.codec \in {"vp9", "av1"}

\* The picture's numbers are one field here: stated, or not.
EgressProfile(d) == [preset |-> field(d, "egress", "preset", ""),
                     picture |-> flag(d, "egress", "picture"),
                     audio_bitrate |-> field(d, "egress", "audioBitrate", 0)]
states_video(e) == e.preset # "" \/ e.picture
states_explicit_fields(e) == e.picture \/ e.audio_bitrate > 0

EncryptionProfile(d) == [mode |-> field(d, "encryption", "mode", ""),
                         key_model |-> field(d, "encryption", "keyModel", "")]
stated_mode(e) == IF e.mode = "" THEN "transport" ELSE e.mode
mints_shared_key(e) == stated_mode(e) = "e2ee" /\ e.key_model = "server_shared"

Media(d) == [video |-> VideoProfile(d), egress |-> EgressProfile(d),
             encryption |-> EncryptionProfile(d)]

RecordingOf(d) ==
  [enabled |-> d[<<"recording", "enabled">>],
   layout |-> field(d, "recording", "layout", "track"),
   start_at |-> field(d, "recording", "startAt", "first_publish"),
   consent |-> field(d, "recording", "consentArtifactId", "")]

Transcription(d) == [mode |-> field(d, "transcription", "mode", "off"),
                     consent |-> field(d, "transcription", "consentArtifactId", ""),
                     batch |-> ref(d, "batch")]
transcribes(t) == t.mode # "off"
live(t) == t.mode \in {"live", "both"}
after_call(t) == t.mode \in {"after_call", "both"}

ScribeOf(d) ==
  [enabled |-> flag(d, "scribe", "enabled"), pool |-> field(d, "scribe", "pool", "dafter-scribe"),
   consent |-> field(d, "scribe", "consentArtifactId", ""),
   llm |-> ref(d, "scribeLlm"), judge |-> ref(d, "scribeJudge")]

Telephony(d) ==
  [trunk |-> field(d, "telephony", "trunk", ""),
   phone_guests |-> field(d, "telephony", "phoneGuests", "off"),
   recording_notice |-> field(d, "telephony", "recordingNotice", "always"),
   dial_in |-> field(d, "dialIn", "callerCheck", "")]

ResolvedSessionConfig(d) ==
  [privacy_mode |-> d[<<"", "privacyMode">>], language |-> d[<<"", "language">>],
   channel |-> d[<<"", "channel">>], agent |-> AgentOf(d), turn |-> Turn(d),
   recording |-> RecordingOf(d), media |-> Media(d), transcription |-> Transcription(d),
   scribe |-> ScribeOf(d), telephony |-> Telephony(d)]

\* The first code of those a document is refused with; "" when there is none.
firstOf(codes) ==
  LET given == {i \in DOMAIN codes : codes[i] # ""}
  IN  IF given = {} THEN "" ELSE codes[CHOOSE i \in given : \A j \in given : i <= j]

(***************************************************************************)
(* The rules, in the order they are tried in: a rule is the code it        *)
(* refuses a document with that breaks it.                                 *)
(***************************************************************************)
rule(broken, code) == IF broken THEN code ELSE ""
Invalid(broken) == rule(broken, "invalid_config")
Forbidden(broken) == rule(broken, "privacy_mode_forbids")
NeedsConsent(broken) == rule(broken, "consent_required")

required_encryption(mode) == IF mode = "open" THEN "transport" ELSE "e2ee"
phone_guests(c) == c.channel # "telephony" /\ c.telephony.phone_guests # "off"
dials_in(c) == phone_guests(c) /\ c.telephony.phone_guests \in {"dial_in", "both"}

agentRules(c) ==
  << Forbidden(c.privacy_mode = "sealed" /\ c.agent.enabled),
     Invalid(waits_to_be_called(c.agent.addressing) /\ c.agent.name = ""),
     Invalid(near_miss_is_its_name(c.agent)),
     Invalid(leaves_out(c.agent.language_switching, c.language)) >>

recordingRules(c) ==
  << NeedsConsent(c.recording.enabled /\ c.recording.consent = ""),
     Invalid(/\ c.recording.enabled /\ c.recording.start_at = "session_create"
             /\ c.recording.layout # "room_composite") >>

phoneCallRules(c) ==
  LET phone == c.channel = "telephony"
  IN  << Invalid(phone /\ c.media.video.enabled),
         Forbidden(phone /\ stated_mode(c.media.encryption) = "e2ee"),
         Invalid(phone /\ c.recording.enabled /\ ~c.agent.enabled) >>

\* Mutated form: guests on the phone may be recorded where no agent is.
guestRulesOnTrust(c) ==
  << Forbidden(phone_guests(c) /\ stated_mode(c.media.encryption) = "e2ee"),
     Invalid(phone_guests(c) /\ c.telephony.trunk = ""),
     Invalid(c.channel = "telephony" /\ c.telephony.phone_guests # "off"),
     Invalid(c.telephony.dial_in # "" /\ ~dials_in(c)) >>

guestRules(c) ==
  << Forbidden(phone_guests(c) /\ stated_mode(c.media.encryption) = "e2ee"),
     Invalid(phone_guests(c) /\ c.telephony.trunk = ""),
     Invalid(c.channel = "telephony" /\ c.telephony.phone_guests # "off"),
     Invalid(phone_guests(c) /\ c.recording.enabled /\ ~c.agent.enabled),
     Invalid(c.telephony.dial_in # "" /\ ~dials_in(c)) >>

mediaRules(c) ==
  << Invalid(c.media.video.scalability_mode # "" /\ ~layered(c.media.video)),
     Invalid(c.media.egress.preset # "" /\ states_explicit_fields(c.media.egress)),
     Invalid(c.recording.enabled /\ ~c.media.video.enabled /\ states_video(c.media.egress)) >>

encryptionRules(c) ==
  << Invalid(stated_mode(c.media.encryption) # required_encryption(c.privacy_mode)),
     Forbidden(c.privacy_mode # "open" /\ c.recording.enabled) >>

transcriptionRules(c) ==
  LET t == c.transcription
  IN  << NeedsConsent(transcribes(t) /\ t.consent = ""),
         Forbidden(c.privacy_mode = "sealed" /\ transcribes(t)),
         Invalid(live(t) /\ ~c.agent.enabled),
         Invalid(after_call(t) /\ (~c.recording.enabled \/ c.recording.layout # "track")),
         Invalid(after_call(t) /\ t.batch = NoRef) >>

scribeRules(c) ==
  LET s == c.scribe
  IN  << Forbidden(c.privacy_mode = "sealed" /\ s.enabled),
         NeedsConsent(s.enabled /\ s.consent = ""),
         Invalid(s.enabled /\ ~live(c.transcription)),
         Invalid(s.enabled /\ s.llm = NoRef),
         Invalid(s.enabled /\ s.pool = c.agent.pool) >>

turnRules(c) ==
  << Invalid(c.turn.strategy = "provider_endpointing" /\ c.turn.local_vad_enabled) >>

CROSS_FIELD_RULES(c) ==
  << firstOf(agentRules(c)), firstOf(recordingRules(c)), firstOf(phoneCallRules(c)),
     firstOf(guestRules(c)), firstOf(mediaRules(c)), firstOf(encryptionRules(c)),
     firstOf(transcriptionRules(c)), firstOf(scribeRules(c)), firstOf(turnRules(c)) >>

validate_cross_field_rules(c) == firstOf(CROSS_FIELD_RULES(c))

(***************************************************************************)
(* parse: validated, then read, then held against the rules.  The hash of  *)
(* a document is the document without its own hash: SHA-256 over one       *)
(* canonical form of it, taken to tell all documents apart.                *)
(***************************************************************************)
hash_document(d) == [f \in DOMAIN d \ {HashField} |-> d[f]]
sealed(d) == [f \in DOMAIN d \cup {HashField} |->
                IF f = HashField THEN hash_document(d) ELSE d[f]]

validate_document(d) ==
  LET known == Known
  IN  IF /\ Required \subseteq DOMAIN d
         /\ \A f \in DOMAIN d \ {HashField} : f \in DOMAIN known /\ d[f] \in known[f]
        THEN "" ELSE "invalid_config"

parse(d) ==
  IF validate_document(d) # "" THEN validate_document(d)
    ELSE validate_cross_field_rules(ResolvedSessionConfig(d))
================================================================================
