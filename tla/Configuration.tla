----------------------------- MODULE Configuration -----------------------------
(***************************************************************************)
(* From the environment, a configuration file and the flags to a reader of *)
(* a tenant, or to what `doctor` says of it (internal/config config.go,    *)
(* load.go, profile.go; internal/secretref; internal/runtime runtime.go,   *)
(* status.go; internal/zscaler reader.go validateReaderConfig).            *)
(*                                                                         *)
(* A word is what somebody wrote for a setting: "none" for nothing,        *)
(* "blank" for white space, "bad" for something unusable, anything else is *)
(* usable.                                                                 *)
(* A context that ends is in ReadCommand.                                  *)
(***************************************************************************)
EXTENDS Naturals, Sequences, FiniteSets, SequencesExt

CONSTANT Hosts      \* what a command finds: flags, environment, files

(* Settings that are cut of white space, names, which are not, and secrets. *)
Trimmed == {"vanity", "cloud", "zia_cloud", "customer", "proxy"}
Name == {"client_id", "username"}
Secret == {"client_secret", "password", "api_key"}

Nothing == "none"

(* A secret of the environment is written there, or in a file that it      *)
(* names.                                                                  *)
ASSUME HostsAssumption ==
    \A h \in Hosts :
        /\ h.op \in {"read", "doctor", "auth"}
        /\ h.flags.no_cache \in BOOLEAN
        /\ \A s \in Secret : h.env.files[s] \in {Nothing, "good", "empty", "unreadable"}

(* A secret is not given, is held already, or is with a provider.          *)
Unset == [scheme |-> Nothing, deferred |-> FALSE]
Resolved(scheme) == [scheme |-> scheme, deferred |-> FALSE]
Deferred(scheme) == [scheme |-> scheme, deferred |-> TRUE]
IsConfigured(source) == source # Unset

-----------------------------------------------------------------------------
VARIABLES
    host,        \* flags, environment and files of this run
    stage,
    config,
    profile,     \* the profile in use, if any
    notice,      \* whether the operator is told which
    failure,
    consulted,   \* secrets whose provider was asked
    held,        \* what they turned out to be
    verdict      \* what `auth status` says, or would say

settings == <<host, stage, config, profile, notice, failure, consulted, held, verdict>>

Stages == {"environment", "profile", "apply", "options", "settings", "secrets", "reader", "over"}

Trim(word) == IF word = "blank" THEN Nothing ELSE word
Says(word) == Trim(word) # Nothing
Either(word, other) == IF word # Nothing THEN word ELSE other

(* Strict switches: white space is no value of theirs.                     *)
Parses(word) == word \notin {"blank", "bad"}

-----------------------------------------------------------------------------
(* What a configuration is good for.                                       *)

LegacySet(c) ==
    \/ c.username # Nothing \/ Says(c.zia_cloud)
    \/ \E s \in {"password", "api_key"} : IsConfigured(c[s]) \/ c.from[s]
OneAPISet(c) == c.client_id # Nothing \/ IsConfigured(c.client_secret) \/ c.from["client_secret"]

EffectiveAuthMode(c) ==
    IF c.mode # Nothing THEN c.mode
    ELSE IF LegacySet(c) /\ ~OneAPISet(c) /\ c.vanity = Nothing /\ c.cloud = Nothing THEN "zia-legacy"
    ELSE "oneapi"

IsLegacy(c) == EffectiveAuthMode(c) = "zia-legacy"

(* What is set, but cannot be used, in the effective mode.                 *)
ValidSettings(c) == IF IsLegacy(c) THEN c.zia_cloud # "bad" ELSE c.vanity # "bad" /\ c.cloud # "bad"

ModeSecrets(c) == IF IsLegacy(c) THEN <<"password", "api_key">> ELSE <<"client_secret">>
ModeWords(c) == IF IsLegacy(c) THEN {"username", "zia_cloud"} ELSE {"client_id", "vanity"}

(* Mutant of MissingCredentials: the secrets alone are looked at.          *)
MissingSecrets(c) == {s \in Secret \cap ToSet(ModeSecrets(c)) : ~IsConfigured(c[s])}

(* Judged by presence alone.                                               *)
MissingCredentials(c) ==
    {w \in ModeWords(c) : c[w] = Nothing} \cup {s \in Secret \cap ToSet(ModeSecrets(c)) : ~IsConfigured(c[s])}

ValidProxy(c) == c.proxy # "bad" /\ ~(c.proxy # Nothing /\ c.proxy_env = "true")

CredentialState(c) ==
    IF ~ValidSettings(c) THEN "invalid settings"
    ELSE IF MissingCredentials(c) = {} THEN "configured"
    ELSE IF (IF IsLegacy(c) THEN LegacySet(c) ELSE OneAPISet(c) \/ c.vanity # Nothing) THEN "partial"
    ELSE "not configured"

-----------------------------------------------------------------------------
(* Loading.                                                                *)

Reject(kind) ==
    /\ failure' = kind
    /\ stage' = "over"

Reach(next) ==
    /\ stage' = next
    /\ UNCHANGED failure

(* A file that is named is read even if the secret itself is given.        *)
EnvUnusable(env) ==
    \/ \E w \in {"redaction", "no_cache", "proxy_env"} : ~Parses(env[w])
    \/ env.mode = "bad"
    \/ \E s \in Secret : env.files[s] = "unreadable"

EnvSecret(env, s) ==
    IF env[s] # Nothing THEN Resolved("env")
    ELSE IF env.files[s] = "good" THEN Resolved("file")
    ELSE Unset

EnvConfig(env) ==
    [w \in Trimmed \cup Name \cup Secret \cup {"mode", "from", "redaction", "no_cache", "proxy_env"} |->
        CASE w \in Trimmed -> Trim(env[w])
          [] w \in Name -> env[w]
          [] w \in Secret -> EnvSecret(env, w)
          [] w = "mode" -> Trim(env.mode)
          [] w = "from" -> [s \in Secret |-> env.files[s] # Nothing]
          [] w = "redaction" -> Either(env.redaction, "standard")
          [] OTHER -> Either(env[w], "false")]

LoadEnv ==
    /\ stage = "environment"
    /\ IF EnvUnusable(host.env) \/ ~Parses(host.env.disallow_cmd)
       THEN Reject("invalid_config") /\ UNCHANGED config
       ELSE /\ LET c == EnvConfig(host.env)
               IN  config' = [c EXCEPT !.mode = EffectiveAuthMode(c)]
            /\ Reach("profile")
    /\ UNCHANGED <<host, profile, notice, consulted, held, verdict>>

(* The file: named by a flag or a variable, or the platform's own.         *)
FileIsNamed == Says(host.flags.config) \/ Says(host.env.config)
File == IF Says(host.flags.config) THEN host.files.flag
        ELSE IF Says(host.env.config) THEN host.files.env
        ELSE host.files.platform

RequestedProfile == Either(Trim(host.flags.profile), Trim(host.env.profile))
Picked == Either(RequestedProfile, Either(File.default, "default"))

(* An absent file that nobody named is no error, unless a flag asks for a  *)
(* profile of it.  A profile that was chosen by nobody among several is    *)
(* one the operator is told of before a read.                              *)
LoadProfile ==
    /\ stage = "profile"
    /\ IF File.state = "absent"
       THEN /\ IF FileIsNamed \/ Says(host.flags.profile) THEN Reject("invalid_config") ELSE Reach("options")
            /\ UNCHANGED <<profile, notice>>
       ELSE IF File.state = "unusable" \/ Picked \notin DOMAIN File.profiles
       THEN Reject("invalid_config") /\ UNCHANGED <<profile, notice>>
       ELSE /\ profile' = Picked
            /\ notice' = (RequestedProfile = Nothing /\ Cardinality(DOMAIN File.profiles) > 1)
            /\ Reach("apply")
    /\ UNCHANGED <<host, config, consulted, held, verdict>>

(* Mutant of ProfileSecret: the secret file of the environment is nothing. *)
ProfileSecretDespiteFile(c, p, s) ==
    IF ~IsConfigured(c[s]) /\ p[s] # Nothing THEN Deferred(p[s]) ELSE c[s]

(* A secret of the profile stands in for one that the environment neither  *)
(* gives nor names a file for.                                             *)
ProfileSecret(c, p, s) ==
    IF ~IsConfigured(c[s]) /\ ~c.from[s] /\ p[s] # Nothing THEN Deferred(p[s]) ELSE c[s]

(* A word of the profile stands in where the environment has none at all.  *)
ProfileWord(c, p, env, w) == IF env[w] = Nothing /\ Says(p[w]) THEN p[w] ELSE c[w]

ProfileMode(c, p, env) == IF env.mode # Nothing THEN c.mode ELSE Trim(p.mode)

WithProfile(c, p, env) ==
    [w \in DOMAIN c |->
        CASE w \in {"vanity", "cloud", "zia_cloud", "customer"} \cup Name -> ProfileWord(c, p, env, w)
          [] w \in Secret -> ProfileSecret(c, p, w)
          [] w = "mode" -> ProfileMode(c, p, env)
          [] w \in {"redaction", "no_cache"} -> ProfileWord(c, p, env, w)
          [] OTHER -> c[w]]

(* An auth mode that does not exist is an invalid configuration; a         *)
(* redaction mode that does not exist is an error that says no such thing. *)
ApplyProfile ==
    /\ stage = "apply"
    /\ LET p == File.profiles[profile]
       IN  IF host.env.mode = Nothing /\ p.mode = "bad" THEN Reject("invalid_config") /\ UNCHANGED config
           ELSE IF host.env.redaction = Nothing /\ p.redaction = "bad" THEN Reject("internal") /\ UNCHANGED config
           ELSE /\ LET c == WithProfile(config, p, host.env)
                   IN  config' = [c EXCEPT !.mode = EffectiveAuthMode(c)]
                /\ Reach("options")
    /\ UNCHANGED <<host, profile, notice, consulted, held, verdict>>

(* The flags come last.  `doctor` looks at the proxy before all else, and  *)
(* says the same as `auth status`.                                         *)
ApplyOptions ==
    /\ stage = "options"
    /\ LET c == [config EXCEPT !.redaction = Either(host.flags.redaction, @),
                               !.no_cache = IF host.flags.no_cache THEN "true" ELSE @]
       IN  /\ config' = c
           /\ verdict' = CredentialState(c)
           /\ IF host.op = "read" THEN Reach("settings")
              ELSE IF host.op = "doctor" /\ ~ValidProxy(c) THEN Reject("invalid_proxy_config")
              ELSE Reach("over")
    /\ UNCHANGED <<host, profile, notice, consulted, held>>

-----------------------------------------------------------------------------
(* A reader.                                                               *)

(* What can be told without a secret.                                      *)
ReaderConfig ==
    /\ stage = "settings"
    /\ IF ~ValidSettings(config) THEN Reject("invalid_config")
       ELSE IF MissingCredentials(config) # {} THEN Reject("missing_credentials")
       ELSE Reach("secrets")
    /\ UNCHANGED <<host, config, profile, notice, consulted, held, verdict>>

Pending == {s \in ToSet(ModeSecrets(config)) : s \notin DOMAIN held}
NextSecret == CHOOSE s \in Pending : \A t \in Pending : s = t \/ s = "password"

HoldSecret(s, value) ==
    /\ held' = [t \in DOMAIN held \cup {s} |-> IF t = s THEN value ELSE held[t]]
    /\ UNCHANGED <<failure, stage>>

(* What a provider may say: nothing at all is an answer of a variable or a *)
(* file only.  A command that is not allowed is not run.                   *)
ResolveSecret ==
    /\ stage = "secrets"
    /\ Pending # {}
    /\ LET s == NextSecret
           source == config[s]
       IN  \/ ~source.deferred /\ HoldSecret(s, "good") /\ UNCHANGED consulted
           \/ /\ source.deferred
              /\ source.scheme = "cmd" /\ host.env.disallow_cmd = "true"
              /\ Reject("missing_credentials")
              /\ UNCHANGED <<consulted, held>>
           \/ /\ source.deferred
              /\ ~(source.scheme = "cmd" /\ host.env.disallow_cmd = "true")
              /\ consulted' = Append(consulted, s)
              /\ \/ HoldSecret(s, "good")
                 \/ source.scheme \in {"env", "file"} /\ HoldSecret(s, "empty")
                 \/ Reject("missing_credentials") /\ UNCHANGED held
    /\ UNCHANGED <<host, config, profile, notice, verdict>>

(* NewReader looks at everything once more, and at the secrets themselves. *)
OpenReader ==
    /\ stage = "secrets"
    /\ Pending = {}
    /\ IF ~ValidProxy(config) THEN Reject("invalid_proxy_config")
       ELSE IF ~ValidSettings(config) THEN Reject("invalid_config")
       ELSE IF \E w \in ModeWords(config) : config[w] = Nothing THEN Reject("missing_credentials")
       ELSE IF \E s \in DOMAIN held : held[s] = "empty" THEN Reject("missing_credentials")
       ELSE Reach("reader")
    /\ UNCHANGED <<host, config, profile, notice, consulted, held, verdict>>

SettingsOver == stage \in {"over", "reader"} /\ UNCHANGED settings

SettingsInit ==
    /\ host \in Hosts
    /\ stage = "environment"
    /\ config = <<>>
    /\ profile = Nothing
    /\ notice = FALSE
    /\ failure = Nothing
    /\ consulted = <<>>
    /\ held = <<>>
    /\ verdict = Nothing

SettingsNext ==
    \/ LoadEnv \/ LoadProfile \/ ApplyProfile \/ ApplyOptions
    \/ ReaderConfig \/ ResolveSecret \/ OpenReader
    \/ SettingsOver

SettingsSpec == SettingsInit /\ [][SettingsNext]_settings

-----------------------------------------------------------------------------
SettingsTypeOK ==
    /\ host.op \in {"read", "doctor", "auth"}
    /\ stage \in Stages
    /\ profile # Nothing => profile \in DOMAIN File.profiles
    /\ notice \in BOOLEAN
    /\ failure \in {Nothing, "invalid_config", "invalid_proxy_config", "missing_credentials", "internal"}
    /\ consulted \in Seq(Secret)
    /\ \A s \in DOMAIN held : s \in Secret /\ held[s] \in {"good", "empty"}
    /\ verdict \in {Nothing, "configured", "partial", "not configured", "invalid settings"}

(* What the profile in use says, and where its secrets are.                *)
OfProfile(w) == IF profile = Nothing THEN Nothing ELSE Trim(File.profiles[profile][w])
RefOf(s) == IF profile = Nothing \/ File.profiles[profile][s] = Nothing THEN Unset
            ELSE Deferred(File.profiles[profile][s])

(* Of what the sources say, the most specific first, x is what the first   *)
(* says that says anything.                                                *)
Foremost(x, words, nothing) ==
    IF \A n \in DOMAIN words : words[n] = nothing THEN x = nothing
    ELSE \E n \in DOMAIN words :
            /\ x = words[n] /\ x # nothing
            /\ \A m \in DOMAIN words : m < n => words[m] = nothing

(* A reader has of every setting what the most specific source said of it, *)
(* flags before the environment before the profile, and so of secrets,     *)
(* where a source that fails, or gives nothing, leaves no reader at all:   *)
(* "There is no silent fallback to a plaintext value or a weaker provider" *)
(* (docs/INSTALL.md; LoadConfig, applyProfile, readerConfigFromConfig).    *)
(* Only secrets of its auth mode were asked for, each once.                *)
SettingsAreChosen ==
    /\ stage = "reader" =>
          /\ \A w \in ModeWords(config) : Foremost(config[w], <<host.env[w], OfProfile(w)>>, Nothing)
          /\ \A s \in ToSet(ModeSecrets(config)) :
                /\ held[s] = "good"
                /\ Foremost(config[s], <<IF host.env[s] = Nothing THEN Unset ELSE Resolved("env"),
                                         IF host.env.files[s] = Nothing THEN Unset ELSE Resolved("file"),
                                         RefOf(s)>>, Unset)
                /\ host.env.files[s] = "empty" => config[s] = Resolved("env")
          /\ Foremost(config.redaction,
                      <<host.flags.redaction, host.env.redaction, OfProfile("redaction"), "standard">>, Nothing)
          /\ Foremost(config.no_cache, <<IF host.flags.no_cache THEN "true" ELSE Nothing, host.env.no_cache,
                                         OfProfile("no_cache"), "false">>, Nothing)
          /\ Says(host.env.mode) => config.mode = host.env.mode
          /\ host.env.mode = Nothing /\ Says(OfProfile("mode")) => config.mode = OfProfile("mode")
    /\ consulted # <<>> => ToSet(consulted) \subseteq ToSet(ModeSecrets(config))
    /\ Cardinality(ToSet(consulted)) = Len(consulted)

(* "The doctor status, credential status and live API status all derive    *)
(* from it, so they cannot disagree" (status.go), and a read does not      *)
(* disagree with them either: it is refused for its settings, or for what  *)
(* is missing, if and only if the status says so, and before a provider is *)
(* asked; and once all is configured only a provider leaves a secret       *)
(* missing (credentialStateOf, ValidateSettings, MissingCredentials).      *)
StatusIsTrue ==
    verdict # Nothing /\ host.op = "read" =>
        /\ stage = "reader" \/ consulted # <<>> => verdict = "configured"
        /\ stage = "over" =>
              /\ failure = "invalid_config" <=> verdict = "invalid settings"
              /\ verdict \in {"partial", "not configured"} => failure = "missing_credentials"
              /\ verdict = "configured" /\ failure = "missing_credentials" =>
                    \E s \in ToSet(ModeSecrets(config)) : config[s].deferred

(* docs/VERSIONING.md: exit code 2 is "Usage error, invalid resource id,   *)
(* or an unusable configuration or proxy setting", so what is refused for  *)
(* what was written in a configuration does not end with 1.                *)
UnusableIsUsage == stage = "over" => failure # "internal"

===============================================================================
