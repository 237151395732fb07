------------------------------- MODULE MCHosts --------------------------------
(* What a command may find, for TLC: the settings of either auth mode in    *)
(* the environment, in a profile, in both or in none, each way a secret may *)
(* be given, files and the ways to name them, and the switches.             *)
LOCAL INSTANCE Naturals

Secrets == {"client_secret", "password", "api_key"}
Words == {"vanity", "cloud", "zia_cloud", "customer", "client_id", "username", "mode", "redaction", "no_cache"}

(* A record with some fields given.                                         *)
Given(some, all) == [f \in DOMAIN all |-> IF f \in DOMAIN some THEN some[f] ELSE all[f]]

NoFiles == [s \in Secrets |-> "none"]
NoEnv == [f \in Words \cup Secrets \cup {"proxy", "proxy_env", "disallow_cmd", "profile", "config", "files"} |->
            IF f = "files" THEN NoFiles ELSE "none"]
NoProfile == [f \in Words \cup Secrets |-> "none"]
NoFlags == [profile |-> "none", config |-> "none", redaction |-> "none", no_cache |-> FALSE]

Absent == [state |-> "absent", default |-> "none", profiles |-> <<>>]
FileOf(default, profiles) == [state |-> "usable", default |-> default, profiles |-> profiles]
Single(profile) == FileOf("none", [default |-> profile])

Run(op, flags, env, file) ==
    [op |-> op, flags |-> Given(flags, NoFlags), env |-> Given(env, NoEnv),
     files |-> [platform |-> file, flag |-> Absent, env |-> Absent]]

-------------------------------------------------------------------------------
(* Ways a secret may be given: in the environment, in a file that it names, *)
(* by the profile.                                                          *)
Way(env, file, ref) == [env |-> env, file |-> file, ref |-> ref]
Ways == {Way("env", "none", "none"), Way("none", "good", "cmd"), Way("none", "empty", "env"),
         Way("none", "none", "cmd"), Way("none", "none", "file"), Way("none", "none", "keyring"),
         Way("env", "unreadable", "none"), Way("blank", "empty", "env"), Way("none", "none", "none")}

Modes == {<<"none", "none">>, <<"blank", "oneapi">>, <<"blank", "none">>, <<"none", "zia-legacy">>, <<"none", "bad">>,
          <<"oneapi", "zia-legacy">>, <<"zia-legacy", "bad">>, <<"bad", "none">>}

OneAPI(way, id, vanity, cloud, mode) ==
    Run("read", <<>>,
        [client_secret |-> way.env, files |-> [NoFiles EXCEPT !.client_secret = way.file],
         client_id |-> id[1], vanity |-> vanity[1], cloud |-> cloud[1], mode |-> mode[1]],
        Single(Given([client_secret |-> way.ref, client_id |-> id[2], vanity |-> vanity[2],
                      cloud |-> cloud[2], mode |-> mode[2]], NoProfile)))

Legacy(password, key, user, cloud, mode) ==
    Run("read", <<>>,
        [password |-> password.env, api_key |-> key.env,
         files |-> [NoFiles EXCEPT !.password = password.file, !.api_key = key.file],
         username |-> user[1], zia_cloud |-> cloud[1], mode |-> mode[1]],
        Single(Given([password |-> password.ref, api_key |-> key.ref, username |-> user[2],
                      zia_cloud |-> cloud[2], mode |-> mode[2]], NoProfile)))

Here == <<"env", "none">>
Both == <<"env", "profile">>
Words2 == {<<"none", "none">>, <<"none", "profile">>, <<"blank", "profile">>, <<"bad", "profile">>,
           <<"env", "bad">>, <<"none", "bad">>}

(* A host with all it needs, of which one thing or another is changed.      *)
Ready(op, flags, env, profile) ==
    Run(op, flags,
        Given(env, [client_id |-> "env", vanity |-> "env", redaction |-> "none", no_cache |-> "none", proxy |-> "none",
                    proxy_env |-> "none", disallow_cmd |-> "none"]),
        Single(Given(profile, [NoProfile EXCEPT !.client_secret = "cmd"])))

Two == [a |-> [NoProfile EXCEPT !.vanity = "a"], b |-> [NoProfile EXCEPT !.vanity = "b"]]
SomeFiles == {Absent, [Absent EXCEPT !.state = "unusable"], FileOf("b", Two), FileOf("none", Two),
              FileOf("a", [a |-> NoProfile]), FileOf("none", [default |-> NoProfile, a |-> NoProfile])}

MCHosts ==
    {OneAPI(way, id, vanity, <<"none", "none">>, mode) :
        way \in Ways, id \in {Here, Both, <<"none", "none">>}, vanity \in Words2, mode \in Modes}
    \cup {OneAPI(Way("none", "none", "cmd"), id, Both, cloud, <<"none", "none">>) :
              id \in {Here, <<"none", "profile">>}, cloud \in Words2}
    \cup {Legacy(password, key, Both, cloud, <<"none", "none">>) :
              password \in Ways, key \in Ways, cloud \in Words2}
    \cup {Legacy(Way("env", "none", "none"), key, user, Here, mode) :
              key \in Ways, user \in {Here, <<"none", "none">>, <<"none", "profile">>}, mode \in Modes}
    \cup {Ready(op, [redaction |-> flag, no_cache |-> off], [redaction |-> env, no_cache |-> cache],
                [redaction |-> mode, no_cache |-> kept]) :
              op \in {"read", "doctor"}, flag \in {"none", "share"}, off \in BOOLEAN,
              env \in {"none", "paranoid", "blank"}, cache \in {"none", "false", "bad"},
              mode \in {"none", "blank", "standard", "bad"}, kept \in {"none", "true"}}
    \cup {Ready(op, <<>>, [proxy |-> proxy, proxy_env |-> use, disallow_cmd |-> no], <<>>) :
              op \in {"read", "doctor", "auth"}, proxy \in {"none", "blank", "env", "bad"},
              use \in {"none", "true", "bad"}, no \in {"none", "true", "blank"}}
    \cup {[Run("read", [profile |-> flag, config |-> path], [profile |-> env, config |-> name,
                       client_id |-> "env", client_secret |-> "env"], file)
           EXCEPT !.files.flag = IF path = "none" THEN Absent ELSE other, !.files.env = other] :
              flag \in {"none", "blank", "a"}, path \in {"none", "path"}, env \in {"none", "blank", "b"},
              name \in {"none", "blank", "path"}, file \in SomeFiles, other \in {Absent, FileOf("none", Two)}}

===============================================================================
