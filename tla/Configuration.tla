--------------------------- MODULE Configuration ---------------------------
(***************************************************************************)
(* What the server is configured with: LoadConfig                          *)
(* (internal/app/config.go) lays the configuration file and the            *)
(* environment over the defaults, and main (cmd/charles-mcp/main.go) lays  *)
(* the flags over the result.                                              *)
(*                                                                         *)
(* Three settings stand for all: data_dir, which has a flag; recordings    *)
(* (recordings_dir), which has none but depends on data_dir when nobody    *)
(* names it; and url, for the ones that only a file or a variable sets.    *)
(* A source that does not mention a setting has it Unset, one that         *)
(* mentions it with the empty string has it Empty.                         *)
(***************************************************************************)
EXTENDS Naturals, FiniteSets

CONSTANTS Dirs       \* the directories that occur

Unset == "unset"
Empty == "empty"
Default == "default"
Settings == {"data_dir", "recordings", "url"}

(* The directory "recordings" inside a data directory. *)
Below(dir) == <<dir, "recordings">>

VARIABLES file,     \* what the file sets; nothing without one
          env,      \* what the environment sets
          flags,    \* what the command line sets: data_dir
          timeout,  \* whether the timeout of the file is in its range
          pc,       \* "file", "env", "check", "flags", then "run" or "failed"
          config    \* the configuration so far
vars == <<file, env, flags, timeout, pc, config>>

Sources == [Settings -> {Unset, Empty} \cup Dirs]

----------------------------------------------------------------------------
OverUnlessEmpty(base, source) == [s \in Settings |-> IF source[s] \in {Unset, Empty} THEN base[s] ELSE source[s]]

Over(base, source) == [s \in Settings |-> IF source[s] = Unset THEN base[s] ELSE source[s]]

\* config.go:29
Defaults == [s \in Settings |-> IF s = "recordings" THEN Empty ELSE Default]

Init ==
  /\ file \in Sources /\ env \in Sources /\ flags \in {Unset} \cup Dirs /\ timeout \in BOOLEAN
  /\ pc = "file" /\ config = Defaults

\* config.go:30-41
ReadFile == /\ pc = "file" /\ pc' = "env" /\ config' = Over(config, file)
            /\ UNCHANGED <<file, env, flags, timeout>>

\* config.go:42-46
ReadEnv == /\ pc = "env" /\ pc' = "check" /\ config' = Over(config, env)
           /\ UNCHANGED <<file, env, flags, timeout>>

\* config.go:54-56
Placed(c) == IF c.recordings = Empty THEN [c EXCEPT !.recordings = Below(c.data_dir)] ELSE c

\* config.go:47-62
Check ==
  /\ pc = "check"
  /\ IF config.data_dir = Empty \/ ~timeout THEN pc' = "failed" /\ UNCHANGED config
     ELSE pc' = "flags" /\ config' = Placed(config)
  /\ UNCHANGED <<file, env, flags, timeout>>

ReadFlagsDirOnly ==
  /\ pc = "flags" /\ pc' = "run"
  /\ config' = IF flags = Unset THEN config ELSE [config EXCEPT !.data_dir = flags]
  /\ UNCHANGED <<file, env, flags, timeout>>

\* main.go:44-52
ReadFlags ==
  /\ pc = "flags" /\ pc' = "run"
  /\ config' = IF flags = Unset THEN config
               ELSE [config EXCEPT !.data_dir = flags,
                                   !.recordings = IF env.recordings \in {Unset, Empty} THEN Below(flags) ELSE @]
  /\ UNCHANGED <<file, env, flags, timeout>>

Next == ReadFile \/ ReadEnv \/ Check \/ ReadFlags
Spec == Init /\ [][Next]_vars

----------------------------------------------------------------------------
Named(v) == v \notin {Unset, Empty}
Mentioned(v) == v # Unset

FirstMentioned(flag, setting) ==
  IF Mentioned(flag) THEN flag
  ELSE IF Mentioned(env[setting]) THEN env[setting]
  ELSE IF Mentioned(file[setting]) THEN file[setting] ELSE Default

(* "Configuration priority: command-line flags, environment, config.json,
   defaults" (README.md:111), for the settings whose value is taken as it is:
   the first source in that order that mentions one decides. *)
FirstMentionDecides ==
  pc = "run" => config.data_dir = FirstMentioned(flags, "data_dir") /\ config.url = FirstMentioned(Unset, "url")

(* Recordings that nobody placed are below the data directory that is used,
   wherever that came from (config.go:54-56, main.go:46-49). *)
RecordingsFollowData ==
  (pc = "run" /\ ~Named(env.recordings) /\ ~Named(file.recordings)) => config.recordings = Below(config.data_dir)

(* Why: at each stage the configuration is the sources read so far, laid over
   the defaults. *)
Layered == Over(Over(Defaults, file), env)

ConfigOK ==
  CASE pc = "file" -> config = Defaults
    [] pc = "env" -> config = Over(Defaults, file)
    [] pc = "check" -> config = Layered
    [] pc = "flags" -> config = Placed(Layered)
    [] OTHER -> FirstMentionDecides /\ RecordingsFollowData
=============================================================================
