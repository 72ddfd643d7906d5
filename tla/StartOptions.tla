---------------------------- MODULE StartOptions -----------------------------
(***************************************************************************)
(* What session.start takes: the options of a session and the config.json  *)
(* that it writes of them, and the restarts of an editor, which start a    *)
(* session of the last one's configuration on its dataset                  *)
(* (/editor/restart).  An option is whether it was given, or not the       *)
(* default; only those are here that start refuses a combination of.       *)
(***************************************************************************)
EXTENDS Naturals, Sequences, FiniteSets

CONSTANTS Flags,        \* options, and the options of which combinations are refused
          MaxGiven,     \* options that are given at once
          MaxRestarts

Native == {"maiden", "reopen", "jack", "profile", "lua_profile", "quiet", "desktop", "arc",
           "timeout", "audio", "controlled", "install", "seed"}

ASSUME OptionsAssumption ==
  /\ Flags = Native \cup {"native", "data", "data_seeds", "port"}
  /\ MaxGiven \in Nat /\ MaxRestarts \in Nat

VARIABLES config,     \* the options in config.json of the session that runs
          dataset,    \* the data directory of the session that runs
          restarts    \* the outcomes of the restarts of the editor

optionVars == <<config, dataset, restarts>>

-----------------------------------------------------------------------------
(* start. *)

\* What is for the native runtime, real time, or an explicit installation only.
Requires(given, some, what) == given \cap some # {} => what \in given
RealTimeOnly == {"maiden", "desktop", "profile"}

RefusesOptions(given) ==
  \/ ~Requires(given, Native, "native")
  \/ given \cap RealTimeOnly # {} /\ "controlled" \in given
  \/ ~Requires(given, {"controlled", "profile", "lua_profile"}, "install")
  \/ "maiden" \in given /\ "port" \in given
  \/ "reopen" \in given /\ given \cap {"data", "data_seeds"} # {}

\* A session reopens its dataset, makes one in a parent, or keeps one of its own.
DataPath(given, id, reopened) ==
  CASE "reopen" \in given -> reopened
    [] "data" \in given /\ "reopen" \notin given -> <<"parent", id>>
    [] OTHER -> <<"session", id>>

OptionsInit ==
  /\ config \in {given \in SUBSET Flags : Cardinality(given) <= MaxGiven /\ ~RefusesOptions(given)}
  /\ dataset = DataPath(config, 0, <<"reopened", 0>>)
  /\ restarts = <<>>

-----------------------------------------------------------------------------
(* /editor/restart, of a session with a Maiden bundle.                      *)

Fields == Flags \ {"native", "data", "data_seeds", "reopen"}

Restart ==
  LET options == {"native", "reopen"} \cup (config \cap Fields) IN
  /\ "maiden" \in config /\ Len(restarts) < MaxRestarts
  /\ restarts' = Append(restarts, IF RefusesOptions(options) THEN "refused" ELSE "started")
  /\ IF RefusesOptions(options) THEN UNCHANGED <<config, dataset>>
     ELSE config' = options /\ dataset' = DataPath(options, Len(restarts) + 1, dataset)

OptionsSpec == OptionsInit /\ [][Restart]_optionVars

-----------------------------------------------------------------------------
(* Whatever an editor was started with, its restarts are started too, each  *)
(* on the dataset of the first session and with the options of an editor's  *)
(* session (session.start, /editor/restart).                                *)
RestartsKeepTheSession ==
  /\ \A k \in DOMAIN restarts : restarts[k] = "started"
  /\ restarts # <<>> =>
       /\ dataset[2] = 0
       /\ {"maiden", "reopen", "native"} \subseteq config
       /\ config \cap {"data", "data_seeds", "port"} = {}
=============================================================================
