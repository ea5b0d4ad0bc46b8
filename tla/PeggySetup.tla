----------------------------- MODULE PeggySetup -----------------------------
(***************************************************************************)
(* From settings.json to a running Peggy and back (agents/peggy): the       *)
(* settings are loaded, a command checks them (doctor, status), or builds   *)
(* Peggy from them, runs (a prompt, a skill, the daemon, the Telegram       *)
(* channel), and closes what it opened.                                    *)
(*                                                                         *)
(* Paths are what the code tells apart: "" is unset, "default" is the       *)
(* default path, "off" turns a feature off.                                *)
(***************************************************************************)
EXTENDS Naturals, FiniteSets

CONSTANTS
  Files      \* settings files: records as File below

ASSUME SetupAssumption ==
  Files \subseteq
    [store : STRING, spelled : {"plain", "cased", "spaced"}, path : BOOLEAN, provider : STRING,
     coding : {"no", "ok", "missing"}, context : STRING, default : STRING,
     tiers : SUBSET [spelling : STRING, channel : STRING, tier : STRING], remember : STRING, schedules : STRING,
     servers : {"none", "good", "bad", "unnamed"}, bot : {"none", "good", "incomplete"}]

VARIABLES
  file,      \* the settings file, {} without one, {f} with one
  soul,      \* SOUL.md: "none", "found", "missing" where a flag or a variable names it
  login,     \* whether the provider has its credentials
  flag,      \* whether --coding is given
  faults,    \* what cannot be had: "store", "servers", "schedules", "listen"
  command, stage,
  settings,  \* the settings the command goes by, {s} once they are loaded
  open,      \* "store", "servers", "scheduler", "grants": what is in use
  asker,     \* the permission tools are asked with: "none", or the tier of its channel
  ready,     \* the verdict of the doctor
  why,       \* of a setup that failed: "settings" or "world"
  exitCode   \* the exit code, 3 before the end

setupVars == <<file, soul, login, flag, faults, command, stage, settings, open, asker, ready, why, exitCode>>

\* The type of the store is lower case and "plain", or "cased", or "spaced" around.
File(store, provider, coding, context, tiers, remember, schedules, servers, bot) ==
  [store |-> store, spelled |-> "plain", path |-> FALSE, provider |-> provider, coding |-> coding,
   context |-> context, default |-> "", tiers |-> tiers, remember |-> remember, schedules |-> schedules,
   servers |-> servers, bot |-> bot]
Blank == File("", "", "no", "", {}, "", "", "none", "none")

SetupInit ==
  /\ file \in {{}} \cup {{f} : f \in Files} /\ soul \in {"none", "found", "missing"}
  /\ login \in BOOLEAN /\ flag \in BOOLEAN /\ faults \in {{}, {"store"}, {"servers"}, {"schedules"}, {"listen"}}
  /\ command = "none" /\ stage = "idle" /\ settings = {} /\ open = {} /\ asker = "none"
  /\ ready = FALSE /\ why = "none" /\ exitCode = 3

-----------------------------------------------------------------------------
(* Loading. *)

\* normalizePermissionSettings: spellings of one channel end up in one entry, of
\* those that name it whichever comes last in the order of the map.
Normalized(tiers) ==
  {t \in SUBSET {[channel |-> c.channel, tier |-> c.tier] : c \in tiers} :
     /\ {c.channel : c \in t} = {c.channel : c \in tiers}
     /\ \A c, d \in t : c.channel = d.channel => c = d}
\* validatePermissionSettings.
ValidTier(tier) == tier \in {"prompt", "read_only", "trusted"}
TiersValid(s)   == ValidTier(s.default) /\ \A c \in s.tiers : ValidTier(c.tier)

Or(value, default) == IF value = "" THEN default ELSE value
\* fillDefaults. Only a type that is known as it is written has a default path.
FillDefaults(f) ==
  LET type == IF f.spelled = "plain" THEN Or(f.store, "sqlite") ELSE f.store
  IN  [f EXCEPT !.provider = Or(@, "codex"), !.store = type,
                !.path = @ \/ (f.spelled = "plain" /\ type \in {"sqlite", "file"}),
                !.default = Or(@, "prompt"), !.remember = Or(@, "default"), !.schedules = Or(@, "default")]

\* permissionRememberPathDisabled: "off" is an empty path from here on.
Disable(f) == [f EXCEPT !.remember = IF @ = "off" THEN "" ELSE @]

\* Mutant: what is off is emptied before the defaults are filled in.
LoadedEarly(f) == FillDefaults(Disable(f))
\* LoadSettings, with a file: the defaults first, what is turned off after them.
Loaded(f) == Disable(FillDefaults(f))

\* --coding, --workdir, --coding-allow-overwrite, in the commands that have them.
WithFlags(s) == IF flag /\ command \in {"prompt", "skill", "serve"} /\ s.coding = "no" THEN [s EXCEPT !.coding = "ok"] ELSE s

LeaveSetup(code) == stage' = "done" /\ exitCode' = code

StartCommand(c) ==
  /\ stage = "idle" /\ command' = c /\ stage' = "load"
  /\ UNCHANGED <<file, soul, login, flag, faults, settings, open, asker, ready, why, exitCode>>

\* LoadSettings, applyCodingFlags, LoadSoul. Without a file nothing can be off.
Load ==
  /\ stage = "load"
  /\ IF (\E f \in file : ~TiersValid(FillDefaults(f))) \/ soul = "missing" THEN LeaveSetup(1) /\ UNCHANGED settings
     ELSE /\ stage' = "loaded" /\ UNCHANGED exitCode
          /\ IF file = {} THEN settings' = {WithFlags(FillDefaults(Blank))}
             ELSE \E f \in file : \E t \in Normalized(f.tiers) :
                    settings' = {WithFlags([Loaded(f) EXCEPT !.tiers = t])}
  /\ UNCHANGED <<file, soul, login, flag, faults, command, open, asker, ready, why>>

Current == CHOOSE s \in settings : TRUE

-----------------------------------------------------------------------------
(* The doctor. *)

KnownProvider(s) == s.provider \in {"codex", "gemini"}
\* doctorProviderCredentialCheck.
Credentials(s) == login
\* doctorStoreCheck, of the type however it is spelled: a file store is not
\* searched, the doctor wants sqlite.
StoreHolds(s) == s.path /\ Or(s.store, "sqlite") = "sqlite"
WorkspaceHolds(s) == s.context # "missing" /\ s.context # "broken"
CodingHolds(s) == s.coding # "missing"
\* doctorTelegramCheck, for a bot that polls on its own.
BotHolds(s) == s.bot # "incomplete"
\* doctorMCPCheck makes the configurations, not the manager.
ServersHold(s) == s.servers # "bad"

\* buildDoctorReport: a check that fails, and no warning, keeps Peggy from being ready.
Ready(s) ==
  /\ KnownProvider(s) /\ (KnownProvider(s) => Credentials(s)) /\ StoreHolds(s) /\ WorkspaceHolds(s)
  /\ CodingHolds(s) /\ TiersValid(s) /\ BotHolds(s) /\ ServersHold(s)

Doctor ==
  /\ stage = "loaded" /\ command = "doctor"
  /\ ready' = Ready(Current) /\ LeaveSetup(IF Ready(Current) THEN 0 ELSE 1)
  /\ UNCHANGED <<file, soul, login, flag, faults, command, settings, open, asker, why>>
\* runStatus prints the settings as they were loaded.
Status ==
  /\ stage = "loaded" /\ command = "status" /\ LeaveSetup(0)
  /\ UNCHANGED <<file, soul, login, flag, faults, command, settings, open, asker, ready, why>>

-----------------------------------------------------------------------------
(* Building Peggy. *)

Tier(channel) ==
  LET own == {c \in Current.tiers : c.channel = channel}
  IN  IF own = {} THEN Current.default ELSE (CHOOSE c \in own : TRUE).tier

HasTools == Current.coding # "no" \/ Current.servers # "none"
Channel  == IF command = "telegram" THEN "telegram" ELSE "cli"
\* cliPermissionForSettings, and its like in peggy-telegram: nobody is asked when no
\* tool could do any harm. The daemon asks its clients.
AsksUser == IF command = "serve" THEN asker' = "daemon"
        ELSE asker' = IF HasTools THEN Tier(Channel) ELSE "none"

\* NewFilePermissionStore has none for an empty path; what holds of the settings New
\* fills in the defaults of once more does not matter to it.
Grants == IF command = "serve" /\ Current.remember # "" THEN {"grants"} ELSE {}

Opens(used) == open' = open \cup used
\* The commands that build Peggy.
Agents == {"prompt", "skill", "serve", "telegram"}

\* buildStore lowers the type and does not trim it, and sqlite needs a path.
StoreType(s) == IF s.spelled = "spaced" THEN "unknown" ELSE Or(s.store, "sqlite")
StoreKnown(s) == StoreType(s) = "file" \/ (StoreType(s) = "sqlite" /\ s.path)
StoreFails == "store" \in faults
\* MCPServerConfigs refuses what has no command, NewManager also an enabled server
\* without a name or with one of which no letter can be in the name of a tool.
ServersKnown(s) == s.servers \notin {"bad", "unnamed"}

\* New: the provider, the store, the coding tools, the servers, in this order; what
\* was opened before an error stays open. (The file store opens nothing.)
Build ==
  /\ stage = "loaded" /\ command \in Agents
  /\ AsksUser
  /\ LET sqlite == StoreType(Current) = "sqlite"
         stored == Grants \cup IF sqlite THEN {"store"} ELSE {}
     IN IF ~KnownProvider(Current) \/ ~StoreKnown(Current)
          THEN Opens(Grants) /\ why' = "settings" /\ LeaveSetup(1)
        ELSE IF sqlite /\ StoreFails THEN Opens(Grants) /\ why' = "world" /\ LeaveSetup(1)
        ELSE IF Current.coding = "missing" \/ ~ServersKnown(Current)
          THEN Opens(stored) /\ why' = "settings" /\ LeaveSetup(1)
        ELSE IF Current.servers = "good" /\ "servers" \in faults THEN Opens(stored) /\ why' = "world" /\ LeaveSetup(1)
        ELSE /\ Opens(stored \cup IF Current.servers = "good" THEN {"servers"} ELSE {})
             /\ stage' = "built" /\ UNCHANGED <<why, exitCode>>
  /\ UNCHANGED <<file, soul, login, flag, faults, command, settings, ready>>

Schedules == Current.schedules # "off"
\* Peggy.Close: the servers, then the store, whatever the former say.
Closed == {"servers", "store"}

\* runServe opens the schedules and starts the scheduler, and listens; the channel
\* polls; a prompt runs.
Run ==
  /\ stage = "built"
  /\ IF command = "serve" /\ Schedules /\ "schedules" \in faults
       THEN open' = open \ (Closed \cup {"grants"}) /\ LeaveSetup(1)
       ELSE /\ stage' = "running" /\ UNCHANGED exitCode
            /\ open' = open \cup IF command = "serve" /\ Schedules THEN {"scheduler"} ELSE {}
  /\ UNCHANGED <<file, soul, login, flag, faults, command, settings, asker, ready, why>>

\* The end of the command, with an error or without (the channel needs allowed
\* chats), or a cancelled context; its scheduler ends with the context.
EndCommand(code) ==
  /\ stage = "running" /\ LeaveSetup(code)
  /\ (command = "telegram" /\ Current.bot # "good") \/ "listen" \in faults => code = 1
  /\ open' = open \ (Closed \cup {"scheduler", "grants"})
  /\ UNCHANGED <<file, soul, login, flag, faults, command, settings, asker, ready, why>>
\* A server may be gone when it is closed.
Breaks ==
  /\ stage = "running" /\ faults = {} /\ faults' = {"servers"}
  /\ UNCHANGED <<file, soul, login, flag, command, stage, settings, open, asker, ready, why, exitCode>>

SetupNext ==
  \/ \E c \in {"doctor", "status"} \cup Agents : StartCommand(c)
  \/ Load \/ Doctor \/ Status \/ Build \/ Run \/ Breaks \/ EndCommand(0) \/ EndCommand(1)

SetupSpec == SetupInit /\ [][SetupNext]_setupVars

-----------------------------------------------------------------------------
\* New refuses settings the doctor finds ready only for a type of store with a space
\* around it, which the doctor trims, or the name of a server, which the doctor does
\* not look at (buildDoctorReport, New).
DoctorIsRight ==
  why = "settings" =>
    \/ ~Ready(Current)
    \/ Current.spelled = "spaced" /\ Or(Current.store, "sqlite") = "sqlite"
    \/ Current.servers = "unnamed"

\* What the user turned off is off when the command runs, through two fillings-in
\* of the defaults, and what they did not is on (LoadSettings, fillDefaults, runServe).
OffStaysOff ==
  stage = "running" /\ command = "serve" /\ file # {} =>
    \A f \in file : /\ "grants" \in open <=> f.remember # "off"
                    /\ "scheduler" \in open <=> f.schedules # "off"

\* Tools that can do harm come with somebody to ask, in the tier of the channel the
\* user set, or in the one for all; nothing is left open (cliPermissionForSettings, Close).
NobodyActsUnasked ==
  /\ stage = "running" /\ HasTools /\ command \in {"prompt", "skill", "telegram"} =>
       /\ asker # "none"
       /\ \A f \in file :
            IF \E c \in f.tiers : c.channel = Channel
            THEN \E c \in f.tiers : c.channel = Channel /\ c.tier = asker
            ELSE asker = Or(f.default, "prompt")
  /\ stage = "done" /\ why = "none" => open = {}

\* What a setup keeps of its settings (LoadSettings, New, Close).
SetupIsSound == DoctorIsRight /\ OffStaysOff /\ NobodyActsUnasked

-----------------------------------------------------------------------------
(***************************************************************************)
(* The inductive strengthening: the settings are those of the file, as it   *)
(* was normalized and defaulted, until the end, and what is open and who is *)
(* asked follow from them.                                                 *)
(***************************************************************************)
SetupTypeOK ==
  /\ file \in {{}} \cup {{f} : f \in Files}
  /\ open \subseteq {"store", "servers", "scheduler", "grants"}

\* A setting s that keeps what file f says: what is off, and the tiers.
Keeps(s, f) ==
  /\ s.remember # "" <=> f.remember # "off"
  /\ s.schedules # "off" <=> f.schedules # "off"
  /\ s.tiers \in Normalized(f.tiers) /\ s.default = Or(f.default, "prompt") /\ ValidTier(s.default)
  /\ \A c \in f.tiers : ValidTier(c.tier)

SettingsInv ==
  /\ stage \in {"idle", "load"} => settings = {}
  /\ stage \in {"loaded", "built", "running"} => settings # {}
  /\ \A s, t \in settings : s = t
  /\ \A s \in settings, f \in file : Keeps(s, f)
  /\ \A s \in settings : file = {} => s.tiers = {} /\ s.default = "prompt"

OpenInv ==
  /\ stage \in {"idle", "load", "loaded"} => open = {} /\ why = "none"
  /\ stage \in {"built", "running"} =>
       /\ why = "none"
       /\ command = "serve" => ("grants" \in open <=> Current.remember # "")
       /\ command # "serve" => asker = IF HasTools THEN Tier(Channel) ELSE "none"
       /\ "scheduler" \in open <=> stage = "running" /\ command = "serve" /\ Schedules

SetupInv ==
  /\ SetupTypeOK /\ SettingsInv /\ OpenInv /\ DoctorIsRight
  /\ stage = "done" /\ why = "none" => open = {}
=============================================================================
