----------------------------- MODULE AmbientInstall -----------------------------
(***************************************************************************)
(* `agents install`, `agents uninstall` and `agents trust install|remove`: *)
(* what they leave in the user's shell profile, the launchd session, the   *)
(* LaunchAgents directory, the state directory and the login keychain,     *)
(* when any step may fail, the command may be killed between two steps,    *)
(* launchd restarts the daemon, the user edits the profile and the machine *)
(* restarts.                                                               *)
(*                                                                         *)
(* The profile is a sequence of tokens: the user's lines, newlines, and    *)
(* the two fence markers with the exports between them.                    *)
(***************************************************************************)
EXTENDS Naturals, Sequences

CONSTANTS
  Lines,          \* lines the user may have in the profile, each at most once
  MaxCommands,    \* bound of the model: commands run
  MaxFaults       \* bound of the model: kills, daemon deaths and reboots

ASSUME InstallAssumption ==
  /\ Lines \cap {"begin", "env", "end", "nl"} = {}
  /\ MaxCommands \in Nat /\ MaxFaults \in Nat

EnvVars  == {"NODE_EXTRA_CA_CERTS", "CODEX_CA_CERTIFICATE"}
Commands == {"install", "uninstall", "trust", "untrust"}

VARIABLES
  profile,        \* the tokens of ~/.zshenv, empty also when there is no file
  env,            \* variables set in the launchd session
  plist,          \* the LaunchAgent's file exists
  job,            \* launchd has the job loaded
  daemon,         \* its process: "down", "starting" or "up"
  ca,             \* the CA in the state directory, 0 for none
  minted,         \* CAs created so far
  keychain,       \* CAs trusted in the login keychain
  marker,         \* the capture pause marker exists
  command,        \* the command that runs, or "none"
  at,             \* its place in Steps
  draft,          \* what it is about to write to the profile
  issues,         \* uninstall has collected an error
  outcome,        \* what the last command reported
  started,        \* commands started so far
  faults,         \* kills, deaths and reboots so far
  lines,          \* history: the lines the user wants in the profile
  lost,           \* history: a rewrite of the profile was cut short, raced or blind
  slipped         \* history: a step whose error is ignored failed in this command

launchVars  == <<plist, job, daemon>>
trustVars   == <<ca, minted, keychain>>
profileVars == <<profile, draft, lines, lost>>
commandVars == <<command, at, issues, outcome, started, slipped>>
vars        == <<profileVars, env, launchVars, trustVars, marker, commandVars, faults>>

(***************************************************************************)
(* The fenced block of the profile.                                        *)
(***************************************************************************)
NL    == <<"nl">>
Block == <<"begin", "nl", "env", "nl", "end", "nl">>

Places(text, token) == {i \in 1 .. Len(text) : text[i] = token}
Least(S) == CHOOSE i \in S : \A j \in S : i <= j

(* stripBlock looks for the first of each marker and gives up unless the end
   comes after the beginning. *)
Fenced(text) ==
  /\ Places(text, "begin") # {} /\ Places(text, "end") # {}
  /\ Least(Places(text, "begin")) < Least(Places(text, "end"))

Words(text) == {i \in 1 .. Len(text) : text[i] # "nl"}

TrimRight(text) ==
  SubSeq(text, 1, IF Words(text) = {} THEN 0
                  ELSE CHOOSE i \in Words(text) : \A j \in Words(text) : j <= i)
TrimLeft(text) ==
  SubSeq(text, IF Words(text) = {} THEN Len(text) + 1 ELSE Least(Words(text)), Len(text))

Before(text) == TrimRight(SubSeq(text, 1, Least(Places(text, "begin")) - 1))
After(text)  == TrimLeft(SubSeq(text, Least(Places(text, "end")) + 1, Len(text)))

(* Deliberately wrong variant: whatever follows the block goes with it. *)
StripToEnd(text) == IF Fenced(text) THEN Before(text) \o NL ELSE text

StripBlock(text) ==
  IF ~Fenced(text) THEN text
  ELSE IF Before(text) = << >> /\ After(text) = << >> THEN << >>
  ELSE Before(text) \o (IF Before(text) # << >> /\ After(text) # << >> THEN NL ELSE << >>)
       \o After(text) \o NL

EndsLine(text) == IF text = << >> \/ text[Len(text)] = "nl" THEN text ELSE text \o NL

(* Deliberately wrong variant: the block is appended without removing the
   previous one. *)
AppendBlock(text) == EndsLine(text) \o Block

WithBlock(text) == EndsLine(StripBlock(text)) \o Block

(***************************************************************************)
(* The commands, step by step.                                             *)
(***************************************************************************)
InstallSteps == <<"read", "truncate", "write", "setenv", "plist", "bootstrap">>

(* Deliberately wrong order: the state directory goes while launchd still
   restarts the daemon. *)
UninstallStateFirst ==
  <<"untrust", "state", "read", "truncate", "write", "unsetenv", "bootout", "unlink", "clear">>

UninstallSteps ==
  <<"untrust", "read", "truncate", "write", "unsetenv", "bootout", "unlink", "state", "clear">>

StepsOf(c) ==
  CASE c = "install"   -> InstallSteps
    [] c = "uninstall" -> UninstallSteps
    [] c = "trust"     -> <<"trust">>
    [] c = "untrust"   -> <<"untrust">>

At(step) == command # "none" /\ StepsOf(command)[at] = step

(* The profile on disk is neither the old nor the new one, or is about to be
   replaced by one that was computed from an older reading. *)
Rewriting == At("truncate") \/ At("write")

Stop(report) == command' = "none" /\ at' = 0 /\ outcome' = report

(* A command that has done its last step reports its success. *)
Skip(n) ==
  IF at + n <= Len(StepsOf(command))
  THEN at' = at + n /\ UNCHANGED <<command, outcome>>
  ELSE Stop(command)
Proceed == Skip(1)

Init ==
  /\ profile \in {<< >>} \cup {<<l>> : l \in Lines} \cup {<<l, "nl">> : l \in Lines}
  /\ lines = IF profile = << >> THEN << >> ELSE <<profile[1]>>
  /\ draft = << >> /\ lost = FALSE
  /\ env = {} /\ plist = FALSE /\ job = FALSE /\ daemon = "down"
  /\ ca = 0 /\ minted = 0 /\ keychain = {} /\ marker = FALSE
  /\ command = "none" /\ at = 0 /\ issues = FALSE /\ outcome = "none"
  /\ started = 0 /\ slipped = FALSE /\ faults = 0

Start(c) ==
  /\ command = "none" /\ started < MaxCommands
  /\ command' = c /\ at' = 1 /\ started' = started + 1
  /\ issues' = FALSE /\ slipped' = FALSE /\ outcome' = "none"
  /\ UNCHANGED <<profileVars, env, launchVars, trustVars, marker, faults>>

(* writeProfileBlock takes every failed read for an absent profile;
   removeProfileBlock reports one and leaves the file alone. *)
ReadProfile ==
  /\ At("read")
  /\ \/ /\ draft' = IF command = "install" THEN WithBlock(profile) ELSE StripBlock(profile)
        /\ Proceed /\ UNCHANGED <<issues, lost>>
     \/ /\ command = "install" /\ draft' = Block /\ lost' = TRUE
        /\ Proceed /\ UNCHANGED issues
     \/ /\ command = "uninstall" /\ issues' = TRUE
        /\ Skip(3) /\ UNCHANGED <<draft, lost>>
  /\ UNCHANGED <<profile, lines, env, launchVars, trustVars, marker, started, slipped, faults>>

(* os.WriteFile truncates the file, then writes it. *)
TruncateProfile ==
  /\ At("truncate")
  /\ profile' = << >>
  /\ Proceed
  /\ UNCHANGED <<draft, lines, lost, env, launchVars, trustVars, marker, issues, started,
                 slipped, faults>>

WriteProfile ==
  /\ At("write")
  /\ profile' = draft /\ draft' = << >>
  /\ Proceed
  /\ UNCHANGED <<lines, lost, env, launchVars, trustVars, marker, issues, started, slipped,
                 faults>>

(* The disk is full, or the file cannot be opened for writing: what was written
   by then stays. *)
WriteProfileFails ==
  /\ \/ At("truncate") /\ profile' = profile /\ lost' = lost
     \/ At("write") /\ lost' = TRUE
        /\ profile' \in {SubSeq(draft, 1, n) : n \in {0, Len(draft) \div 2}}
  /\ draft' = << >>
  /\ IF command = "install"
     THEN Stop("failed") /\ issues' = issues
     ELSE Skip(IF At("truncate") THEN 2 ELSE 1) /\ issues' = TRUE
  /\ UNCHANGED <<lines, env, launchVars, trustVars, marker, started, slipped, faults>>

(* launchctl setenv, one variable after the other: a failure leaves the first. *)
SetEnv ==
  /\ At("setenv")
  /\ \/ env' = EnvVars /\ Proceed
     \/ env' = env \cup {"NODE_EXTRA_CA_CERTS"} /\ Stop("failed")
     \/ env' = env /\ Stop("failed")
  /\ UNCHANGED <<profileVars, launchVars, trustVars, marker, issues, started, slipped, faults>>

UnsetEnv ==
  /\ At("unsetenv")
  /\ env' \in SUBSET env
  /\ slipped' = (slipped \/ env' # {})
  /\ Proceed
  /\ UNCHANGED <<profileVars, launchVars, trustVars, marker, issues, started, faults>>

WritePlist ==
  /\ At("plist")
  /\ \/ plist' = TRUE /\ Proceed
     \/ UNCHANGED plist /\ Stop("failed")
  /\ UNCHANGED <<profileVars, env, job, daemon, trustVars, marker, issues, started, slipped,
                 faults>>

(* LoadDaemon: bootout whatever is loaded, ignoring errors, then bootstrap,
   which fails while the job is still loaded. *)
LoadDaemon ==
  /\ At("bootstrap")
  /\ \/ job' = TRUE /\ daemon' = "down" /\ Proceed
     \/ job' = FALSE /\ daemon' = "down" /\ Stop("failed")
     \/ job /\ UNCHANGED <<job, daemon>> /\ Stop("failed")
  /\ UNCHANGED <<profileVars, env, plist, trustVars, marker, issues, started, slipped, faults>>

(* Deliberately wrong variant: the job is forgotten and its process goes on. *)
ForgetJob ==
  /\ At("bootout")
  /\ job' = FALSE /\ Proceed
  /\ UNCHANGED <<profileVars, env, plist, daemon, trustVars, marker, issues, started, slipped,
                 faults>>

UnloadDaemon ==
  /\ At("bootout")
  /\ \/ job' = FALSE /\ daemon' = "down" /\ UNCHANGED slipped
     \/ job /\ UNCHANGED <<job, daemon>> /\ slipped' = TRUE
  /\ Proceed
  /\ UNCHANGED <<profileVars, env, plist, trustVars, marker, issues, started, faults>>

RemovePlist ==
  /\ At("unlink")
  /\ \/ plist' = FALSE /\ UNCHANGED issues
     \/ plist /\ issues' = TRUE /\ UNCHANGED plist
  /\ Proceed
  /\ UNCHANGED <<profileVars, env, job, daemon, trustVars, marker, started, slipped, faults>>

(* os.RemoveAll of the state directory, which holds the CA. *)
RemoveState ==
  /\ At("state")
  /\ \/ ca' = 0 /\ UNCHANGED issues
     \/ ca' \in {0, ca} /\ issues' = TRUE
  /\ Proceed
  /\ UNCHANGED <<profileVars, env, launchVars, minted, keychain, marker, started, slipped, faults>>

(* runUninstall returns before it clears the marker when Uninstall had issues. *)
ClearCapturePause ==
  /\ At("clear")
  /\ \/ issues /\ Stop("issues") /\ UNCHANGED <<marker, slipped>>
     \/ ~issues /\ marker' = FALSE /\ Proceed /\ UNCHANGED slipped
     \/ ~issues /\ marker /\ slipped' = TRUE /\ Proceed /\ UNCHANGED marker
  /\ UNCHANGED <<profileVars, env, launchVars, trustVars, issues, started, faults>>

(* trustInstall: no file, no trust; the exact CA counts, not its name. *)
TrustInstall ==
  /\ At("trust")
  /\ \/ ca # 0 /\ keychain' = keychain \cup {ca} /\ Proceed
     \/ ca \notin keychain /\ Stop("failed") /\ UNCHANGED keychain
  /\ UNCHANGED <<profileVars, env, launchVars, ca, minted, marker, issues, started, slipped,
                 faults>>

(* trustRemove sweeps every CA of that name and ignores each failure. *)
TrustRemove ==
  /\ At("untrust")
  /\ keychain' \in SUBSET keychain
  /\ slipped' = (slipped \/ keychain' # {})
  /\ Proceed
  /\ UNCHANGED <<profileVars, env, launchVars, ca, minted, marker, issues, started, faults>>

(***************************************************************************)
(* launchd, the daemon, the user and the machine.                          *)
(***************************************************************************)

(* Deliberately wrong variant: RunAtLoad without KeepAlive. *)
StartsOnce ==
  /\ job /\ daemon = "down" /\ faults = 0
  /\ daemon' = "starting"
  /\ UNCHANGED <<profileVars, env, plist, job, trustVars, marker, commandVars, faults>>

KeepAlive ==
  /\ job /\ daemon = "down"
  /\ daemon' = "starting"
  /\ UNCHANGED <<profileVars, env, plist, job, trustVars, marker, commandVars, faults>>

LoadOrCreateCA ==
  /\ daemon = "starting"
  /\ daemon' = "up"
  /\ IF ca = 0 THEN ca' = minted + 1 /\ minted' = minted + 1 ELSE UNCHANGED <<ca, minted>>
  /\ UNCHANGED <<profileVars, env, plist, job, keychain, marker, commandVars, faults>>

(* An agent rejects the CA: the daemon writes the marker. *)
PauseCapture ==
  /\ daemon = "up" /\ ~marker
  /\ marker' = TRUE
  /\ UNCHANGED <<profileVars, env, launchVars, trustVars, commandVars, faults>>

DaemonDies ==
  /\ daemon # "down" /\ faults < MaxFaults
  /\ daemon' = "down" /\ faults' = faults + 1
  /\ UNCHANGED <<profileVars, env, plist, job, trustVars, marker, commandVars>>

(* A command that is interrupted: the rewrite it was in is lost. *)
Kill ==
  /\ command # "none" /\ faults < MaxFaults
  /\ faults' = faults + 1
  /\ Stop("killed") /\ draft' = << >> /\ lost' = (lost \/ At("write"))
  /\ UNCHANGED <<profile, lines, env, launchVars, trustVars, marker, issues, started, slipped>>

(* The launchd session and /tmp do not survive; LaunchAgents are loaded anew. *)
Reboot ==
  /\ faults < MaxFaults
  /\ faults' = faults + 1
  /\ env' = {} /\ job' = plist /\ daemon' = "down" /\ marker' = FALSE
  /\ IF command = "none" THEN UNCHANGED <<command, at, outcome>> ELSE Stop("killed")
  /\ draft' = << >> /\ lost' = (lost \/ At("write"))
  /\ UNCHANGED <<profile, lines, plist, trustVars, issues, started, slipped>>

(* The user adds a line above or below everything else. *)
EditProfile(l) ==
  /\ l \notin {lines[i] : i \in 1 .. Len(lines)}
  /\ \/ profile' = <<l, "nl">> \o profile /\ lines' = <<l>> \o lines
     \/ profile' = EndsLine(profile) \o <<l, "nl">> /\ lines' = lines \o <<l>>
  /\ lost' = (lost \/ Rewriting)
  /\ UNCHANGED <<draft, env, launchVars, trustVars, marker, commandVars, faults>>

Next ==
  \/ \E c \in Commands : Start(c)
  \/ ReadProfile \/ TruncateProfile \/ WriteProfile \/ WriteProfileFails
  \/ SetEnv \/ UnsetEnv \/ WritePlist \/ LoadDaemon \/ UnloadDaemon
  \/ RemovePlist \/ RemoveState \/ ClearCapturePause \/ TrustInstall \/ TrustRemove
  \/ KeepAlive \/ LoadOrCreateCA \/ PauseCapture \/ DaemonDies \/ Kill \/ Reboot
  \/ \E l \in Lines : EditProfile(l)

Spec == Init /\ [][Next]_vars

(* RunAtLoad and KeepAlive: launchd starts a loaded job whose process is gone,
   and the daemon loads its CA before it serves. *)
FairSpec == Spec /\ WF_vars(KeepAlive) /\ WF_vars(LoadOrCreateCA)

(***************************************************************************)
(* Properties.                                                             *)
(***************************************************************************)

(* Types, and: only a loaded job has a process, and no CA is created without
   a removal of the previous one (ca.go reuses what it finds). *)
TypeOK ==
  /\ profile \in Seq(Lines \cup {"begin", "env", "end", "nl"}) /\ lines \in Seq(Lines)
  /\ draft \in Seq(Lines \cup {"begin", "env", "end", "nl"})
  /\ env \in SUBSET EnvVars
  /\ {plist, job, marker, issues, lost, slipped} \subseteq BOOLEAN
  /\ daemon \in {"down", "starting", "up"} /\ (daemon # "down" => job)
  /\ minted \in 0 .. started /\ ca \in 0 .. minted /\ keychain \subseteq 1 .. minted
  /\ command \in Commands \cup {"none"} /\ at \in 0 .. Len(UninstallSteps)
  /\ outcome \in Commands \cup {"none", "failed", "issues", "killed"}
  /\ started \in 0 .. MaxCommands /\ faults \in 0 .. MaxFaults

(* The user's lines in a text. *)
LinesAt(text) == {i \in 1 .. Len(text) : text[i] \in Lines}

(* Two texts have the same lines in the same order: there is a map between their
   places that is onto, increasing (so one to one), and finds the same line. *)
SameLines(text, other) ==
  \E f \in [LinesAt(text) -> LinesAt(other)] :
    /\ \A n \in LinesAt(other) : \E i \in LinesAt(text) : f[i] = n
    /\ \A i \in LinesAt(text) : other[f[i]] = text[i]
    /\ \A i, j \in LinesAt(text) : i < j => f[i] < f[j]

(* No marker, or one of each, in order, with no line of the user's in between. *)
OneBlock(text) ==
  \/ Places(text, "begin") = {} /\ Places(text, "end") = {}
  \/ \E b, e \in 1 .. Len(text) :
       /\ b < e /\ Places(text, "begin") = {b} /\ Places(text, "end") = {e}
       /\ \A i \in b .. e : text[i] \notin Lines

(* Whatever is installed, repaired and removed around the user's edits, the
   profile holds the user's lines, all of them and in their order, and at most
   one managed block, which no line of the user's got into (install.go:26-27:
   uninstall "removes EXACTLY what install added and nothing else").  A rewrite
   that is cut short, overtakes an edit or did not see the file is exempt: the
   code rewrites the file in place. *)
ProfileIsKept ==
  lost \/ At("write") \/ (SameLines(lines, profile) /\ OneBlock(profile))

(* What `agents status` calls installed. *)
Installed == ca # 0 /\ Fenced(profile) /\ plist

(* When uninstall reports success from whatever state earlier commands, failures
   and restarts have left, nothing of the installation remains: no block, no
   variable, no job, process or plist, no CA, no trust and no pause marker
   (cmd/agents/install.go:69-83), unless a step whose error it ignores failed. *)
UninstallIsComplete ==
  outcome = "uninstall" /\ ~slipped =>
    /\ ~Fenced(profile) /\ env = {} /\ ~plist /\ ~job /\ daemon = "down"
    /\ ca = 0 /\ keychain = {} /\ ~marker

(* After an install that reported success, `agents status` says installed sooner
   or later, daemon deaths and reboots notwithstanding, unless another command
   runs or a rewrite of the profile went wrong
   (cmd/agents/install.go:137-140: "wait a moment, then run `agents status`"). *)
InstallComesUp == outcome = "install" ~> Installed \/ outcome # "install" \/ lost

===============================================================================
