----------------------------- MODULE AppConfigs -----------------------------
(***************************************************************************)
(* The application configurations: one file per ConfigId in a directory,   *)
(* written in place under one lock.  The lock makes every handler a single *)
(* step for the others; a write that fails or is cut short by a crash      *)
(* leaves what it leaves.                                                  *)
(***************************************************************************)
EXTENDS FiniteSets

CONSTANTS
  ConfigIds,
  Bodies,      \* what a configuration can say, bare or below a `content' key
  Files,       \* names of files
  FileOf,      \* ConfigId -> the name of its file, some characters made underscores
  Torn,        \* what is left of a file whose write was cut short
  Absent       \* no file, no answer

ASSUME ConfigConstants ==
  /\ FileOf \in [ConfigIds -> Files]
  /\ Torn # Absent

Configs == [id : ConfigIds, body : Bodies, wrapped : BOOLEAN]

ASSUME NoSuchConfigs == Torn \notin Configs /\ Absent \notin Configs

VARIABLES
  files,       \* file -> its configuration, Torn or Absent
  kept,        \* ConfigId -> the configuration last saved with an answer, if
               \* nothing was done to that id since, or Absent
  shown        \* the last answer: the listing, a configuration as JSON, as a file

configVars == <<files, kept, shown>>

NoAnswer == [call |-> "none", id |-> Absent, list |-> {}, json |-> {}, raw |-> Absent]

ConfigsInit ==
  /\ files = [f \in Files |-> Absent]
  /\ kept = [i \in ConfigIds |-> Absent]
  /\ shown = NoAnswer

Stored == {f \in Files : files[f] # Absent}
Readable == {f \in Stored : files[f] # Torn}

Forget(i) == [kept EXCEPT ![i] = Absent]

\* The file is emptied and written; a failure is answered 500, a crash not at all.
SetAppConfig(i) ==
  \E cfg \in {c \in Configs : c.id = i} :
    /\ \/ files' = [files EXCEPT ![FileOf[i]] = cfg] /\ kept' = [kept EXCEPT ![i] = cfg]
       \/ \E left \in {files[FileOf[i]], Torn, cfg} :
            files' = [files EXCEPT ![FileOf[i]] = left] /\ kept' = Forget(i)
    /\ shown' = NoAnswer

DeleteAppConfigs(i) ==
  /\ files' \in {[files EXCEPT ![FileOf[i]] = Absent], files}
  /\ kept' = Forget(i)
  /\ shown' = NoAnswer

LoadUntilTorn == IF Readable = Stored THEN {files[f] : f \in Readable} ELSE {}

\* Files that do not parse are left out.
LoadAllConfigs == {files[f] : f \in Readable}

GetAppConfigs ==
  /\ shown' = [NoAnswer EXCEPT !.call = "list", !.list = {c.id : c \in LoadAllConfigs}]
  /\ UNCHANGED <<files, kept>>

\* What is below `content', or the whole; nothing when the file is missing or
\* does not parse.
AsJsonRaw(i) == {files[FileOf[i]]} \ {Absent}
AsJson(i) == {files[FileOf[i]]} \ {Absent, Torn}

\* The same, but a file that does not parse is sent as it is.
AsFile(i) == files[FileOf[i]]

GetAppConfigDetailsAsJson(i) ==
  /\ shown' = [NoAnswer EXCEPT !.call = "json", !.id = i, !.json = AsJson(i)]
  /\ UNCHANGED <<files, kept>>

GetAppConfigDetailsAsFile(i) ==
  /\ shown' = [NoAnswer EXCEPT !.call = "file", !.id = i, !.raw = AsFile(i)]
  /\ UNCHANGED <<files, kept>>

ConfigsNext ==
  \/ GetAppConfigs
  \/ \E i \in ConfigIds : \/ SetAppConfig(i) \/ DeleteAppConfigs(i)
                          \/ GetAppConfigDetailsAsJson(i) \/ GetAppConfigDetailsAsFile(i)

ConfigsSpec == ConfigsInit /\ [][ConfigsNext]_configVars

-----------------------------------------------------------------------------
\* The typing; no answer as JSON holds half a configuration.
ConfigsTypeOK ==
  /\ files \in [Files -> Configs \cup {Torn, Absent}]
  /\ kept \in [ConfigIds -> Configs \cup {Absent}]
  /\ shown.json \subseteq Configs

\* Ids that share no file: what the comment "stored as {ConfigId}.json" takes
\* every id for.
Alone(i) == \A k \in ConfigIds : FileOf[k] = FileOf[i] => k = i

\* What was saved with a success is what is read and listed, whatever other
\* saves fail or are cut short, until something is done to that id; for ids
\* whose file names differ.
SavedIsRead ==
  \A i \in ConfigIds : Alone(i) /\ kept[i] # Absent =>
    /\ shown.call = "json" /\ shown.id = i => shown.json = {kept[i]}
    /\ shown.call = "file" /\ shown.id = i => shown.raw = kept[i]
    /\ shown.call = "list" => i \in shown.list
=============================================================================
