------------------------------- MODULE Settings -------------------------------
(*************************************************************************)
(* The settings (app/config.py, web/routes/settings.py): the             *)
(* configuration in memory, the three YAML files it is read from at      *)
(* start, and the routes that change both.  A route reads a file, sets   *)
(* the keys of its own part and writes the whole file again in place; a  *)
(* write may fail or be cut off by the end of the process.  Each part    *)
(* stands for the settings that are saved together.                      *)
(*************************************************************************)
EXTENDS Integers

CONSTANTS Environment,   \* the key in the environment, Empty if there is none
          Empty,         \* an empty form field, a key that is not set
          Contents,      \* what the files may be at first
          MaxSaves, MaxCrashes    \* bounds

VARIABLES memory,        \* Config: part -> value
          files,         \* file -> its state, and the values under its keys
          up,            \* the process runs
          saved,         \* the last save: route, field, keys it is about, whether it was told done
          wanted,        \* history: the endpoints the operator has asked for
          saves, crashes

settingsVars == <<memory, files, up, saved, wanted, saves, crashes>>

Files == {"config", "risk", "secrets"}
Default == [testnet |-> "test", mode |-> "semi_auto", model |-> "chat", news |-> "shipped",
            limits |-> "shipped", key |-> Empty]

There(values) == [state |-> "there", values |-> values]
Nothing == [k \in {} |-> Empty]
Only(k, v) == [x \in {k} |-> v]
Cut == There(Nothing)
Broken == [state |-> "broken", values |-> Nothing]

(* --- start ------------------------------------------------------------------------ *)
(* The files are merged, the later ones over the earlier ones; a key that is nowhere has     *)
(* its default.                                                                         *)
Merged(fs) ==
  LET over(a, b) == [k \in DOMAIN a \cup DOMAIN b |-> IF k \in DOMAIN b THEN b[k] ELSE a[k]]
  IN over(over(fs["config"].values, fs["risk"].values), fs["secrets"].values)
Read(fs, part) == IF part \in DOMAIN Merged(fs) THEN Merged(fs)[part] ELSE Default[part]
Loaded(fs) ==
  [part \in DOMAIN Default |->
     IF part = "key" /\ Environment # Empty THEN Environment ELSE Read(fs, part)]

NotSaved == [route |-> "none", field |-> Empty, own |-> {}, told |-> TRUE]

SettingsInit ==
  /\ files \in Contents /\ memory = Loaded(files) /\ up = TRUE /\ saved = NotSaved
  /\ wanted = {memory.testnet} /\ saves = 0 /\ crashes = 0

(* A file that is no YAML stops the start. *)
Start ==
  /\ ~up /\ \A f \in Files : files[f].state # "broken"
  /\ up' = TRUE /\ memory' = Loaded(files)
  /\ UNCHANGED <<files, saved, wanted, saves, crashes>>

(* The secrets are written even if there was no such file. *)
Opened(f) == f = "secrets" \/ files[f].state # "absent"

(* The process ends while it writes a file: the file was emptied when it was opened, and may   *)
(* be cut anywhere.                                                                        *)
Die ==
  /\ up /\ crashes < MaxCrashes /\ crashes' = crashes + 1 /\ up' = FALSE
  /\ \E f \in Files, left \in {Cut, Broken} :
       files' \in {files, IF Opened(f) THEN [files EXCEPT ![f] = left] ELSE files}
  /\ UNCHANGED <<memory, saved, wanted, saves>>

(* --- the routes --------------------------------------------------------------------- *)
(* What the rest of the file becomes.                                                     *)
AsRead(f) == files[f].values
Afresh(f) == Nothing
Rest(f) == AsRead(f)

With(f, new) ==
  There([k \in DOMAIN Rest(f) \cup DOMAIN new |-> IF k \in DOMAIN new THEN new[k] ELSE Rest(f)[k]])
(* A write that fails leaves the file as it was, or cut. *)
Failures(f) == {files[f]} \cup IF Opened(f) THEN {Cut, Broken} ELSE {}
Save(route, field, own, told) ==
  /\ up /\ saves < MaxSaves /\ saves' = saves + 1
  /\ saved' = [route |-> route, field |-> field, own |-> own, told |-> told]
  /\ UNCHANGED <<up, crashes>>

(* The memory first, then the file; an error is dropped and the page says done. *)
Quiet(route, part, v, f) ==
  /\ Save(route, v, {part}, TRUE)
  /\ memory' = [memory EXCEPT ![part] = v]
  /\ \E result \in Failures(f) \cup
                   (IF files[f].state = "there" THEN {With(f, Only(part, v))} ELSE {}) :
       files' = [files EXCEPT ![f] = result]
  /\ UNCHANGED wanted

SaveMode == \E v \in {"semi_auto", "full_auto"} : Quiet("mode", "mode", v, "config")
SaveNews == \E v \in {"shipped", "own"} : Quiet("news", "news", v, "config")
SaveLimits == \E v \in {"shipped", "loose"} : Quiet("limits", "limits", v, "risk")

(* The key that is written for a field: what the file has, when the field is empty. *)
Stored == IF "key" \in DOMAIN files["secrets"].values THEN files["secrets"].values["key"] ELSE Empty
NewKey(field) ==
  IF field # Empty THEN field ELSE IF Stored # Empty THEN Stored ELSE memory.key

(* The secrets first, with this key, then the memory, with that one, then the other file if it   *)
(* is there; an error is told.                                                             *)
Loud(route, field, key, used, part, v) ==
  LET secrets == [files EXCEPT !["secrets"] = With("secrets", Only("key", key))]
      both == IF files["config"].state = "absent" THEN secrets
              ELSE [secrets EXCEPT !["config"] = With("config", Only(part, v))]
  IN /\ files["secrets"].state # "broken"
     /\ \/ /\ Save(route, field, {part, "key"}, FALSE) /\ UNCHANGED memory
           /\ \E left \in Failures("secrets") : files' = [files EXCEPT !["secrets"] = left]
        \/ /\ Save(route, field, {part, "key"}, FALSE)
           /\ memory' = [memory EXCEPT !.key = used, ![part] = v]
           /\ files["config"].state # "absent"
           /\ \E left \in Failures("config") : files' = [secrets EXCEPT !["config"] = left]
        \/ /\ Save(route, field, {part, "key"}, TRUE) /\ files["config"].state # "broken"
           /\ memory' = [memory EXCEPT !.key = used, ![part] = v] /\ files' = both

SaveModel ==
  /\ \E field \in {Empty, "new"}, v \in {memory.model, "reasoner"} :
       Loud("deepseek", field, NewKey(field), NewKey(field), "model", v)
  /\ UNCHANGED wanted

(* An endpoint the form leaves out stays.  The key of the model is written only if the file has  *)
(* none at all (the credentials of the exchange are not modelled).                           *)
LeftOut == memory.testnet
SentAsZero == "live"
Omitted == LeftOut
SaveEndpoint ==
  \E asked \in {"test", "live", Empty} :
    LET v == IF asked = Empty THEN Omitted ELSE asked
        values == files["secrets"].values
        key == IF "key" \in DOMAIN values THEN values["key"] ELSE memory.key
    IN /\ Loud("binance", asked, key, memory.key, "testnet", v)
       /\ wanted' = IF asked = Empty THEN wanted
                    ELSE IF saved'.told THEN {asked} ELSE wanted \cup {asked}

SettingsNext ==
  \/ Start \/ Die \/ SaveMode \/ SaveNews \/ SaveLimits \/ SaveModel \/ SaveEndpoint

(* --- properties ----------------------------------------------------------------------- *)
(* Orders go to the exchange itself only if the operator asked for it last, through every     *)
(* partial form, failing write, cut file and restart ("silently switched the system to LIVE   *)
(* trading", settings.py:179).                                                           *)
LiveOnlyAsAsked == up => memory.testnet \in wanted \cup {"test"}

(* A save that is told done leaves every setting of the other parts in the files as it was,    *)
(* but for a file whose write failed.                                                      *)
OthersAreKept ==
  saves' # saves =>
    \A f \in Files : files'[f] \in {Cut, Broken} \/
      \A k \in DOMAIN files[f].values \ saved'.own :
        k \in DOMAIN files'[f].values /\ files'[f].values[k] = files[f].values[k]

(* What a file is: whether it is there and can be read, and its values, none if it is not;      *)
(* only the configuration file has the endpoint (routes/settings.py:209).                    *)
AreFiles(fs) == fs = [f \in Files |-> [state |-> fs[f].state, values |-> fs[f].values]]
OwnKeys(fs) ==
  \A f \in Files : "testnet" \in DOMAIN fs[f].values => f = "config" /\ fs[f].state = "there"
SetTypeOK == AreFiles(files)
SettingsAssumption == \A fs \in Contents : AreFiles(fs) /\ OwnKeys(fs)

(* The endpoint of the next start was asked for as well.                                  *)
AskedOrTest == wanted \cup {"test"}
SetInv ==
  /\ SetTypeOK /\ OwnKeys(files)
  /\ memory = [part \in DOMAIN Default |-> memory[part]]
  /\ "testnet" \in DOMAIN files["config"].values => files["config"].values["testnet"] \in AskedOrTest
  /\ LiveOnlyAsAsked

(* What the code does not keep: an empty field leaves the key that is in use (settings.py:57,  *)
(* "An EMPTY field means `leave unchanged`, never `erase`").                                 *)
EmptyFieldLeavesTheKey ==
  [][saves' # saves /\ saved'.route = "deepseek" /\ saved'.field = Empty
       => memory'.key = memory.key]_settingsVars
=============================================================================
