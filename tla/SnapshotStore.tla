----------------------------- MODULE SnapshotStore -----------------------------
(***************************************************************************)
(* The frozen market data (data/frozen_market_data.py): a snapshot is a    *)
(* CSV and its metadata, written one after the other; a bundle is a        *)
(* manifest that names one snapshot per timeframe.  Opening a file to      *)
(* write truncates it and its content arrives later, so a file may be seen *)
(* torn: torn JSON does not parse, a torn CSV is read as a shorter table.  *)
(* One program saves snapshots while another one composes and loads a      *)
(* bundle; either may die between any two steps.  No caller in the         *)
(* repository passes overwrite, so it is False.  A table stands for the    *)
(* candles of a timeframe.  The saver is the backtest's --save-as, the one *)
(* caller of save in the programs: its metadata always declare symbol and  *)
(* timeframe.  save_bundle lets metadata pass that declare no timeframe;   *)
(* no program writes such metadata, so what a bundle made of them would be *)
(* is not modelled.                                                        *)
(***************************************************************************)
EXTENDS Integers

CONSTANTS
  Names,        \* names of snapshots
  Timeframes,
  Versions      \* the candles that a timeframe may have

VARIABLES
  files,       \* [kind of file -> [name -> the file]]
  manifest,    \* the file of the bundle
  saver,       \* the save under way
  bundler,     \* the save_bundle or load_bundle under way
  loaded       \* what the last load_bundle returned

store_vars == <<files, manifest, saver, bundler, loaded>>

Tables == [timeframe : Timeframes, version : Versions]

FileKinds == {"csv", "json"}
Absent == [is |-> "ABSENT"]
Torn == [is |-> "TORN"]
Whole(content) == [is |-> "WHOLE", content |-> content]

Idle == [doing |-> "NOTHING"]
NoFrames == [is |-> "NONE"]

StoreInit ==
  /\ files = [kind \in FileKinds |-> [n \in Names |-> Absent]]
  /\ manifest = Absent
  /\ saver = Idle /\ bundler = Idle
  /\ loaded = NoFrames

-----------------------------------------------------------------------------
(* save.                                                                   *)

\* Variant for the sensitivity check: a snapshot exists once it is complete.
ExistsComplete(n) == \A kind \in FileKinds : files[kind][n].is # "ABSENT"

Exists(n) == \E kind \in FileKinds : files[kind][n].is # "ABSENT"

StartSave ==
  /\ saver.doing = "NOTHING"
  /\ \E n \in Names, table \in Tables :
       /\ ~Exists(n)
       /\ saver' = [doing |-> "SAVE", name |-> n, table |-> table, file |-> 1, open |-> FALSE]
  /\ UNCHANGED <<files, manifest, bundler, loaded>>

\* Variant for the sensitivity check: the metadata are written first.
JsonFirst == <<"json", "csv">>

WriteOrder == <<"csv", "json">>

OpenFile ==
  /\ saver.doing = "SAVE" /\ ~saver.open
  /\ files' = [files EXCEPT ![WriteOrder[saver.file]][saver.name] = Torn]
  /\ saver' = [saver EXCEPT !.open = TRUE]
  /\ UNCHANGED <<manifest, bundler, loaded>>

WriteFile ==
  /\ saver.doing = "SAVE" /\ saver.open
  /\ files' = [files EXCEPT ![WriteOrder[saver.file]][saver.name] = Whole(saver.table)]
  /\ saver' = IF saver.file = 2 THEN Idle
              ELSE [saver EXCEPT !.file = 2, !.open = FALSE]
  /\ UNCHANGED <<manifest, bundler, loaded>>

-----------------------------------------------------------------------------
(* save_bundle and load_bundle.                                            *)

\* Variant for the sensitivity check: any metadata will do.
MetadataPresent(n) == {table \in Tables : files["json"][n].is # "ABSENT"}

(* Metadata can be read if they parse, candles if there is a file.         *)
MetadataOf(n) == {table \in Tables : files["json"][n] = Whole(table)}

Readable(n) == files["csv"][n].is # "ABSENT"

StartBundle ==
  /\ bundler.doing = "NOTHING" /\ manifest.is = "ABSENT"
  /\ \E snapshots \in [Timeframes -> Names] :
       bundler' = [doing |-> "CHECK", snapshots |-> snapshots, left |-> Timeframes, frames |-> {}]
  /\ UNCHANGED <<files, manifest, saver, loaded>>

(* One timeframe: its metadata, which declare a timeframe, must declare    *)
(* this one, then its candles are loaded for their range.  Where the code  *)
(* raises there will be no manifest.                                       *)
CheckMetadata(tf) ==
  /\ bundler.doing = "CHECK" /\ tf \in bundler.left
  /\ bundler' = IF \E table \in MetadataOf(bundler.snapshots[tf]) : table.timeframe = tf
                  THEN [bundler EXCEPT !.doing = "RANGE", !.left = @ \ {tf}]
                  ELSE Idle
  /\ UNCHANGED <<files, manifest, saver, loaded>>

Frame(tf, n) == [timeframe |-> tf, candles |-> files["csv"][n]]

AddRange ==
  /\ bundler.doing = "RANGE"
  /\ \E tf \in Timeframes \ bundler.left :
       /\ \A frame \in bundler.frames : frame.timeframe # tf
       /\ bundler' = IF Readable(bundler.snapshots[tf])
                       THEN [bundler EXCEPT !.frames = @ \cup {Frame(tf, bundler.snapshots[tf])},
                                            !.doing = IF bundler.left = {} THEN "OPEN" ELSE "CHECK"]
                       ELSE Idle
  /\ UNCHANGED <<files, manifest, saver, loaded>>

OpenManifest ==
  /\ bundler.doing = "OPEN"
  /\ manifest' = Torn
  /\ bundler' = [bundler EXCEPT !.doing = "WRITE"]
  /\ UNCHANGED <<files, saver, loaded>>

WriteManifest ==
  /\ bundler.doing = "WRITE"
  /\ manifest' = Whole([snapshots |-> bundler.snapshots, ranges |-> bundler.frames])
  /\ bundler' = Idle
  /\ UNCHANGED <<files, saver, loaded>>

(* load_bundle reads the manifest and then the candles, not the metadata.  *)
StartLoad ==
  /\ bundler.doing = "NOTHING" /\ manifest.is = "WHOLE"
  /\ bundler' = [doing |-> "LOAD", frames |-> {}, left |-> Timeframes]
  /\ UNCHANGED <<files, manifest, saver, loaded>>

LoadFrame(tf) ==
  /\ bundler.doing = "LOAD" /\ tf \in bundler.left
  /\ LET n == manifest.content.snapshots[tf]
     IN bundler' = IF Readable(n)
                     THEN [bundler EXCEPT !.left = @ \ {tf}, !.frames = @ \cup {Frame(tf, n)}]
                     ELSE Idle
  /\ UNCHANGED <<files, manifest, saver, loaded>>

ReturnFrames ==
  /\ bundler.doing = "LOAD" /\ bundler.left = {}
  /\ loaded' = [is |-> "FRAMES", frames |-> bundler.frames]
  /\ bundler' = Idle
  /\ UNCHANGED <<files, manifest, saver>>

-----------------------------------------------------------------------------
SaverDies ==
  /\ saver.doing # "NOTHING"
  /\ saver' = Idle
  /\ UNCHANGED <<files, manifest, bundler, loaded>>

BundlerDies ==
  /\ bundler.doing # "NOTHING"
  /\ bundler' = Idle
  /\ UNCHANGED <<files, manifest, saver, loaded>>

StoreNext ==
  \/ StartSave \/ OpenFile \/ WriteFile \/ SaverDies
  \/ StartBundle \/ (\E tf \in Timeframes : CheckMetadata(tf)) \/ AddRange
  \/ OpenManifest \/ WriteManifest
  \/ StartLoad \/ (\E tf \in Timeframes : LoadFrame(tf)) \/ ReturnFrames
  \/ BundlerDies

StoreSpec == StoreInit /\ [][StoreNext]_store_vars

-----------------------------------------------------------------------------
(* Properties.                                                             *)

(* A manifest that parses composes complete snapshots of the timeframes it *)
(* names, with the ranges they still have, wherever a save or a bundle was *)
(* interrupted (of snapshots whose metadata declare their timeframe).      *)
BundleIsWhole ==
  manifest.is = "WHOLE" =>
    LET snapshots == manifest.content.snapshots
    IN /\ manifest.content.ranges = {Frame(tf, snapshots[tf]) : tf \in Timeframes}
       /\ \A tf \in Timeframes : \E table \in Tables :
            files["csv"][snapshots[tf]] = Whole(table) /\ table.timeframe = tf

(* A bundle loads as the candles it was composed of, every time.           *)
LoadsAreReproducible ==
  loaded.is = "FRAMES" => loaded.frames = manifest.content.ranges

(* A snapshot is frozen: once its candles are written no save changes them.*)
SnapshotsAreFrozen ==
  [][\A n \in Names :
       files["csv"][n].is = "WHOLE" => files'["csv"][n] = files["csv"][n]]_store_vars

(* The same without files: a snapshot exists from the moment its candles   *)
(* are complete, a bundle from the moment its manifest is.                 *)
ContentOf(file) == IF file.is = "WHOLE" THEN file.content ELSE file

FrozenSnapshots ==
  {[name |-> n, table |-> files["csv"][n].content] : n \in {m \in Names : files["csv"][m].is = "WHOLE"}}

BundledSnapshots ==
  IF manifest.is # "WHOLE" THEN {}
  ELSE {[name |-> manifest.content.snapshots[frame.timeframe], table |-> ContentOf(frame.candles)] :
          frame \in manifest.content.ranges}

LoadedTables ==
  IF loaded.is # "FRAMES" THEN {} ELSE {ContentOf(frame.candles) : frame \in loaded.frames}

Frozen == INSTANCE FrozenStore
            WITH snapshots <- FrozenSnapshots, bundle <- BundledSnapshots, answer <- LoadedTables

(* Save, save_bundle and load_bundle, with all their steps, races and      *)
(* crashes, behave like a store without files.                             *)
KeepsFrozenStore == Frozen!Spec
=============================================================================
