-------------------------- MODULE SnapshotStoreProofs --------------------------
(***************************************************************************)
(* Proofs about the snapshot store, for every set of names, timeframes and *)
(* versions.  The metadata are written last, so metadata that parse say    *)
(* that the candles are complete (SavedInOrder), and complete candles are  *)
(* never written again; what save_bundle has checked therefore still holds *)
(* when it writes the manifest, and when load_bundle reads it.  So the     *)
(* files behave like FrozenStore, which knows no files and no crashes.     *)
(***************************************************************************)
EXTENDS SnapshotStore, TLAPS

Complete == {Whole(table) : table \in Tables}
FileStates == {Absent, Torn} \cup Complete

FilesOK ==
  /\ files = [kind \in FileKinds |-> files[kind]]
  /\ \A kind \in FileKinds : files[kind] \in [Names -> FileStates]

SavedInOrder ==
  \A n \in Names : files["json"][n].is = "WHOLE" => files["csv"][n] = files["json"][n]

SaverOK ==
  \/ saver = Idle
  \/ /\ saver \in [doing : {"SAVE"}, name : Names, table : Tables, file : {1, 2}, open : BOOLEAN]
     /\ files["json"][saver.name].is # "WHOLE"
     /\ saver.file = 1 => files["csv"][saver.name].is # "WHOLE"
     /\ saver.file = 2 => files["csv"][saver.name] = Whole(saver.table)

(* What save_bundle has learned about a timeframe.                         *)
Fits(tf, n) == \E table \in Tables : files["csv"][n] = Whole(table) /\ table.timeframe = tf

FramesOf(snapshots, tfs) == {Frame(tf, snapshots[tf]) : tf \in tfs}

Composing == bundler.doing \in {"CHECK", "RANGE", "OPEN", "WRITE"}

BundlerOK ==
  \/ bundler = Idle
  \/ /\ bundler \in [doing : {"CHECK", "RANGE", "OPEN", "WRITE"}, snapshots : [Timeframes -> Names],
                     left : SUBSET Timeframes, frames : SUBSET [timeframe : Timeframes, candles : FileStates]]
     /\ manifest.is # "WHOLE"
     /\ \A tf \in Timeframes \ bundler.left : Fits(tf, bundler.snapshots[tf])
     /\ bundler.doing = "CHECK" =>
          bundler.frames = FramesOf(bundler.snapshots, Timeframes \ bundler.left)
     /\ bundler.doing = "RANGE" =>
          \E last \in Timeframes \ bundler.left :
            bundler.frames = FramesOf(bundler.snapshots, (Timeframes \ bundler.left) \ {last})
     /\ bundler.doing \in {"OPEN", "WRITE"} =>
          bundler.left = {} /\ bundler.frames = FramesOf(bundler.snapshots, Timeframes)
  \/ /\ bundler \in [doing : {"LOAD"}, frames : SUBSET [timeframe : Timeframes, candles : FileStates],
                     left : SUBSET Timeframes]
     /\ manifest.is = "WHOLE"
     /\ bundler.frames = FramesOf(manifest.content.snapshots, Timeframes \ bundler.left)

ManifestOK ==
  manifest.is = "WHOLE" =>
    /\ manifest.content.snapshots \in [Timeframes -> Names]
    /\ manifest.content.ranges = FramesOf(manifest.content.snapshots, Timeframes)
    /\ \A tf \in Timeframes : Fits(tf, manifest.content.snapshots[tf])

LoadedOK ==
  loaded.is = "FRAMES" => manifest.is = "WHOLE" /\ loaded.frames = manifest.content.ranges

StoreInv == FilesOK /\ SavedInOrder /\ SaverOK /\ BundlerOK /\ ManifestOK /\ LoadedOK

-----------------------------------------------------------------------------
(* The kinds of file are told apart by their first field.                  *)
LEMMA FileKindsDiffer ==
  /\ Absent.is = "ABSENT" /\ Torn.is = "TORN"
  /\ \A c : Whole(c).is = "WHOLE" /\ Whole(c).content = c
  /\ \A f \in FileStates : f.is = "WHOLE" => f \in Complete
BY DEF Absent, Torn, Whole, FileStates, Complete

(* Steps of the bundler leave the snapshots and the saver alone.           *)
BundlerStep ==
  \/ StartBundle \/ (\E tf \in Timeframes : CheckMetadata(tf)) \/ AddRange
  \/ OpenManifest \/ WriteManifest
  \/ StartLoad \/ (\E tf \in Timeframes : LoadFrame(tf)) \/ ReturnFrames
  \/ BundlerDies

SaverStep == StartSave \/ OpenFile \/ WriteFile \/ SaverDies

(* The store in its first state.                                           *)
LEMMA InitStore == StoreInit => StoreInv
<1> SUFFICES ASSUME StoreInit PROVE StoreInv
  OBVIOUS
<1> USE DEF StoreInit
<1>1. FilesOK /\ SavedInOrder
  BY DEF FilesOK, SavedInOrder, FileStates, FileKinds, Absent
<1>2. SaverOK /\ BundlerOK /\ ManifestOK /\ LoadedOK
  BY DEF SaverOK, BundlerOK, ManifestOK, LoadedOK, Absent, NoFrames
<1> QED
  BY <1>1, <1>2 DEF StoreInv

(* A saving step never touches a complete file.                            *)
LEMMA SaverKeepsComplete ==
  ASSUME FilesOK, SaverOK, SaverStep
  PROVE  \A kind \in FileKinds, n \in Names :
           files[kind][n].is = "WHOLE" => files'[kind][n] = files[kind][n]
<1>1. CASE StartSave \/ SaverDies
  BY <1>1 DEF StartSave, SaverDies
<1>2. CASE OpenFile \/ WriteFile
  <2>1. saver.doing = "SAVE"
    BY <1>2 DEF OpenFile, WriteFile
  <2>2. /\ saver.name \in Names /\ saver.file \in {1, 2}
        /\ files["json"][saver.name].is # "WHOLE"
        /\ saver.file = 1 => files["csv"][saver.name].is # "WHOLE"
    BY <2>1 DEF SaverOK, Idle
  <2>3. files[WriteOrder[saver.file]][saver.name].is # "WHOLE"
    BY <2>2 DEF WriteOrder
  <2>4. PICK f : files' = [files EXCEPT ![WriteOrder[saver.file]][saver.name] = f]
    BY <1>2 DEF OpenFile, WriteFile
  <2>5. WriteOrder[saver.file] \in FileKinds
    BY <2>2 DEF WriteOrder, FileKinds
  <2> QED
    BY <2>2, <2>3, <2>4, <2>5 DEF FilesOK, FileKinds
<1> QED
  BY <1>1, <1>2 DEF SaverStep

(* A saving step keeps the invariant of the files and of the saver.        *)
LEMMA SaverInv ==
  ASSUME FilesOK, SavedInOrder, SaverOK, SaverStep
  PROVE  FilesOK' /\ SavedInOrder' /\ SaverOK'
<1>1. CASE StartSave
  <2>1. PICK n \in Names, table \in Tables :
          /\ ~Exists(n)
          /\ saver' = [doing |-> "SAVE", name |-> n, table |-> table, file |-> 1, open |-> FALSE]
          /\ files' = files
    BY <1>1 DEF StartSave
  <2>2. files["csv"][n].is = "ABSENT" /\ files["json"][n].is = "ABSENT"
    BY <2>1 DEF Exists, FileKinds
  <2>3. saver' \in [doing : {"SAVE"}, name : Names, table : Tables, file : {1, 2}, open : BOOLEAN]
    BY <2>1
  <2>4. SaverOK'
    BY <2>1, <2>2, <2>3 DEF SaverOK
  <2> QED
    BY <2>1, <2>4 DEF FilesOK, SavedInOrder
<1>2. CASE OpenFile
  <2> DEFINE file == WriteOrder[saver.file]
  <2>1. /\ saver \in [doing : {"SAVE"}, name : Names, table : Tables, file : {1, 2}, open : BOOLEAN]
        /\ files["json"][saver.name].is # "WHOLE"
        /\ saver.file = 1 => files["csv"][saver.name].is # "WHOLE"
        /\ saver.file = 2 => files["csv"][saver.name] = Whole(saver.table)
    BY <1>2 DEF OpenFile, SaverOK, Idle
  <2>2. /\ file \in FileKinds
        /\ saver.file = 1 => file = "csv"
        /\ saver.file = 2 => file = "json"
    BY <2>1 DEF WriteOrder, FileKinds
  <2>3. files' = [files EXCEPT ![file][saver.name] = Torn] /\ saver' = [saver EXCEPT !.open = TRUE]
    BY <1>2 DEF OpenFile
  <2> HIDE DEF file
  <2>4. /\ saver' \in [doing : {"SAVE"}, name : Names, table : Tables, file : {1, 2}, open : BOOLEAN]
        /\ saver'.name = saver.name /\ saver'.file = saver.file /\ saver'.table = saver.table
    BY <2>1, <2>3
  <2>5. FilesOK'
    BY <2>1, <2>2, <2>3 DEF FilesOK, FileKinds, FileStates
  <2>6. Torn.is # "WHOLE"
    BY DEF Torn
  <2>7. /\ files'[file][saver.name] = Torn
        /\ \A kind \in FileKinds, n \in Names :
             kind # file \/ n # saver.name => files'[kind][n] = files[kind][n]
    BY <2>1, <2>2, <2>3 DEF FilesOK, FileKinds
  <2>8. SavedInOrder'
    BY <2>1, <2>2, <2>6, <2>7 DEF SavedInOrder, FileKinds
  <2>9. SaverOK'
    BY <2>1, <2>2, <2>4, <2>6, <2>7 DEF SaverOK, FileKinds
  <2> QED
    BY <2>5, <2>8, <2>9
<1>3. CASE WriteFile
  <2> DEFINE file == WriteOrder[saver.file]
  <2>1. /\ saver \in [doing : {"SAVE"}, name : Names, table : Tables, file : {1, 2}, open : BOOLEAN]
        /\ files["json"][saver.name].is # "WHOLE"
        /\ saver.file = 2 => files["csv"][saver.name] = Whole(saver.table)
    BY <1>3 DEF WriteFile, SaverOK, Idle
  <2>2. /\ file \in FileKinds
        /\ saver.file = 1 => file = "csv"
        /\ saver.file = 2 => file = "json"
    BY <2>1 DEF WriteOrder, FileKinds
  <2>3. /\ files' = [files EXCEPT ![file][saver.name] = Whole(saver.table)]
        /\ saver.file = 2 => saver' = Idle
        /\ saver.file = 1 => saver' = [saver EXCEPT !.file = 2, !.open = FALSE]
    BY <1>3, <2>1 DEF WriteFile
  <2> HIDE DEF file
  <2>4. Whole(saver.table) \in FileStates
    BY <2>1 DEF FileStates, Complete
  <2>5. FilesOK'
    BY <2>1, <2>2, <2>3, <2>4 DEF FilesOK, FileKinds
  <2>6. /\ files'[file][saver.name] = Whole(saver.table)
        /\ \A kind \in FileKinds, n \in Names :
             kind # file \/ n # saver.name => files'[kind][n] = files[kind][n]
    BY <2>1, <2>2, <2>3 DEF FilesOK, FileKinds
  <2>7. SavedInOrder'
    BY <2>1, <2>2, <2>6 DEF SavedInOrder, FileKinds
  <2>8. CASE saver.file = 1
    <3>1. /\ saver' \in [doing : {"SAVE"}, name : Names, table : Tables, file : {1, 2}, open : BOOLEAN]
          /\ saver'.name = saver.name /\ saver'.file = 2 /\ saver'.table = saver.table
      BY <2>1, <2>3, <2>8
    <3> QED
      BY <2>1, <2>2, <2>5, <2>6, <2>7, <2>8, <3>1 DEF SaverOK, FileKinds
  <2>9. CASE saver.file = 2
    BY <2>3, <2>5, <2>7, <2>9 DEF SaverOK
  <2> QED
    BY <2>1, <2>8, <2>9
<1>4. CASE SaverDies
  BY <1>4 DEF SaverDies, FilesOK, SavedInOrder, SaverOK
<1> QED
  BY <1>1, <1>2, <1>3, <1>4 DEF SaverStep

(* What the bundler knows depends on complete candles only, and those stay.*)
LEMMA SaverKeepsBundles ==
  ASSUME StoreInv, SaverStep
  PROVE  BundlerOK' /\ ManifestOK' /\ LoadedOK'
<1>1. /\ bundler' = bundler /\ manifest' = manifest /\ loaded' = loaded
  BY DEF SaverStep, StartSave, OpenFile, WriteFile, SaverDies
<1>2. \A n \in Names : files["csv"][n].is = "WHOLE" => files'["csv"][n] = files["csv"][n]
  BY SaverKeepsComplete DEF StoreInv, FileKinds
<1> DEFINE Frame2(tf, n) == [timeframe |-> tf, candles |-> files'["csv"][n]]
           Fits2(tf, n) == \E table \in Tables : files'["csv"][n] = Whole(table) /\ table.timeframe = tf
<1>3. ASSUME NEW tf, NEW n \in Names, Fits(tf, n)
      PROVE  Fits2(tf, n) /\ Frame2(tf, n) = Frame(tf, n)
  <2>1. files["csv"][n].is = "WHOLE"
    BY <1>3, FileKindsDiffer DEF Fits
  <2> QED
    BY <1>2, <1>3, <2>1 DEF Fits, Frame
<1>4. ASSUME NEW snapshots \in [Timeframes -> Names], NEW tfs \in SUBSET Timeframes,
             \A tf \in tfs : Fits(tf, snapshots[tf])
      PROVE  {Frame2(tf, snapshots[tf]) : tf \in tfs} = FramesOf(snapshots, tfs)
  <2>1. \A tf \in tfs : Frame2(tf, snapshots[tf]) = Frame(tf, snapshots[tf])
    BY <1>3, <1>4
  <2> HIDE DEF Frame2
  <2> QED
    BY <2>1 DEF FramesOf
<1> HIDE DEF Frame2, Fits2
<1>5. ManifestOK' /\ LoadedOK'
  <2>1. LoadedOK'
    BY <1>1 DEF StoreInv, LoadedOK
  <2>2. SUFFICES ASSUME manifest.is = "WHOLE" PROVE ManifestOK'
    BY <1>1, <2>1 DEF ManifestOK
  <2> DEFINE s == manifest.content.snapshots
  <2>3. /\ s \in [Timeframes -> Names]
        /\ manifest.content.ranges = FramesOf(s, Timeframes)
        /\ \A tf \in Timeframes : Fits(tf, s[tf])
    BY <2>2 DEF StoreInv, ManifestOK
  <2>4. /\ {Frame2(tf, s[tf]) : tf \in Timeframes} = FramesOf(s, Timeframes)
        /\ \A tf \in Timeframes : Fits2(tf, s[tf])
    BY <1>3, <1>4, <2>3
  <2> QED
    BY <1>1, <2>3, <2>4 DEF ManifestOK, FramesOf, Frame, Fits, Frame2, Fits2
<1>6. BundlerOK'
  <2>1. CASE bundler = Idle
    BY <1>1, <2>1 DEF BundlerOK
  <2>2. CASE Composing
    <3> DEFINE s == bundler.snapshots
               done == Timeframes \ bundler.left
    <3>1. /\ bundler \in [doing : {"CHECK", "RANGE", "OPEN", "WRITE"}, snapshots : [Timeframes -> Names],
                          left : SUBSET Timeframes, frames : SUBSET [timeframe : Timeframes, candles : FileStates]]
          /\ manifest.is # "WHOLE"
          /\ \A tf \in done : Fits(tf, s[tf])
          /\ bundler.doing = "CHECK" => bundler.frames = FramesOf(s, done)
          /\ bundler.doing = "RANGE" =>
               \E last \in done : bundler.frames = FramesOf(s, done \ {last})
          /\ bundler.doing \in {"OPEN", "WRITE"} =>
               bundler.left = {} /\ bundler.frames = FramesOf(s, Timeframes)
      BY <2>2 DEF StoreInv, BundlerOK, Composing, Idle
    <3>2. s \in [Timeframes -> Names]
      BY <3>1
    <3>3. \A tf \in done : Fits2(tf, s[tf])
      BY <1>3, <3>1, <3>2
    <3>4. \A tfs \in SUBSET done : {Frame2(tf, s[tf]) : tf \in tfs} = FramesOf(s, tfs)
      BY <1>4, <3>1, <3>2
    <3>5. bundler.doing = "CHECK" => bundler.frames = {Frame2(tf, s[tf]) : tf \in done}
      BY <3>1, <3>4
    <3>6. bundler.doing = "RANGE" =>
            \E last \in done : bundler.frames = {Frame2(tf, s[tf]) : tf \in done \ {last}}
      BY <3>1, <3>4
    <3>7. bundler.doing \in {"OPEN", "WRITE"} =>
            bundler.left = {} /\ bundler.frames = {Frame2(tf, s[tf]) : tf \in Timeframes}
      BY <3>1, <3>4
    <3> QED
      BY <1>1, <3>1, <3>3, <3>5, <3>6, <3>7 DEF BundlerOK, FramesOf, Frame, Fits, Frame2, Fits2
  <2>3. CASE bundler.doing = "LOAD"
    <3> DEFINE s == manifest.content.snapshots
               done == Timeframes \ bundler.left
    <3>1. /\ bundler \in [doing : {"LOAD"}, frames : SUBSET [timeframe : Timeframes, candles : FileStates],
                          left : SUBSET Timeframes]
          /\ manifest.is = "WHOLE" /\ bundler.frames = FramesOf(s, done)
      BY <2>3 DEF StoreInv, BundlerOK, Idle
    <3>2. s \in [Timeframes -> Names] /\ \A tf \in Timeframes : Fits(tf, s[tf])
      BY <3>1 DEF StoreInv, ManifestOK
    <3>3. {Frame2(tf, s[tf]) : tf \in done} = FramesOf(s, done)
      BY <1>4, <3>2
    <3> QED
      BY <1>1, <3>1, <3>3 DEF BundlerOK, FramesOf, Frame, Frame2
  <2> QED
    BY <2>1, <2>2, <2>3 DEF StoreInv, BundlerOK, Composing
<1> QED
  BY <1>5, <1>6

(* A step of the bundler keeps the whole invariant.                        *)
LEMMA BundlerInv ==
  ASSUME StoreInv, BundlerStep
  PROVE  StoreInv'
<1> DEFINE s == bundler.snapshots
           done == Timeframes \ bundler.left
           Frames == SUBSET [timeframe : Timeframes, candles : FileStates]
<1>1. files' = files /\ saver' = saver
  BY DEF BundlerStep, StartBundle, CheckMetadata, AddRange, OpenManifest, WriteManifest,
         StartLoad, LoadFrame, ReturnFrames, BundlerDies
<1>2. FilesOK' /\ SavedInOrder' /\ SaverOK'
  BY <1>1 DEF StoreInv, FilesOK, SavedInOrder, SaverOK
<1>3. /\ \A t, n : Frame(t, n)' = Frame(t, n) /\ Fits(t, n)' = Fits(t, n)
      /\ \A t, tfs : FramesOf(t, tfs)' = FramesOf(t, tfs)
  BY <1>1 DEF Frame, Fits, FramesOf
<1>4. Composing =>
        /\ bundler \in [doing : {"CHECK", "RANGE", "OPEN", "WRITE"}, snapshots : [Timeframes -> Names],
                        left : SUBSET Timeframes, frames : Frames]
        /\ manifest.is # "WHOLE"
        /\ \A tf \in done : Fits(tf, s[tf])
        /\ bundler.doing = "CHECK" => bundler.frames = FramesOf(s, done)
        /\ bundler.doing = "RANGE" => \E last \in done : bundler.frames = FramesOf(s, done \ {last})
        /\ bundler.doing \in {"OPEN", "WRITE"} =>
             bundler.left = {} /\ bundler.frames = FramesOf(s, Timeframes)
  BY DEF StoreInv, BundlerOK, Composing, Idle
<1>5. bundler.doing = "LOAD" =>
        /\ bundler \in [doing : {"LOAD"}, frames : Frames, left : SUBSET Timeframes]
        /\ manifest.is = "WHOLE"
        /\ bundler.frames = FramesOf(manifest.content.snapshots, done)
        /\ manifest.content.snapshots \in [Timeframes -> Names]
  BY DEF StoreInv, BundlerOK, ManifestOK, Idle
<1>6. ASSUME NEW tf \in Timeframes, NEW n \in Names PROVE Frame(tf, n) \in [timeframe : Timeframes, candles : FileStates]
  BY DEF Frame, StoreInv, FilesOK, FileKinds
<1>7. ASSUME manifest' = manifest, loaded' = loaded PROVE ManifestOK' /\ LoadedOK'
  BY <1>1, <1>7 DEF StoreInv, ManifestOK, LoadedOK, Fits, FramesOf, Frame
<1>8. ASSUME bundler' \in [doing : {"CHECK", "RANGE", "OPEN", "WRITE"}, snapshots : [Timeframes -> Names],
                            left : SUBSET Timeframes, frames : Frames],
              manifest'.is # "WHOLE",
              \A tf \in Timeframes \ bundler'.left : Fits(tf, bundler'.snapshots[tf]),
              bundler'.doing = "CHECK" =>
                bundler'.frames = FramesOf(bundler'.snapshots, Timeframes \ bundler'.left),
              bundler'.doing = "RANGE" =>
                \E last \in Timeframes \ bundler'.left :
                  bundler'.frames = FramesOf(bundler'.snapshots, (Timeframes \ bundler'.left) \ {last}),
              bundler'.doing \in {"OPEN", "WRITE"} =>
                bundler'.left = {} /\ bundler'.frames = FramesOf(bundler'.snapshots, Timeframes)
       PROVE  BundlerOK'
  BY <1>1, <1>8 DEF BundlerOK, Fits, FramesOf, Frame
<1>9. ASSUME bundler' = Idle PROVE BundlerOK'
  BY <1>9 DEF BundlerOK
<1>10. CASE StartBundle
  <2>1. PICK snapshots \in [Timeframes -> Names] :
          bundler' = [doing |-> "CHECK", snapshots |-> snapshots, left |-> Timeframes, frames |-> {}]
    BY <1>10 DEF StartBundle
  <2>2. manifest.is = "ABSENT" /\ manifest' = manifest /\ loaded' = loaded
    BY <1>10 DEF StartBundle
  <2>3. FramesOf(snapshots, Timeframes \ Timeframes) = {}
    BY DEF FramesOf
  <2>4. BundlerOK'
    BY <1>8, <2>1, <2>2, <2>3
  <2> QED
    BY <1>2, <1>7, <2>2, <2>4 DEF StoreInv
<1>11. ASSUME NEW tf \in Timeframes, CheckMetadata(tf) PROVE StoreInv'
  <2>1. /\ bundler.doing = "CHECK" /\ tf \in bundler.left
        /\ manifest' = manifest /\ loaded' = loaded
    BY <1>11 DEF CheckMetadata
  <2>2. CASE \E table \in MetadataOf(s[tf]) : table.timeframe = tf
    <3>1. bundler' = [bundler EXCEPT !.doing = "RANGE", !.left = @ \ {tf}]
      BY <1>11, <2>2 DEF CheckMetadata
    <3>2. /\ bundler \in [doing : {"CHECK", "RANGE", "OPEN", "WRITE"}, snapshots : [Timeframes -> Names],
                            left : SUBSET Timeframes, frames : Frames]
          /\ manifest.is # "WHOLE" /\ (\A t \in done : Fits(t, s[t]))
          /\ bundler.frames = FramesOf(s, done)
      BY <1>4, <2>1 DEF Composing
    <3>3. /\ bundler' \in [doing : {"CHECK", "RANGE", "OPEN", "WRITE"}, snapshots : [Timeframes -> Names],
                             left : SUBSET Timeframes, frames : Frames]
          /\ bundler'.doing = "RANGE" /\ bundler'.snapshots = s
          /\ bundler'.left = bundler.left \ {tf} /\ bundler'.frames = bundler.frames
      BY <3>1, <3>2
    <3>4. Fits(tf, s[tf])
      <4>1. PICK table \in Tables : files["json"][s[tf]] = Whole(table) /\ table.timeframe = tf
        BY <2>2 DEF MetadataOf
      <4>2. s[tf] \in Names
        BY <3>2
      <4>3. files["csv"][s[tf]] = files["json"][s[tf]]
        BY <4>1, <4>2, FileKindsDiffer DEF StoreInv, SavedInOrder
      <4> QED
        BY <4>1, <4>3 DEF Fits
    <3>5. /\ Timeframes \ bundler'.left = done \cup {tf}
          /\ (Timeframes \ bundler'.left) \ {tf} = done
      BY <2>1, <3>2, <3>3
    <3>6. \A t \in Timeframes \ bundler'.left : Fits(t, bundler'.snapshots[t])
      BY <3>2, <3>3, <3>4, <3>5
    <3>7. \E last \in Timeframes \ bundler'.left :
            bundler'.frames = FramesOf(bundler'.snapshots, (Timeframes \ bundler'.left) \ {last})
      BY <3>2, <3>3, <3>5
    <3>8. BundlerOK'
      BY <1>8, <2>1, <3>2, <3>3, <3>6, <3>7
    <3> QED
      BY <1>2, <1>7, <2>1, <3>8 DEF StoreInv
  <2>3. CASE ~(\E table \in MetadataOf(s[tf]) : table.timeframe = tf)
    BY <1>2, <1>11, <1>7, <1>9, <2>1, <2>3 DEF CheckMetadata, StoreInv
  <2> QED
    BY <2>2, <2>3
<1>12. CASE AddRange
  <2>1. PICK tf \in done :
          /\ \A frame \in bundler.frames : frame.timeframe # tf
          /\ bundler' = IF Readable(s[tf])
                          THEN [bundler EXCEPT !.frames = @ \cup {Frame(tf, s[tf])},
                                               !.doing = IF bundler.left = {} THEN "OPEN" ELSE "CHECK"]
                          ELSE Idle
    BY <1>12 DEF AddRange
  <2>2. bundler.doing = "RANGE" /\ manifest' = manifest /\ loaded' = loaded
    BY <1>12 DEF AddRange
  <2>3. CASE Readable(s[tf])
    <3>1. bundler' = [bundler EXCEPT !.frames = @ \cup {Frame(tf, s[tf])},
                                     !.doing = IF bundler.left = {} THEN "OPEN" ELSE "CHECK"]
      BY <2>1, <2>3
    <3>2. /\ bundler \in [doing : {"CHECK", "RANGE", "OPEN", "WRITE"}, snapshots : [Timeframes -> Names],
                            left : SUBSET Timeframes, frames : Frames]
          /\ manifest.is # "WHOLE" /\ (\A t \in done : Fits(t, s[t]))
      BY <1>4, <2>2 DEF Composing
    <3>3. PICK last \in done : bundler.frames = FramesOf(s, done \ {last})
      BY <1>4, <2>2 DEF Composing
    <3>4. last = tf
      <4>1. SUFFICES ASSUME last # tf PROVE FALSE
        OBVIOUS
      <4>2. Frame(tf, s[tf]) \in bundler.frames
        BY <3>3, <4>1 DEF FramesOf
      <4> QED
        BY <2>1, <4>2 DEF Frame
    <3>5. Frame(tf, s[tf]) \in [timeframe : Timeframes, candles : FileStates]
      BY <1>6, <3>2
    <3>6. bundler.frames \cup {Frame(tf, s[tf])} = FramesOf(s, done)
      BY <3>3, <3>4 DEF FramesOf
    <3>7. /\ bundler' \in [doing : {"CHECK", "RANGE", "OPEN", "WRITE"}, snapshots : [Timeframes -> Names],
                             left : SUBSET Timeframes, frames : Frames]
          /\ bundler'.doing = (IF bundler.left = {} THEN "OPEN" ELSE "CHECK")
          /\ bundler'.snapshots = s /\ bundler'.left = bundler.left
          /\ bundler'.frames = bundler.frames \cup {Frame(tf, s[tf])}
      BY <3>1, <3>2, <3>5
    <3>8. bundler.left = {} => done = Timeframes
      OBVIOUS
    <3>9. BundlerOK'
      BY <1>8, <2>2, <3>2, <3>6, <3>7, <3>8
    <3> QED
      BY <1>2, <1>7, <2>2, <3>9 DEF StoreInv
  <2>4. CASE ~Readable(s[tf])
    BY <1>2, <1>7, <1>9, <2>1, <2>2, <2>4 DEF StoreInv
  <2> QED
    BY <2>3, <2>4
<1>13. CASE OpenManifest
  <2>1. /\ bundler.doing = "OPEN" /\ manifest' = Torn /\ loaded' = loaded
        /\ bundler' = [bundler EXCEPT !.doing = "WRITE"]
    BY <1>13 DEF OpenManifest
  <2>2. /\ bundler \in [doing : {"CHECK", "RANGE", "OPEN", "WRITE"}, snapshots : [Timeframes -> Names],
                          left : SUBSET Timeframes, frames : Frames]
        /\ manifest.is # "WHOLE" /\ (\A t \in done : Fits(t, s[t]))
        /\ bundler.left = {} /\ bundler.frames = FramesOf(s, Timeframes)
    BY <1>4, <2>1 DEF Composing
  <2>3. /\ bundler' \in [doing : {"CHECK", "RANGE", "OPEN", "WRITE"}, snapshots : [Timeframes -> Names],
                           left : SUBSET Timeframes, frames : Frames]
        /\ bundler'.doing = "WRITE" /\ bundler'.snapshots = s
        /\ bundler'.left = bundler.left /\ bundler'.frames = bundler.frames
    BY <2>1, <2>2
  <2>4. manifest'.is # "WHOLE"
    BY <2>1, FileKindsDiffer
  <2>5. BundlerOK'
    BY <1>8, <2>2, <2>3, <2>4
  <2>6. ManifestOK' /\ LoadedOK'
    BY <2>1, <2>2, <2>4 DEF ManifestOK, LoadedOK, StoreInv
  <2> QED
    BY <1>2, <2>5, <2>6 DEF StoreInv
<1>14. CASE WriteManifest
  <2>1. /\ bundler.doing = "WRITE" /\ loaded' = loaded /\ bundler' = Idle
        /\ manifest' = Whole([snapshots |-> s, ranges |-> bundler.frames])
    BY <1>14 DEF WriteManifest
  <2>2. /\ s \in [Timeframes -> Names] /\ manifest.is # "WHOLE"
        /\ \A t \in Timeframes : Fits(t, s[t])
        /\ bundler.frames = FramesOf(s, Timeframes)
    BY <1>4, <2>1 DEF Composing
  <2>3. manifest'.content.snapshots = s /\ manifest'.content.ranges = FramesOf(s, Timeframes)
    BY <2>1, <2>2, FileKindsDiffer
  <2>4. ManifestOK'
    BY <1>1, <2>2, <2>3 DEF ManifestOK, Fits, FramesOf, Frame
  <2>5. LoadedOK'
    BY <2>1, <2>2 DEF StoreInv, LoadedOK
  <2> QED
    BY <1>2, <1>9, <2>1, <2>4, <2>5 DEF StoreInv
<1>15. ASSUME bundler' \in [doing : {"LOAD"}, frames : Frames, left : SUBSET Timeframes],
              manifest'.is = "WHOLE", manifest' = manifest,
              bundler'.frames = FramesOf(manifest.content.snapshots, Timeframes \ bundler'.left)
       PROVE  BundlerOK'
  BY <1>1, <1>15 DEF BundlerOK, FramesOf, Frame
<1>16. CASE StartLoad
  <2>1. /\ manifest.is = "WHOLE" /\ manifest' = manifest /\ loaded' = loaded
        /\ bundler' = [doing |-> "LOAD", frames |-> {}, left |-> Timeframes]
    BY <1>16 DEF StartLoad
  <2>2. FramesOf(manifest.content.snapshots, Timeframes \ Timeframes) = {}
    BY DEF FramesOf
  <2>3. BundlerOK'
    BY <1>15, <2>1, <2>2
  <2> QED
    BY <1>2, <1>7, <2>1, <2>3 DEF StoreInv
<1>17. ASSUME NEW tf \in Timeframes, LoadFrame(tf) PROVE StoreInv'
  <2> DEFINE m == manifest.content.snapshots
  <2>1. /\ bundler.doing = "LOAD" /\ tf \in bundler.left
        /\ manifest' = manifest /\ loaded' = loaded
        /\ bundler' = IF Readable(m[tf])
                        THEN [bundler EXCEPT !.left = @ \ {tf}, !.frames = @ \cup {Frame(tf, m[tf])}]
                        ELSE Idle
    BY <1>17 DEF LoadFrame
  <2>2. CASE Readable(m[tf])
    <3>1. bundler' = [bundler EXCEPT !.left = @ \ {tf}, !.frames = @ \cup {Frame(tf, m[tf])}]
      BY <2>1, <2>2
    <3>2. /\ bundler \in [doing : {"LOAD"}, frames : Frames, left : SUBSET Timeframes]
          /\ manifest.is = "WHOLE" /\ bundler.frames = FramesOf(m, done)
          /\ m \in [Timeframes -> Names]
      BY <1>5, <2>1
    <3>3. Frame(tf, m[tf]) \in [timeframe : Timeframes, candles : FileStates]
      BY <1>6, <3>2
    <3>4. /\ bundler' \in [doing : {"LOAD"}, frames : Frames, left : SUBSET Timeframes]
          /\ bundler'.left = bundler.left \ {tf}
          /\ bundler'.frames = bundler.frames \cup {Frame(tf, m[tf])}
      BY <3>1, <3>2, <3>3
    <3>5. Timeframes \ bundler'.left = done \cup {tf}
      BY <2>1, <3>2, <3>4
    <3>6. FramesOf(m, done \cup {tf}) = FramesOf(m, done) \cup {Frame(tf, m[tf])}
      BY DEF FramesOf
    <3>7. BundlerOK'
      BY <1>15, <2>1, <3>2, <3>4, <3>5, <3>6
    <3> QED
      BY <1>2, <1>7, <2>1, <3>7 DEF StoreInv
  <2>3. CASE ~Readable(m[tf])
    BY <1>2, <1>7, <1>9, <2>1, <2>3 DEF StoreInv
  <2> QED
    BY <2>2, <2>3
<1>18. CASE ReturnFrames
  <2>1. /\ bundler.doing = "LOAD" /\ bundler.left = {} /\ bundler' = Idle /\ manifest' = manifest
        /\ loaded' = [is |-> "FRAMES", frames |-> bundler.frames]
    BY <1>18 DEF ReturnFrames
  <2>2. done = Timeframes
    BY <2>1
  <2>3. bundler.frames = manifest.content.ranges /\ manifest.is = "WHOLE"
    BY <1>5, <2>1, <2>2 DEF StoreInv, ManifestOK
  <2>4. LoadedOK'
    BY <2>1, <2>3 DEF LoadedOK
  <2>5. ManifestOK'
    BY <1>1, <2>1 DEF StoreInv, ManifestOK, Fits, FramesOf, Frame
  <2> QED
    BY <1>2, <1>9, <2>1, <2>4, <2>5 DEF StoreInv
<1>19. CASE BundlerDies
  BY <1>2, <1>19, <1>7, <1>9 DEF BundlerDies, StoreInv
<1> QED
  BY <1>10, <1>11, <1>12, <1>13, <1>14, <1>16, <1>17, <1>18, <1>19 DEF BundlerStep

-----------------------------------------------------------------------------
(* The invariant holds in every reachable state.                           *)
THEOREM StoreInvariant == StoreSpec => []StoreInv
<1>1. ASSUME StoreInv, [StoreNext]_store_vars PROVE StoreInv'
  <2>1. CASE SaverStep
    BY <1>1, <2>1, SaverInv, SaverKeepsBundles DEF StoreInv
  <2>2. CASE BundlerStep
    BY <1>1, <2>2, BundlerInv
  <2>3. CASE UNCHANGED store_vars
    <3>1. files' = files /\ manifest' = manifest /\ saver' = saver
          /\ bundler' = bundler /\ loaded' = loaded
      BY <2>3 DEF store_vars
    <3>2. FilesOK' /\ SavedInOrder' /\ SaverOK'
      BY <1>1, <3>1 DEF StoreInv, FilesOK, SavedInOrder, SaverOK
    <3>3. BundlerOK'
      BY <1>1, <3>1 DEF StoreInv, BundlerOK, Fits, FramesOf, Frame
    <3>4. ManifestOK' /\ LoadedOK'
      BY <1>1, <3>1 DEF StoreInv, ManifestOK, LoadedOK, Fits, FramesOf, Frame
    <3> QED
      BY <3>2, <3>3, <3>4 DEF StoreInv
  <2> QED
    BY <1>1, <2>1, <2>2, <2>3 DEF StoreNext, SaverStep, BundlerStep
<1> QED
  BY InitStore, <1>1, PTL DEF StoreSpec

(* A bundle composes complete snapshots, whatever was interrupted.         *)
THEOREM BundlesAreWhole == StoreSpec => []BundleIsWhole
<1>1. StoreInv => BundleIsWhole
  BY DEF StoreInv, ManifestOK, BundleIsWhole, FramesOf, Fits
<1> QED
  BY <1>1, StoreInvariant, PTL

(* A bundle loads as it was composed.                                      *)
THEOREM BundlesLoadAsComposed == StoreSpec => []LoadsAreReproducible
<1>1. StoreInv => LoadsAreReproducible
  BY DEF StoreInv, LoadedOK, LoadsAreReproducible
<1> QED
  BY <1>1, StoreInvariant, PTL

(* Complete candles are never written again.                               *)
THEOREM CompleteSnapshotsStay == StoreSpec => SnapshotsAreFrozen
<1> DEFINE CandlesStay == \A n \in Names :
                           files["csv"][n].is = "WHOLE" => files'["csv"][n] = files["csv"][n]
<1>1. ASSUME StoreInv, [StoreNext]_store_vars PROVE CandlesStay
  <2>1. CASE SaverStep
    BY <1>1, <2>1, SaverKeepsComplete DEF StoreInv, FileKinds
  <2>2. CASE BundlerStep
    BY <2>2 DEF BundlerStep, StartBundle, CheckMetadata, AddRange, OpenManifest, WriteManifest,
         StartLoad, LoadFrame, ReturnFrames, BundlerDies
  <2>3. CASE UNCHANGED store_vars
    BY <2>3 DEF store_vars
  <2> QED
    BY <1>1, <2>1, <2>2, <2>3 DEF StoreNext, SaverStep, BundlerStep
<1>2. CandlesStay => [CandlesStay]_store_vars
  OBVIOUS
<1> QED
  BY <1>1, <1>2, StoreInvariant, PTL DEF StoreSpec, SnapshotsAreFrozen

-----------------------------------------------------------------------------
(* Steps that touch neither candles nor manifest nor answer are stutters.  *)
LEMMA SameFilesSameView ==
  ASSUME files' = files, manifest' = manifest, loaded' = loaded
  PROVE  UNCHANGED Frozen!vars
BY DEF Frozen!vars, FrozenSnapshots, BundledSnapshots, LoadedTables

(* A snapshot exists as soon as its candles are complete; opening a file   *)
(* or writing the metadata changes nothing.                                *)
LEMMA SaverImplements ==
  ASSUME StoreInv, SaverStep
  PROVE  [Frozen!Next]_(Frozen!vars)
<1> DEFINE csv == files["csv"]
           n == saver.name
<1>1. manifest' = manifest /\ loaded' = loaded
  BY DEF SaverStep, StartSave, OpenFile, WriteFile, SaverDies
<1>2. BundledSnapshots' = BundledSnapshots /\ LoadedTables' = LoadedTables
  BY <1>1 DEF BundledSnapshots, LoadedTables
<1>3. CASE StartSave \/ SaverDies
  BY <1>1, <1>3, SameFilesSameView DEF StartSave, SaverDies
<1>4. ASSUME saver.doing = "SAVE", NEW new, files' = [files EXCEPT ![WriteOrder[saver.file]][n] = new],
             new.is = "WHOLE" => saver.file = 2
      PROVE  UNCHANGED Frozen!vars
  <2>1. /\ saver.file \in {1, 2} /\ n \in Names
        /\ saver.file = 1 => csv[n].is # "WHOLE"
        /\ csv \in [Names -> FileStates] /\ files = [kind \in FileKinds |-> files[kind]]
    BY <1>4 DEF StoreInv, SaverOK, Idle, FilesOK, FileKinds
  <2>2. CASE saver.file = 2
    <3>1. files'["csv"] = files["csv"]
      BY <1>4, <2>1, <2>2 DEF WriteOrder, FileKinds
    <3> QED
      BY <1>2, <3>1 DEF Frozen!vars, FrozenSnapshots
  <2>3. CASE saver.file = 1
    <3>1. files'["csv"] = [csv EXCEPT ![n] = new]
      BY <1>4, <2>1, <2>3 DEF WriteOrder, FileKinds
    <3>2. new.is # "WHOLE" /\ csv[n].is # "WHOLE"
      BY <1>4, <2>1, <2>3
    <3>3. /\ {m \in Names : files'["csv"][m].is = "WHOLE"} = {m \in Names : csv[m].is = "WHOLE"}
          /\ \A m \in {k \in Names : csv[k].is = "WHOLE"} : files'["csv"][m] = csv[m]
      BY <2>1, <3>1, <3>2
    <3>4. FrozenSnapshots' = FrozenSnapshots
      BY <3>3 DEF FrozenSnapshots
    <3> QED
      BY <1>2, <3>4 DEF Frozen!vars
  <2> QED
    BY <2>1, <2>2, <2>3
<1>5. CASE OpenFile
  <2>1. saver.doing = "SAVE" /\ files' = [files EXCEPT ![WriteOrder[saver.file]][n] = Torn]
    BY <1>5 DEF OpenFile
  <2> QED
    BY <1>4, <2>1, FileKindsDiffer
<1>6. CASE WriteFile
  <2> DEFINE table == saver.table
  <2>1. saver.doing = "SAVE" /\ files' = [files EXCEPT ![WriteOrder[saver.file]][n] = Whole(table)]
    BY <1>6 DEF WriteFile
  <2>2. /\ saver.file \in {1, 2} /\ n \in Names /\ table \in Tables
        /\ saver.file = 1 => csv[n].is # "WHOLE"
        /\ csv \in [Names -> FileStates] /\ files = [kind \in FileKinds |-> files[kind]]
    BY <2>1 DEF StoreInv, SaverOK, Idle, FilesOK, FileKinds
  <2>3. CASE saver.file = 2
    BY <1>4, <2>1, <2>3
  <2>4. CASE saver.file = 1
    <3>1. files'["csv"] = [csv EXCEPT ![n] = Whole(table)] /\ csv[n].is # "WHOLE"
      BY <2>1, <2>2, <2>4 DEF WriteOrder, FileKinds
    <3>2. Whole(table).is = "WHOLE" /\ Whole(table).content = table
      BY FileKindsDiffer
    <3>3. /\ {m \in Names : files'["csv"][m].is = "WHOLE"} = {m \in Names : csv[m].is = "WHOLE"} \cup {n}
          /\ \A m \in {k \in Names : csv[k].is = "WHOLE"} : files'["csv"][m] = csv[m]
          /\ files'["csv"][n].content = table
      BY <2>2, <3>1, <3>2
    <3>4. FrozenSnapshots' = FrozenSnapshots \cup {[name |-> n, table |-> table]}
      BY <3>3 DEF FrozenSnapshots
    <3>5. \A s \in FrozenSnapshots : s.name # n
      BY <3>1 DEF FrozenSnapshots
    <3>6. Frozen!Freeze(n, table)
      BY <1>2, <3>4, <3>5 DEF Frozen!Freeze
    <3>7. table \in Frozen!Tables
      BY <2>2 DEF Frozen!Tables, Tables
    <3> QED
      BY <2>2, <3>6, <3>7 DEF Frozen!Next
  <2> QED
    BY <2>2, <2>3, <2>4
<1> QED
  BY <1>3, <1>5, <1>6 DEF SaverStep

(* Frames of snapshots that fit are one snapshot per timeframe.            *)
LEMMA FramesCompose ==
  ASSUME NEW s \in [Timeframes -> Names], \A tf \in Timeframes : Fits(tf, s[tf]),
         NEW choice,
         choice = {[name |-> s[frame.timeframe], table |-> ContentOf(frame.candles)] :
                     frame \in FramesOf(s, Timeframes)}
  PROVE  choice \in SUBSET FrozenSnapshots /\ Frozen!OnePerTimeframe(choice)
<1> DEFINE Table(tf) == files["csv"][s[tf]].content
           Of(tf) == [name |-> s[tf], table |-> Table(tf)]
<1>1. ASSUME NEW tf \in Timeframes
      PROVE  /\ files["csv"][s[tf]].is = "WHOLE" /\ Table(tf).timeframe = tf
             /\ ContentOf(files["csv"][s[tf]]) = Table(tf)
  <2>1. PICK table \in Tables : files["csv"][s[tf]] = Whole(table) /\ table.timeframe = tf
    BY DEF Fits
  <2> QED
    BY <2>1, FileKindsDiffer DEF ContentOf
<1>2. choice = {Of(tf) : tf \in Timeframes}
  <2>1. FramesOf(s, Timeframes) = {Frame(tf, s[tf]) : tf \in Timeframes}
    BY DEF FramesOf
  <2>2. \A tf \in Timeframes :
          [name |-> s[Frame(tf, s[tf]).timeframe], table |-> ContentOf(Frame(tf, s[tf]).candles)] = Of(tf)
    BY <1>1 DEF Frame
  <2> HIDE DEF Of
  <2> QED
    BY <2>1, <2>2
<1>3. \A tf \in Timeframes : Of(tf) \in FrozenSnapshots
  BY <1>1 DEF FrozenSnapshots
<1>4. \A tf \in Timeframes : Of(tf).table.timeframe = tf
  BY <1>1
<1> HIDE DEF Of
<1>5. Frozen!OnePerTimeframe(choice)
  BY <1>2, <1>4 DEF Frozen!OnePerTimeframe
<1> QED
  BY <1>2, <1>3, <1>5

(* The bundle exists as soon as its manifest is complete, and what is      *)
(* loaded is what it is composed of.                                       *)
LEMMA BundlerImplements ==
  ASSUME StoreInv, BundlerStep
  PROVE  [Frozen!Next]_(Frozen!vars)
<1>1. files' = files
  BY DEF BundlerStep, StartBundle, CheckMetadata, AddRange, OpenManifest, WriteManifest,
     StartLoad, LoadFrame, ReturnFrames, BundlerDies
<1>2. FrozenSnapshots' = FrozenSnapshots
  BY <1>1 DEF FrozenSnapshots
<1>3. ASSUME bundler.doing \in {"OPEN", "WRITE"}
      PROVE  /\ manifest.is # "WHOLE" /\ bundler.snapshots \in [Timeframes -> Names]
             /\ \A tf \in Timeframes : Fits(tf, bundler.snapshots[tf])
             /\ bundler.frames = FramesOf(bundler.snapshots, Timeframes)
  BY <1>3 DEF StoreInv, BundlerOK, Idle
<1>4. CASE OpenManifest
  <2>1. manifest.is # "WHOLE" /\ manifest'.is # "WHOLE" /\ loaded' = loaded
    BY <1>3, <1>4, FileKindsDiffer DEF OpenManifest
  <2> QED
    BY <1>2, <2>1 DEF Frozen!vars, BundledSnapshots, LoadedTables
<1>5. CASE WriteManifest
  <2> DEFINE s == bundler.snapshots
             choice == {[name |-> s[frame.timeframe], table |-> ContentOf(frame.candles)] :
                          frame \in FramesOf(s, Timeframes)}
  <2>1. /\ manifest.is # "WHOLE" /\ s \in [Timeframes -> Names]
        /\ \A tf \in Timeframes : Fits(tf, s[tf])
        /\ manifest' = Whole([snapshots |-> s, ranges |-> FramesOf(s, Timeframes)]) /\ loaded' = loaded
    BY <1>3, <1>5 DEF WriteManifest
  <2>2. /\ manifest'.is = "WHOLE" /\ manifest'.content.snapshots = s
        /\ manifest'.content.ranges = FramesOf(s, Timeframes)
    BY <2>1, FileKindsDiffer
  <2>3. BundledSnapshots = {} /\ BundledSnapshots' = choice
    BY <2>1, <2>2 DEF BundledSnapshots
  <2>4. LoadedTables' = LoadedTables
    BY <2>1 DEF LoadedTables
  <2>5. choice \in SUBSET FrozenSnapshots /\ Frozen!OnePerTimeframe(choice)
    <3> HIDE DEF s
    <3> QED
      BY <2>1, FramesCompose
  <2> HIDE DEF choice
  <2>6. Frozen!Compose(choice)
    BY <1>2, <2>3, <2>4, <2>5 DEF Frozen!Compose
  <2> QED
    BY <2>5, <2>6 DEF Frozen!Next
<1>6. CASE ReturnFrames
  <2> DEFINE s == manifest.content.snapshots
             choice == {[name |-> s[frame.timeframe], table |-> ContentOf(frame.candles)] :
                          frame \in FramesOf(s, Timeframes)}
  <2>1. /\ bundler.doing = "LOAD" /\ bundler.left = {} /\ manifest' = manifest
        /\ loaded' = [is |-> "FRAMES", frames |-> bundler.frames]
    BY <1>6 DEF ReturnFrames
  <2>2. /\ manifest.is = "WHOLE" /\ s \in [Timeframes -> Names]
        /\ manifest.content.ranges = FramesOf(s, Timeframes)
        /\ \A tf \in Timeframes : Fits(tf, s[tf])
        /\ bundler.frames = FramesOf(s, Timeframes)
    <3>1. manifest.is = "WHOLE" /\ bundler.frames = FramesOf(s, Timeframes \ bundler.left)
      BY <2>1 DEF StoreInv, BundlerOK, Idle
    <3>2. Timeframes \ bundler.left = Timeframes
      BY <2>1
    <3> QED
      BY <3>1, <3>2 DEF StoreInv, ManifestOK
  <2>3. BundledSnapshots = choice /\ BundledSnapshots' = BundledSnapshots
    BY <2>1, <2>2 DEF BundledSnapshots
  <2>4. LoadedTables' = {ContentOf(frame.candles) : frame \in FramesOf(s, Timeframes)}
    BY <2>1, <2>2 DEF LoadedTables
  <2>5. Frozen!OnePerTimeframe(choice)
    <3> HIDE DEF s
    <3> QED
      BY <2>2, FramesCompose
  <2>6. {ContentOf(frame.candles) : frame \in FramesOf(s, Timeframes)} = {r.table : r \in choice}
    <3> DEFINE F == FramesOf(s, Timeframes)
               Of(frame) == [name |-> s[frame.timeframe], table |-> ContentOf(frame.candles)]
    <3>1. choice = {Of(frame) : frame \in F} /\ \A frame : Of(frame).table = ContentOf(frame.candles)
      OBVIOUS
    <3> HIDE DEF F, Of, choice
    <3>2. {ContentOf(frame.candles) : frame \in F} = {r.table : r \in choice}
      BY <3>1
    <3> QED
      BY <3>2 DEF F
  <2> HIDE DEF choice
  <2>7. Frozen!Load
    BY <1>2, <2>3, <2>4, <2>5, <2>6 DEF Frozen!Load
  <2> QED
    BY <2>7 DEF Frozen!Next
<1>7. CASE manifest' = manifest /\ loaded' = loaded
  BY <1>1, <1>7, SameFilesSameView
<1> QED
  BY <1>4, <1>5, <1>6, <1>7 DEF BundlerStep, StartBundle, CheckMetadata, AddRange, StartLoad, LoadFrame, BundlerDies

(* The files implement the store without files, whatever dies when.        *)
THEOREM ImplementsFrozenStore == StoreSpec => KeepsFrozenStore
<1>1. StoreInit => Frozen!Init
  BY DEF StoreInit, Frozen!Init, FrozenSnapshots, BundledSnapshots, LoadedTables, Absent, NoFrames, FileKinds
<1>2. StoreInv /\ [StoreNext]_store_vars => [Frozen!Next]_(Frozen!vars)
  <2> SUFFICES ASSUME StoreInv, [StoreNext]_store_vars PROVE [Frozen!Next]_(Frozen!vars)
    OBVIOUS
  <2>1. CASE SaverStep
    BY <2>1, SaverImplements
  <2>2. CASE BundlerStep
    BY <2>2, BundlerImplements
  <2>3. CASE UNCHANGED store_vars
    BY <2>3, SameFilesSameView DEF store_vars
  <2> QED
    BY <2>1, <2>2, <2>3 DEF StoreNext, SaverStep, BundlerStep
<1> QED
  BY <1>1, <1>2, StoreInvariant, PTL DEF StoreSpec, KeepsFrozenStore, Frozen!Spec
=============================================================================
