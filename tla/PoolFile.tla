------------------------------ MODULE PoolFile ------------------------------
(***************************************************************************)
(* The pool file (harvester.go): a call of Offer that changed the pool     *)
(* releases the lock and writes its snapshot to path.tmp, which it renames *)
(* over the file.  Calls overlap, writes and reads fail, and the process   *)
(* may die at any point and read the file back.                            *)
(***************************************************************************)
EXTENDS Harvester

CONSTANTS
    Offerers,       \* concurrent calls of Offer
    ConfigFile,     \* the hellos of Sources.Config, <<>> where there are none
    ConfigInline,   \* those of Sources.ConfigInline
    EmbeddedPool,   \* the snapshot compiled in
    AllowEmbedded,  \* Sources.AllowEmbedded
    MaxCrashes      \* bound: restarts of the process

ASSUME CrashAssumption == MaxCrashes \in Nat
ASSUME OffererAssumption == IsFiniteSet(Offerers)
ASSUME SourceAssumption == {ConfigFile, ConfigInline, EmbeddedPool} \subseteq Seq(Hellos)

VARIABLES
    offer,      \* per call of Offer: "idle", or where its writePoolFile is
    snapshot,   \* per call: what it is writing
    fd,         \* per call: the inode it has open
    path, tmp,  \* directory: the inodes of the pool file and of path.tmp
    content,    \* the lines of every inode
    whole,      \* history: the inode holds all of one snapshot and nothing else
    unsaved,    \* history: a write failed since the file was last replaced
    unread,     \* history: the last start could not read the file, and no
                \* call has replaced it since
    crashes     \* restarts so far

callVars == <<offer, snapshot, fd>>
diskVars == <<path, tmp, content, whole, unsaved, unread>>
fileVars == <<vars, callVars, diskVars, crashes>>

NoFile == 0
Inodes == 1 .. Cardinality(Offerers) + 2

FileInit ==
    /\ Init
    /\ offer = [o \in Offerers |-> "idle"]
    /\ snapshot = [o \in Offerers |-> <<>>]
    /\ fd = [o \in Offerers |-> NoFile]
    /\ path = NoFile /\ tmp = NoFile
    /\ content = [i \in Inodes |-> <<>>]
    /\ whole = [i \in Inodes |-> FALSE]
    /\ unsaved = FALSE
    /\ unread = FALSE
    /\ crashes = 0

(* What a call that changed the pool has to write. *)
SnapshotBefore == hellos
Snapshot == hellos'

(* Offer up to the unlock. *)
OfferUnlocks(o, h) ==
    /\ offer[o] = "idle"
    /\ \/ OfferMinority(h) /\ UNCHANGED <<offer, snapshot>>
       \/ /\ OfferMajority(h) \/ OfferPromotes(h)
          /\ snapshot' = [snapshot EXCEPT ![o] = Snapshot]
          /\ offer' = [offer EXCEPT ![o] = "open"]
    /\ UNCHANGED <<fd, diskVars, crashes>>

-----------------------------------------------------------------------------
(* writePoolFile *)

(* Offer returns, with or without an error. *)
Return(o) ==
    /\ offer' = [offer EXCEPT ![o] = "idle"]
    /\ snapshot' = [snapshot EXCEPT ![o] = <<>>]

(* The inode holds these lines now. *)
Store(o, i, lines) ==
    /\ content' = [content EXCEPT ![i] = lines]
    /\ whole' = [whole EXCEPT ![i] = lines = snapshot[o]]

(* os.WriteFile opens path.tmp with O_TRUNC: the file another call has     *)
(* open is the same inode.                                                 *)
FreeInode == CHOOSE i \in Inodes : i # path /\ \A o \in Offerers : fd[o] # i
TmpInode == IF tmp # NoFile THEN tmp ELSE FreeInode

OpenTmp(o) ==
    /\ offer[o] = "open"
    /\ tmp' = TmpInode
    /\ Store(o, TmpInode, <<>>)
    /\ fd' = [fd EXCEPT ![o] = TmpInode]
    /\ offer' = [offer EXCEPT ![o] = "write"]
    /\ UNCHANGED <<vars, snapshot, path, unsaved, unread, crashes>>

(* The directory or path.tmp cannot be created. *)
OpenFails(o) ==
    /\ offer[o] = "open"
    /\ Return(o)
    /\ unsaved' = TRUE
    /\ UNCHANGED <<vars, fd, path, tmp, content, whole, unread, crashes>>

(* The lines go to the start of the inode and leave what lies behind them. *)
Overlay(lines, old) == lines \o SubSeq(old, Len(lines) + 1, Len(old))

Close(o) == fd' = [fd EXCEPT ![o] = NoFile]

WriteTmp(o) ==
    /\ offer[o] = "write"
    /\ Store(o, fd[o], Overlay(snapshot[o], content[fd[o]]))
    /\ Close(o)
    /\ offer' = [offer EXCEPT ![o] = "rename"]
    /\ UNCHANGED <<vars, snapshot, path, tmp, unsaved, unread, crashes>>

(* The disk is full: part of the lines is written ... *)
WritePart(o) ==
    /\ offer[o] = "write"
    /\ \E n \in 0 .. Len(snapshot[o]) - 1 :
          Store(o, fd[o], Overlay(SubSeq(snapshot[o], 1, n), content[fd[o]]))
    /\ Close(o)
    /\ UNCHANGED <<vars, path, tmp, unread, crashes>>

(* ... and Offer returns the error. *)
WriteUnnoticed(o) ==
    /\ WritePart(o)
    /\ offer' = [offer EXCEPT ![o] = "rename"]
    /\ UNCHANGED <<snapshot, unsaved>>

WriteFails(o) == WritePart(o) /\ Return(o) /\ unsaved' = TRUE

(* os.Rename; without path.tmp it fails and changes nothing. *)
RenameTmp(o) ==
    /\ offer[o] = "rename"
    /\ path' = IF tmp = NoFile THEN path ELSE tmp
    /\ tmp' = NoFile
    /\ unsaved' = (tmp = NoFile)
    /\ unread' = (unread /\ tmp = NoFile)
    /\ Return(o)
    /\ UNCHANGED <<vars, fd, content, whole, crashes>>

(* os.Rename fails and path.tmp is removed. *)
RenameFails(o) ==
    /\ offer[o] = "rename"
    /\ tmp' = NoFile
    /\ unsaved' = TRUE
    /\ Return(o)
    /\ UNCHANGED <<vars, fd, path, content, whole, unread, crashes>>

-----------------------------------------------------------------------------
(* The process *)

(* NewHarvester on the lines of the pool file: the first MaxPool           *)
(* contributions.                                                          *)
Loaded(lines) ==
    LET of[i \in 0 .. Len(lines)] ==
            IF i = 0 THEN <<>>
            ELSE IF Len(of[i - 1]) >= MaxPool \/ Key(lines[i]) \in Keys(of[i - 1]) THEN of[i - 1]
            ELSE Append(of[i - 1], lines[i])
    IN  of[Len(lines)]

(* readPoolFile: the lines of the pool file, and an error only when it is  *)
(* there and cannot be read; it has no lines then, as when it is missing.  *)
FileLines == IF path = NoFile THEN <<>> ELSE content[path]
ReadPoolFile(readable) == IF readable THEN FileLines ELSE <<>>
ReadError(readable) == path # NoFile /\ ~readable

(* LoadPool, by which of the two files it can read: the first source with  *)
(* a usable hello, never two of them together, and of that one the largest *)
(* build; the pool compiled in only where it is allowed.                   *)
Config(readable) == IF readable /\ ConfigFile # <<>> THEN ConfigFile ELSE ConfigInline
ConfigBuild == [readable \in BOOLEAN |-> LargestBuild(Config(readable))]
EmbeddedBuild == LargestBuild(EmbeddedPool)

Origin(device, config) ==
    CASE ReadPoolFile(device) # <<>> -> "device"
      [] ReadPoolFile(device) = <<>> /\ Config(config) # <<>> -> "config"
      [] ReadPoolFile(device) = <<>> /\ Config(config) = <<>> ->
            IF AllowEmbedded THEN "embedded" ELSE "none"

LoadPool(device, config) ==
    CASE Origin(device, config) = "device"   -> LargestBuild(ReadPoolFile(device))
      [] Origin(device, config) = "config"   -> ConfigBuild[config]
      [] Origin(device, config) = "embedded" -> EmbeddedBuild
      [] Origin(device, config) = "none"     -> <<>>

(* What it tells of the device file, in Pool.Skipped or in its error. *)
SkippedDevice(device) == ReadError(device)

(* The process dies and starts again; path.tmp stays where it is.          *)
(* NewHarvester drops the error of the read.                               *)
Restart(readable) ==
    /\ crashes < MaxCrashes
    /\ crashes' = crashes + 1
    /\ hellos' = Loaded(ReadPoolFile(readable))
    /\ unread' = ReadError(readable)
    /\ pending' = <<>>
    /\ offer' = [o \in Offerers |-> "idle"]
    /\ snapshot' = [o \in Offerers |-> <<>>]
    /\ fd' = [o \in Offerers |-> NoFile]
    /\ unsaved' = FALSE
    /\ UNCHANGED <<path, tmp, content, whole, settled>>

FileNext ==
    \/ \E o \in Offerers : \/ \E h \in Hellos : OfferUnlocks(o, h)
                           \/ OpenTmp(o) \/ WriteTmp(o) \/ RenameTmp(o)
                           \/ OpenFails(o) \/ WriteFails(o) \/ RenameFails(o)
    \/ \E readable \in BOOLEAN : Restart(readable)

FileSpec == FileInit /\ [][FileNext]_fileVars

-----------------------------------------------------------------------------
(* Every variable has its type. *)
FileTypeOK ==
    /\ TypeOK
    /\ offer \in [Offerers -> {"idle", "open", "write", "rename"}]
    /\ \A o \in Offerers : ToSet(snapshot[o]) \subseteq Hellos /\ Len(snapshot[o]) <= MaxPool
    /\ fd \in [Offerers -> {NoFile} \cup Inodes]
    /\ path \in {NoFile} \cup Inodes /\ tmp \in {NoFile} \cup Inodes
    /\ whole \in [Inodes -> BOOLEAN] /\ unsaved \in BOOLEAN /\ unread \in BOOLEAN
    /\ crashes \in 0 .. MaxCrashes

(* The pool file is one whole snapshot of the pool, never a torn or an     *)
(* empty one, at whatever point the process dies or a write fails          *)
(* (harvester.go:344-346).                                                 *)
FileIsWhole == path # NoFile => whole[path] /\ Coherent(content[path])

(* When no call is writing, the file holds the pool that the process emits *)
(* from, unless Offer has returned an error since the file was replaced    *)
(* (harvester.go:133-138, 167-175), or the process started without being   *)
(* able to read the file, which NewHarvester tells nobody                  *)
(* (harvester.go:50-58).                                                   *)
FileIsCurrent ==
    (\A o \in Offerers : offer[o] = "idle") /\ ~unsaved /\ ~unread => FileLines = hellos

FileReplaced == FileLines' # FileLines

(* What the device learned is given up only for as much: the file is never *)
(* replaced by a shorter one, whatever failed or died in between, but      *)
(* after a start that could not read it (harvester.go:50-58, 206-213).     *)
NeverShrinks == [][FileReplaced /\ ~unread => Len(FileLines') >= Len(FileLines)]_diskVars

(* A client whose device pool is there never drops to a source of lower    *)
(* preference without the reason in Skipped, whatever fails or dies; and   *)
(* what it loads is one build, from one source (source.go:79-98).          *)
NoSilentFallback ==
    [][FileReplaced => \A device, config \in BOOLEAN :
          /\ FileLines # <<>> => Origin(device, config)' = "device" \/ SkippedDevice(device)'
          /\ IF Origin(device, config)' = "device" THEN LoadPool(device, config)' = FileLines'
             ELSE Cardinality(Fingerprints(LoadPool(device, config)')) <= 1
      ]_diskVars
=============================================================================
